------------------------- MODULE InvitationsProofs --------------------------
(***************************************************************************)
(* Theorems about Teams, and about Invitations, which extends it, for      *)
(* every number of people, teams, invitations and requests.                *)
(*                                                                         *)
(* The first half is about Teams alone.  What a request has read stays     *)
(* true because of the locks it holds, and those of two requests never     *)
(* exclude one another: Promise says what each step of each operation      *)
(* relies on, LocksAgree why nobody can break it.                          *)
(*                                                                         *)
(* The second half adds the acceptances.  What was shown of the operations *)
(* on teams stays true beside them: they add rows for somebody who did not *)
(* exist, and nobody can have relied on those.                             *)
(***************************************************************************)
EXTENDS Invitations, TLAPS

-----------------------------------------------------------------------------
(* Teams.                                                                  *)

\* The parts of a task that its operation uses are there, and each step belongs to
\* the operations that reach it.
Shaped(q) ==
  q.step # "idle" =>
    /\ q.op \in {"add", "remove", "disband", "create", "rename"} => q.team \in Teams
    /\ q.op \in {"add", "remove", "suspend", "reactivate"} => q.user \in Users
    /\ q.op = "add" => q.role \in TeamRoles
    /\ q.op \in {"create", "rename"} => q.slug \in Slugs
    /\ q.step = "addressed" => q.op \in {"add", "remove", "disband"}
    /\ q.step \in {"joinable", "examined"} => q.op = "add"
    /\ q.step = "written" => q.op \in {"add", "remove"}
    /\ q.step \in {"hidden", "emptied"} => q.op = "disband"
    /\ q.step = "read" => q.op \in {"rename", "suspend", "reactivate"}
    /\ q.step = "suspended" => q.op = "suspend"

\* What a request relies on, and the lock that keeps it.
Promise(q) ==
  /\ q.op \in {"add", "remove", "disband"} /\ q.step \notin {"idle", "received"} =>
        Share(TheTeam(q.team)) \in q.locks /\ teams[q.team].state = "live"
  /\ q.op = "add" /\ q.step \in {"joinable", "examined", "written"} =>
        Share(TheUser(q.user)) \in q.locks /\ accounts[q.user].status = "ACTIVE"
  /\ q.op = "add" /\ q.step \in {"examined", "written"} => members[q.team][q.user] # q.role
  /\ q.op \in {"add", "remove"} /\ q.step = "written" =>
        q.roster = {q.user} /\ Own(TheMembership(q.team, q.user)) \in q.locks
  /\ q.op = "remove" /\ q.step = "written" => members[q.team][q.user] # "none"
  /\ q.op = "disband" /\ q.step \in {"hidden", "emptied"} => Own(TheTeam(q.team)) \in q.locks
  /\ q.op = "disband" /\ q.step = "emptied" =>
        \A u \in q.roster : /\ members[q.team][u] # "none"
                            /\ Own(TheMembership(q.team, u)) \in q.locks
  /\ q.op = "suspend" /\ q.step = "suspended" => Own(TheUser(q.user)) \in q.locks

LocksAgree ==
  \A r, q \in Requests :
    r # q => \A a \in work[r].locks, b \in work[q].locks : Compatible(a, b)

RequestsAreShaped == \A r \in Requests : Shaped(work[r])

PromisesHold == \A r \in Requests : Promise(work[r])

IInv == TypeOK /\ RequestsAreShaped /\ LocksAgree /\ PromisesHold /\ SuspendedIsOnNoTeam

\* The locks a request has when its next statement has run.
Holding(r) == work[r].locks \cup Wants(r)

-----------------------------------------------------------------------------
(* Locks.                                                                  *)

LEMMA OwnExcludes ==
  ASSUME NEW row
  PROVE  /\ ~Compatible(Own(row), Own(row))
         /\ ~Compatible(Own(row), Share(row))
         /\ ~Compatible(Share(row), Own(row))
  BY DEF Compatible, Own, Share

LEMMA CompatibleIsSymmetric ==
  ASSUME NEW a, NEW b, Compatible(a, b)
  PROVE  Compatible(b, a)
  BY DEF Compatible

LEMMA RowsHaveLocks ==
  /\ \A t \in Teams : Share(TheTeam(t)) \in Lock /\ Own(TheTeam(t)) \in Lock
  /\ \A u \in Users : Share(TheUser(u)) \in Lock /\ Own(TheUser(u)) \in Lock
  /\ \A t \in Teams, u \in Users : Own(TheMembership(t, u)) \in Lock
  BY DEF Lock, Row, Share, Own, TheTeam, TheUser, TheMembership

LEMMA WantsAreLocks ==
  ASSUME TypeOK, RequestsAreShaped, NEW p \in Requests
  PROVE  Wants(p) \subseteq Lock
<1> DEFINE q == work[p]
<1>1. q \in Task /\ Shaped(q)
  BY DEF TypeOK, RequestsAreShaped
<1>2. \A t \in Teams, u \in Users : Found(t, u) \subseteq Lock
  BY RowsHaveLocks DEF Found
<1>3. q.roster \subseteq Users
  BY <1>1 DEF Task
<1>4. q.step # "idle" /\ q.op \in {"add", "remove", "disband", "create", "rename"} =>
        q.team \in Teams
  BY <1>1 DEF Shaped
<1>5. q.step # "idle" /\ q.op \in {"add", "remove", "suspend", "reactivate"} =>
        q.user \in Users
  BY <1>1 DEF Shaped
<1>6. CASE q.step = "received"
  BY <1>4, <1>5, <1>6, RowsHaveLocks DEF Wants, TeamShared
<1>7. CASE q.step = "addressed"
  BY <1>1, <1>2, <1>4, <1>5, <1>7, RowsHaveLocks DEF Wants, Shaped, SubjectShared
<1>8. CASE q.step \in {"joinable", "examined"}
  BY <1>1, <1>2, <1>4, <1>5, <1>8, RowsHaveLocks DEF Wants, Shaped
<1>9. CASE q.step \in {"written", "emptied"}
  <2>1. Wants(p) = {Own(TheUser(u)) : u \in q.roster}
    BY <1>9 DEF Wants
  <2> QED
    BY <2>1, <1>3, RowsHaveLocks
<1>10. CASE q.step = "hidden"
  <2>1. Wants(p) = UNION {Found(q.team, u) : u \in Users}
    BY <1>10 DEF Wants
  <2>2. q.team \in Teams
    BY <1>1, <1>4, <1>10 DEF Shaped
  <2> QED
    BY <2>1, <2>2, <1>2
<1>11. CASE q.step = "suspended"
  <2>1. Wants(p) = UNION {Found(t, q.user) : t \in Teams}
    BY <1>11 DEF Wants
  <2>2. q.user \in Users
    BY <1>1, <1>5, <1>11 DEF Shaped
  <2> QED
    BY <2>1, <2>2, <1>2
<1>12. CASE q.step = "read"
  BY <1>1, <1>4, <1>5, <1>12, RowsHaveLocks DEF Wants, Shaped
<1>13. CASE q.step = "idle"
  BY <1>13 DEF Wants
<1> QED
  BY <1>1, <1>6, <1>7, <1>8, <1>9, <1>10, <1>11, <1>12, <1>13 DEF Task, Steps

\* Nobody holds what a request with a grant is about to have.
LEMMA GrantIsClear ==
  ASSUME LocksAgree, NEW p \in Requests, Granted(p), NEW r \in Requests, r # p,
         NEW a \in Holding(p), NEW b \in work[r].locks
  PROVE  Compatible(a, b) /\ Compatible(b, a)
<1>1. CASE a \in Wants(p)
  <2>1. r \notin Blockers(p)
    BY DEF Granted
  <2>2. Compatible(a, b)
    BY <1>1, <2>1 DEF Blockers
  <2> QED
    BY <2>2, CompatibleIsSymmetric
<1>2. CASE a \in work[p].locks
  BY <1>2 DEF LocksAgree
<1> QED
  BY <1>1, <1>2 DEF Holding

\* Two requests still agree when one of them takes what it was granted.
LEMMA GrantKeepsTheLocks ==
  ASSUME LocksAgree, TypeOK, NEW p \in Requests, NEW q,
         work' = [work EXCEPT ![p] = q],
         q.locks = {} \/ (Granted(p) /\ q.locks \subseteq Holding(p))
  PROVE  LocksAgree'
<1> SUFFICES ASSUME NEW r \in Requests, NEW s \in Requests, r # s,
                    NEW a \in work'[r].locks, NEW b \in work'[s].locks
             PROVE  Compatible(a, b)
  BY DEF LocksAgree
<1>1. /\ work'[p] = q
      /\ \A x \in Requests \ {p} : work'[x] = work[x]
  BY DEF TypeOK
<1>2. CASE r = p
  BY <1>1, <1>2, GrantIsClear
<1>3. CASE s = p
  BY <1>1, <1>3, GrantIsClear
<1>4. CASE r # p /\ s # p
  BY <1>1, <1>4 DEF LocksAgree
<1> QED
  BY <1>2, <1>3, <1>4

\* Reading and locking: nothing changes but what one request knows.
LEMMA ReadingKeepsIInv ==
  ASSUME IInv, NEW p \in Requests, NEW q \in Task, Shaped(q), Promise(q),
         UNCHANGED rows, work' = [work EXCEPT ![p] = q],
         q.locks = {} \/ (Granted(p) /\ q.locks \subseteq Holding(p))
  PROVE  IInv'
<1>1. /\ work'[p] = q
      /\ \A x \in Requests \ {p} : work'[x] = work[x]
  BY DEF IInv, TypeOK
<1>2. TypeOK'
  BY DEF IInv, TypeOK, rows
<1>3. RequestsAreShaped'
  BY <1>1 DEF IInv, RequestsAreShaped
<1>4. LocksAgree'
  BY GrantKeepsTheLocks DEF IInv
<1>5. PromisesHold'
  BY <1>1 DEF IInv, PromisesHold, Promise, rows
<1>6. SuspendedIsOnNoTeam'
  BY DEF IInv, SuspendedIsOnNoTeam, TeamsOf, rows
<1> QED
  BY <1>2, <1>3, <1>4, <1>5, <1>6 DEF IInv

LEMMA FinishingKeepsIInv ==
  ASSUME IInv, NEW p \in Requests, UNCHANGED rows, Finish(p)
  PROVE  IInv'
<1>1. Idle \in Task /\ Shaped(Idle) /\ Promise(Idle) /\ Idle.locks = {}
  BY DEF Idle, Task, Shaped, Promise, Steps
<1> QED
  BY <1>1, ReadingKeepsIInv DEF Finish, Become

LEMMA ReachingKeepsIInv ==
  ASSUME IInv, NEW p \in Requests, UNCHANGED rows, Granted(p), NEW step \in Steps,
         NEW roster \in SUBSET Users, NEW q,
         q = [work[p] EXCEPT !.step = step, !.roster = roster, !.locks = Holding(p)],
         Become(p, q), Shaped(q), Promise(q)
  PROVE  IInv'
<1>1. work[p] \in Task
  BY DEF IInv, TypeOK
<1>2. Wants(p) \subseteq Lock
  BY WantsAreLocks DEF IInv
<1>3. Holding(p) \subseteq Lock
  BY <1>1, <1>2 DEF Holding, Task
<1>4. q \in Task
  BY <1>1, <1>3 DEF Task
<1>5. q.locks = Holding(p)
  BY <1>1 DEF Task
<1> QED
  BY <1>4, <1>5, ReadingKeepsIInv DEF Become

-----------------------------------------------------------------------------
(* The steps that only read and lock.                                      *)

LEMMA CallKeepsIInv ==
  ASSUME IInv, NEW p \in Requests, Call(p)
  PROVE  IInv'
<1>1. PICK op \in Operations, t \in Teams \cup {None}, u \in Users \cup {None},
           role \in TeamRoles \cup {None}, s \in Slugs \cup {None} :
        /\ Receive(p, op, t, u, role, s)
        /\ op \in {"add", "remove", "disband", "create", "rename"} => t \in Teams
        /\ op \in {"add", "remove", "suspend", "reactivate"} => u \in Users
        /\ op = "add" => role \in TeamRoles
        /\ op \in {"create", "rename"} => s \in Slugs
  <2>1. PICK op \in Operations :
          \/ /\ op = "add"
             /\ \E t \in Teams, u \in Users, role \in TeamRoles :
                  Receive(p, op, t, u, role, None)
          \/ /\ op = "remove"
             /\ \E t \in Teams, u \in Users : Receive(p, op, t, u, None, None)
          \/ /\ op = "disband"
             /\ \E t \in Teams : Receive(p, op, t, None, None, None)
          \/ /\ op \in {"create", "rename"}
             /\ \E t \in Teams, s \in Slugs : Receive(p, op, t, None, None, s)
          \/ /\ op \in {"suspend", "reactivate"}
             /\ \E u \in Users : Receive(p, op, None, u, None, None)
    BY DEF Call
  <2>2. CASE op = "add"
    BY <2>1, <2>2
  <2>3. CASE op = "remove"
    BY <2>1, <2>3
  <2>4. CASE op = "disband"
    BY <2>1, <2>4
  <2>5. CASE op \in {"create", "rename"}
    BY <2>1, <2>5
  <2>6. CASE op \in {"suspend", "reactivate"}
    BY <2>1, <2>6
  <2> QED
    BY <2>1, <2>2, <2>3, <2>4, <2>5, <2>6
<1> DEFINE q == [Idle EXCEPT !.step = "received", !.op = op, !.team = t, !.user = u,
                             !.role = role, !.slug = s]
<1>2. q \in Task
  BY DEF Task, Idle, Steps
<1>3. Shaped(q)
  BY <1>1 DEF Shaped, Idle
<1>4. Promise(q)
  BY DEF Promise, Idle
<1>5. q.locks = {}
  BY DEF Idle
<1> QED
  BY <1>1, <1>2, <1>3, <1>4, <1>5, ReadingKeepsIInv DEF Receive, Become

LEMMA AddressKeepsIInv ==
  ASSUME IInv, NEW p \in Requests, Address(p)
  PROVE  IInv'
<1> DEFINE q == work[p]
           x == [q EXCEPT !.step = "addressed", !.locks = Holding(p)]
<1>1. q \in Task /\ Shaped(q)
  BY DEF IInv, TypeOK, RequestsAreShaped
<1>2. CASE teams[q.team].state = "live"
  <2>1. Wants(p) = {Share(TheTeam(q.team))}
    BY DEF Address, Wants, TeamShared
  <2>2. x = [q EXCEPT !.step = "addressed", !.roster = q.roster, !.locks = Holding(p)]
    BY <1>1 DEF Task
  <2>3. Shaped(x)
    BY <1>1 DEF Address, Shaped, Task
  <2>4. Promise(x)
    BY <1>1, <1>2, <2>1 DEF Address, Promise, Holding, Task
  <2>5. Become(p, x)
    BY <1>2 DEF Address, Reach, Holding
  <2> QED
    BY <1>1, <2>2, <2>3, <2>4, <2>5, ReachingKeepsIInv DEF Address, Task, Steps
<1>3. CASE teams[q.team].state # "live"
  BY <1>3, FinishingKeepsIInv DEF Address
<1> QED
  BY <1>2, <1>3

LEMMA AdmitSubjectKeepsIInv ==
  ASSUME IInv, NEW p \in Requests, AdmitSubject(p)
  PROVE  IInv'
<1> DEFINE q == work[p]
           x == [q EXCEPT !.step = "joinable", !.locks = Holding(p)]
<1>1. q \in Task /\ Shaped(q) /\ Promise(q)
  BY DEF IInv, TypeOK, RequestsAreShaped, PromisesHold
<1>2. CASE accounts[q.user].status = "ACTIVE"
  <2>1. Wants(p) = {Share(TheUser(q.user))}
    BY DEF AdmitSubject, Doing, Wants, SubjectShared
  <2>2. x = [q EXCEPT !.step = "joinable", !.roster = q.roster, !.locks = Holding(p)]
    BY <1>1 DEF Task
  <2>3. Shaped(x)
    BY <1>1 DEF AdmitSubject, Doing, Shaped, Task
  <2>4. Promise(x)
    BY <1>1, <1>2, <2>1 DEF AdmitSubject, Doing, Promise, Holding, Task
  <2>5. Become(p, x)
    BY <1>2 DEF AdmitSubject, Reach, Holding
  <2>6. q.roster \in SUBSET Users
    BY <1>1 DEF AdmitSubject, Doing, Shaped, Task, OnTeam
  <2> QED
    BY <1>1, <2>2, <2>3, <2>4, <2>5, <2>6, ReachingKeepsIInv DEF AdmitSubject, Task, Steps
<1>3. CASE ~(accounts[q.user].status = "ACTIVE")
  BY <1>3, FinishingKeepsIInv DEF AdmitSubject
<1> QED
  BY <1>2, <1>3

LEMMA ExamineMembershipKeepsIInv ==
  ASSUME IInv, NEW p \in Requests, ExamineMembership(p)
  PROVE  IInv'
<1> DEFINE q == work[p]
           x == [q EXCEPT !.step = "examined", !.locks = Holding(p)]
<1>1. q \in Task /\ Shaped(q) /\ Promise(q)
  BY DEF IInv, TypeOK, RequestsAreShaped, PromisesHold
<1>2. CASE members[q.team][q.user] # q.role
  <2>1. Wants(p) = Found(q.team, q.user)
    BY DEF ExamineMembership, Doing, Wants
  <2>2. x = [q EXCEPT !.step = "examined", !.roster = q.roster, !.locks = Holding(p)]
    BY <1>1 DEF Task
  <2>3. Shaped(x)
    BY <1>1 DEF ExamineMembership, Doing, Shaped, Task
  <2>4. Promise(x)
    BY <1>1, <1>2, <2>1 DEF ExamineMembership, Doing, Promise, Holding, Task
  <2>5. Become(p, x)
    BY <1>2 DEF ExamineMembership, Reach, Holding
  <2>6. q.roster \in SUBSET Users
    BY <1>1 DEF ExamineMembership, Doing, Shaped, Task, OnTeam
  <2> QED
    BY <1>1, <2>2, <2>3, <2>4, <2>5, <2>6, ReachingKeepsIInv DEF ExamineMembership, Task, Steps
<1>3. CASE ~(members[q.team][q.user] # q.role)
  BY <1>3, FinishingKeepsIInv DEF ExamineMembership
<1> QED
  BY <1>2, <1>3

LEMMA WriteMembershipKeepsIInv ==
  ASSUME IInv, NEW p \in Requests, WriteMembership(p)
  PROVE  IInv'
<1> DEFINE q == work[p]
           x == [q EXCEPT !.step = "written", !.roster = {q.user}, !.locks = Holding(p)]
<1>1. q \in Task /\ Shaped(q) /\ Promise(q)
  BY DEF IInv, TypeOK, RequestsAreShaped, PromisesHold
<1>2. Wants(p) = {Own(TheMembership(q.team, q.user))}
  BY DEF WriteMembership, Doing, Wants
<1>3. x = [q EXCEPT !.step = "written", !.roster = {q.user}, !.locks = Holding(p)]
  BY <1>1 DEF Task
<1>4. Shaped(x)
  BY <1>1 DEF WriteMembership, Doing, Shaped, Task
<1>5. Promise(x)
  BY <1>1, <1>2 DEF WriteMembership, Doing, Promise, Holding, Task
<1>6. Become(p, x)
  BY DEF WriteMembership, Reach, Holding
<1>7. {q.user} \in SUBSET Users
  BY <1>1 DEF WriteMembership, Doing, Shaped, Task, OnTeam
<1> QED
  BY <1>1, <1>3, <1>4, <1>5, <1>6, <1>7, ReachingKeepsIInv DEF WriteMembership, Task, Steps

LEMMA TakeMembershipKeepsIInv ==
  ASSUME IInv, NEW p \in Requests, TakeMembership(p)
  PROVE  IInv'
<1> DEFINE q == work[p]
           x == [q EXCEPT !.step = "written", !.roster = {q.user}, !.locks = Holding(p)]
<1>1. q \in Task /\ Shaped(q) /\ Promise(q)
  BY DEF IInv, TypeOK, RequestsAreShaped, PromisesHold
<1>2. CASE members[q.team][q.user] # "none"
  <2>1. Wants(p) = {Own(TheMembership(q.team, q.user))}
    BY <1>2 DEF TakeMembership, Doing, Wants, Found
  <2>2. x = [q EXCEPT !.step = "written", !.roster = {q.user}, !.locks = Holding(p)]
    BY <1>1 DEF Task
  <2>3. Shaped(x)
    BY <1>1 DEF TakeMembership, Doing, Shaped, Task
  <2>4. Promise(x)
    BY <1>1, <1>2, <2>1 DEF TakeMembership, Doing, Promise, Holding, Task
  <2>5. Become(p, x)
    BY <1>2 DEF TakeMembership, Reach, Holding
  <2>6. {q.user} \in SUBSET Users
    BY <1>1 DEF TakeMembership, Doing, Shaped, Task, OnTeam
  <2> QED
    BY <1>1, <2>2, <2>3, <2>4, <2>5, <2>6, ReachingKeepsIInv DEF TakeMembership, Task, Steps
<1>3. CASE ~(members[q.team][q.user] # "none")
  BY <1>3, FinishingKeepsIInv DEF TakeMembership
<1> QED
  BY <1>2, <1>3

LEMMA HideTeamKeepsIInv ==
  ASSUME IInv, NEW p \in Requests, HideTeam(p)
  PROVE  IInv'
<1> DEFINE q == work[p]
           x == [q EXCEPT !.step = "hidden", !.locks = Holding(p)]
<1>1. q \in Task /\ Shaped(q) /\ Promise(q)
  BY DEF IInv, TypeOK, RequestsAreShaped, PromisesHold
<1>2. CASE teams[q.team].state = "live"
  <2>1. Wants(p) = {Own(TheTeam(q.team))}
    BY DEF HideTeam, Doing, Wants
  <2>2. x = [q EXCEPT !.step = "hidden", !.roster = q.roster, !.locks = Holding(p)]
    BY <1>1 DEF Task
  <2>3. Shaped(x)
    BY <1>1 DEF HideTeam, Doing, Shaped, Task
  <2>4. Promise(x)
    BY <1>1, <1>2, <2>1 DEF HideTeam, Doing, Promise, Holding, Task
  <2>5. Become(p, x)
    BY <1>2 DEF HideTeam, Reach, Holding
  <2>6. q.roster \in SUBSET Users
    BY <1>1 DEF HideTeam, Doing, Shaped, Task, OnTeam
  <2> QED
    BY <1>1, <2>2, <2>3, <2>4, <2>5, <2>6, ReachingKeepsIInv DEF HideTeam, Task, Steps
<1>3. CASE ~(teams[q.team].state = "live")
  BY <1>3, FinishingKeepsIInv DEF HideTeam
<1> QED
  BY <1>2, <1>3

LEMMA DeleteMembersKeepsIInv ==
  ASSUME IInv, NEW p \in Requests, DeleteMembers(p)
  PROVE  IInv'
<1> DEFINE q == work[p]
           x == [q EXCEPT !.step = "emptied", !.roster = OnTeam(q.team), !.locks = Holding(p)]
<1>1. q \in Task /\ Shaped(q) /\ Promise(q)
  BY DEF IInv, TypeOK, RequestsAreShaped, PromisesHold
<1>2. Wants(p) = UNION {Found(q.team, u) : u \in Users}
  BY DEF DeleteMembers, Doing, Wants
<1>3. x = [q EXCEPT !.step = "emptied", !.roster = OnTeam(q.team), !.locks = Holding(p)]
  BY <1>1 DEF Task
<1>4. Shaped(x)
  BY <1>1 DEF DeleteMembers, Doing, Shaped, Task
<1>5. Promise(x)
  <2>1. \A u \in OnTeam(q.team) : Own(TheMembership(q.team, u)) \in Holding(p)
    <3>1. \A u \in OnTeam(q.team) : Own(TheMembership(q.team, u)) \in Found(q.team, u)
      BY DEF Found, OnTeam
    <3> QED
      BY <3>1, <1>2 DEF Holding, OnTeam
  <2>2. \A u \in OnTeam(q.team) : members[q.team][u] # "none"
    BY DEF OnTeam
  <2>3. /\ x.op = "disband" /\ x.step = "emptied" /\ x.team = q.team
        /\ x.roster = OnTeam(q.team) /\ x.locks = Holding(p)
    BY <1>1 DEF DeleteMembers, Doing, Task
  <2>4. /\ Share(TheTeam(q.team)) \in q.locks /\ Own(TheTeam(q.team)) \in q.locks
        /\ teams[q.team].state = "live"
    BY <1>1 DEF DeleteMembers, Doing, Promise
  <2> QED
    BY <2>1, <2>2, <2>3, <2>4 DEF Promise, Holding
<1>6. Become(p, x)
  BY DEF DeleteMembers, Reach, Holding
<1>7. OnTeam(q.team) \in SUBSET Users
  BY <1>1 DEF DeleteMembers, Doing, Shaped, Task, OnTeam
<1> QED
  BY <1>1, <1>3, <1>4, <1>5, <1>6, <1>7, ReachingKeepsIInv DEF DeleteMembers, Task, Steps

LEMMA SuspendAccountKeepsIInv ==
  ASSUME IInv, NEW p \in Requests, SuspendAccount(p)
  PROVE  IInv'
<1> DEFINE q == work[p]
           x == [q EXCEPT !.step = "suspended", !.locks = Holding(p)]
<1>1. q \in Task /\ Shaped(q) /\ Promise(q)
  BY DEF IInv, TypeOK, RequestsAreShaped, PromisesHold
<1>2. Wants(p) = {Own(TheUser(q.user))}
  BY DEF SuspendAccount, Doing, Wants
<1>3. x = [q EXCEPT !.step = "suspended", !.roster = q.roster, !.locks = Holding(p)]
  BY <1>1 DEF Task
<1>4. Shaped(x)
  BY <1>1 DEF SuspendAccount, Doing, Shaped, Task
<1>5. Promise(x)
  BY <1>1, <1>2 DEF SuspendAccount, Doing, Promise, Holding, Task
<1>6. Become(p, x)
  BY DEF SuspendAccount, Reach, Holding
<1>7. q.roster \in SUBSET Users
  BY <1>1 DEF SuspendAccount, Doing, Shaped, Task, OnTeam
<1> QED
  BY <1>1, <1>3, <1>4, <1>5, <1>6, <1>7, ReachingKeepsIInv DEF SuspendAccount, Task, Steps

LEMMA ReadFirstKeepsIInv ==
  ASSUME IInv, NEW p \in Requests, ReadFirst(p)
  PROVE  IInv'
<1> DEFINE q == work[p]
           x == [q EXCEPT !.step = "read", !.locks = Holding(p)]
<1>1. q \in Task /\ Shaped(q)
  BY DEF IInv, TypeOK, RequestsAreShaped
<1>2. Wants(p) = {}
  BY DEF ReadFirst, Wants
<1>3. Granted(p)
  BY <1>2 DEF Granted, Blockers
<1>4. x = [q EXCEPT !.step = "read", !.roster = q.roster, !.locks = Holding(p)]
  BY <1>1 DEF Task
<1>5. Shaped(x)
  BY <1>1 DEF ReadFirst, Shaped, Task
<1>6. Promise(x)
  BY <1>1 DEF ReadFirst, Promise, Task
<1>7. Become(p, x) \/ Finish(p)
  BY DEF ReadFirst, Reach, Holding
<1> QED
  BY <1>1, <1>3, <1>4, <1>5, <1>6, <1>7, ReachingKeepsIInv, FinishingKeepsIInv
     DEF ReadFirst, Task, Steps

-----------------------------------------------------------------------------
(* The steps that write, which are the last of their requests.             *)

\* What a commit may change, given the locks of whoever commits.
Guarded(p) ==
  /\ \A t \in Teams : teams[t].state = "live" /\ teams'[t].state # "live" =>
        Own(TheTeam(t)) \in Holding(p)
  /\ \A u \in Users : accounts[u].status = "ACTIVE" /\ accounts'[u].status # "ACTIVE" =>
        Own(TheUser(u)) \in Holding(p)
  /\ \A t \in Teams, u \in Users : members'[t][u] # members[t][u] =>
        /\ Own(TheUser(u)) \in Holding(p)
        /\ members[t][u] # "none" => Own(TheMembership(t, u)) \in Holding(p)

\* Promises outlive the commit of somebody else.
LEMMA CommitKeepsPromises ==
  ASSUME IInv, NEW p \in Requests, Granted(p), Guarded(p),
         NEW r \in Requests, r # p, work'[r] = work[r]
  PROVE  Promise(work[r])'
<1> DEFINE q == work[r]
<1>1. q \in Task /\ Shaped(q) /\ Promise(q)
  BY DEF IInv, TypeOK, RequestsAreShaped, PromisesHold
<1>2. \A row : Share(row) \in q.locks \/ Own(row) \in q.locks => Own(row) \notin Holding(p)
  BY GrantIsClear, OwnExcludes DEF IInv
<1>3. q.op \in {"add", "remove", "disband"} /\ q.step \notin {"idle", "received"} =>
        Share(TheTeam(q.team)) \in q.locks /\ teams'[q.team].state = "live"
  BY <1>1, <1>2 DEF Promise, Shaped, Guarded
<1>4. q.op = "add" /\ q.step \in {"joinable", "examined", "written"} =>
        Share(TheUser(q.user)) \in q.locks /\ accounts'[q.user].status = "ACTIVE"
  BY <1>1, <1>2 DEF Promise, Shaped, Guarded
<1>5. q.op = "add" /\ q.step \in {"examined", "written"} =>
        members'[q.team][q.user] # q.role
  BY <1>1, <1>2 DEF Promise, Shaped, Guarded
<1>6. q.op = "remove" /\ q.step = "written" => members'[q.team][q.user] # "none"
  BY <1>1, <1>2 DEF Promise, Shaped, Guarded
<1>7. q.op = "disband" /\ q.step = "emptied" =>
        \A u \in q.roster : /\ members'[q.team][u] # "none"
                            /\ Own(TheMembership(q.team, u)) \in q.locks
  <2> SUFFICES ASSUME q.op = "disband", q.step = "emptied", NEW u \in q.roster
               PROVE  /\ members'[q.team][u] # "none"
                      /\ Own(TheMembership(q.team, u)) \in q.locks
    OBVIOUS
  <2>1. u \in Users /\ q.team \in Teams
    BY <1>1 DEF Task, Shaped
  <2>2. members[q.team][u] # "none" /\ Own(TheMembership(q.team, u)) \in q.locks
    BY <1>1 DEF Promise
  <2> QED
    BY <1>2, <2>1, <2>2 DEF Guarded
<1> QED
  BY <1>1, <1>3, <1>4, <1>5, <1>6, <1>7 DEF Promise

LEMMA CommittingKeepsIInv ==
  ASSUME IInv, NEW p \in Requests, Granted(p), Guarded(p), Finish(p), SuspendedIsOnNoTeam',
         teams' \in [Teams -> Team], accounts' \in [Users -> Account],
         members' \in [Teams -> [Users -> TeamRoles \cup {"none"}]]
  PROVE  IInv'
<1>1. /\ work'[p] = Idle
      /\ \A x \in Requests \ {p} : work'[x] = work[x]
  BY DEF IInv, TypeOK, Finish, Become
<1>2. Idle \in Task /\ Shaped(Idle) /\ Promise(Idle)' /\ Idle.locks = {}
  BY DEF Idle, Task, Shaped, Promise, Steps
<1>3. TypeOK'
  BY <1>2 DEF IInv, TypeOK, Finish, Become
<1>4. RequestsAreShaped'
  BY <1>1, <1>2 DEF IInv, RequestsAreShaped
<1>5. LocksAgree'
  BY <1>2, GrantKeepsTheLocks DEF IInv, Finish, Become
<1>6. PromisesHold'
  <2> SUFFICES ASSUME NEW r \in Requests
               PROVE  Promise(work[r])'
    BY DEF PromisesHold
  <2>1. CASE r = p
    BY <2>1, <1>1 DEF Promise, Idle
  <2>2. CASE r # p
    BY <2>2, <1>1, CommitKeepsPromises
  <2> QED
    BY <2>1, <2>2
<1> QED
  BY <1>3, <1>4, <1>5, <1>6 DEF IInv

LEMMA BumpIsTyped ==
  ASSUME TypeOK, NEW users
  PROVE  /\ Bump(users) \in [Users -> Account]
         /\ \A u \in Users : Bump(users)[u].status = accounts[u].status
<1>1. \A v \in 0 .. VersionWrap - 1 : (v + 1) % VersionWrap \in 0 .. VersionWrap - 1
  BY ParamAssumption
<1>2. \A u \in Users : /\ Bumped(accounts[u]) \in Account
                       /\ Bumped(accounts[u]).status = accounts[u].status
  <2> TAKE u \in Users
  <2>1. accounts[u] \in Account
    BY DEF TypeOK
  <2> DEFINE next == (accounts[u].version + 1) % VersionWrap
  <2>2. next \in 0 .. VersionWrap - 1
    BY <1>1, <2>1 DEF Account
  <2> HIDE DEF next
  <2>3. [accounts[u] EXCEPT !.version = next] \in Account
    BY <2>1, <2>2 DEF Account
  <2>4. [accounts[u] EXCEPT !.version = next].status = accounts[u].status
    BY <2>1 DEF Account
  <2> QED
    BY <2>3, <2>4 DEF Bumped, next
<1> QED
  BY <1>2 DEF Bump, TypeOK

LEMMA AddMemberKeepsIInv ==
  ASSUME IInv, NEW p \in Requests, AddMember(p)
  PROVE  IInv'
<1> DEFINE q == work[p]
<1>1. /\ q \in Task /\ Shaped(q) /\ Promise(q)
      /\ q.op = "add" /\ q.step = "written"
  BY DEF IInv, TypeOK, RequestsAreShaped, PromisesHold, AddMember, Doing
<1>2. /\ q.team \in Teams /\ q.user \in Users /\ q.role \in TeamRoles /\ q.roster = {q.user}
      /\ accounts[q.user].status = "ACTIVE"
      /\ Own(TheMembership(q.team, q.user)) \in Holding(p)
  BY <1>1 DEF Shaped, Promise, Holding
<1>3. Own(TheUser(q.user)) \in Holding(p)
  BY <1>1, <1>2 DEF Holding, Wants
<1>4. /\ accounts' = Bump({q.user}) /\ teams' = teams
      /\ members' = [members EXCEPT ![q.team][q.user] = q.role]
  BY <1>2 DEF AddMember
<1>5. /\ accounts' \in [Users -> Account]
      /\ \A u \in Users : accounts'[u].status = accounts[u].status
  BY <1>4, BumpIsTyped DEF IInv
<1>6. members' \in [Teams -> [Users -> TeamRoles \cup {"none"}]]
  BY <1>2, <1>4 DEF IInv, TypeOK
<1>7. \A t \in Teams, u \in Users : members'[t][u] # members[t][u] => t = q.team /\ u = q.user
  BY <1>2, <1>4 DEF IInv, TypeOK
<1>8. Guarded(p)
  BY <1>2, <1>3, <1>4, <1>5, <1>7 DEF Guarded
<1>9. SuspendedIsOnNoTeam'
  BY <1>2, <1>5, <1>7 DEF IInv, SuspendedIsOnNoTeam, TeamsOf
<1> QED
  BY <1>4, <1>5, <1>6, <1>8, <1>9, CommittingKeepsIInv DEF AddMember, IInv, TypeOK

LEMMA RemoveMemberKeepsIInv ==
  ASSUME IInv, NEW p \in Requests, RemoveMember(p)
  PROVE  IInv'
<1> DEFINE q == work[p]
<1>1. /\ q \in Task /\ Shaped(q) /\ Promise(q)
      /\ q.op = "remove" /\ q.step = "written"
  BY DEF IInv, TypeOK, RequestsAreShaped, PromisesHold, RemoveMember, Doing
<1>2. /\ q.team \in Teams /\ q.user \in Users /\ q.roster = {q.user}
      /\ Own(TheMembership(q.team, q.user)) \in Holding(p)
  BY <1>1 DEF Shaped, Promise, Holding
<1>3. Own(TheUser(q.user)) \in Holding(p)
  BY <1>1, <1>2 DEF Holding, Wants
<1>4. /\ accounts' = Bump({q.user}) /\ teams' = teams
      /\ members' = [members EXCEPT ![q.team][q.user] = "none"]
  BY <1>2 DEF RemoveMember
<1>5. /\ accounts' \in [Users -> Account]
      /\ \A u \in Users : accounts'[u].status = accounts[u].status
  BY <1>4, BumpIsTyped DEF IInv
<1>6. members' \in [Teams -> [Users -> TeamRoles \cup {"none"}]]
  BY <1>2, <1>4 DEF IInv, TypeOK
<1>7. \A t \in Teams, u \in Users : members'[t][u] # members[t][u] =>
        t = q.team /\ u = q.user /\ members'[t][u] = "none"
  BY <1>2, <1>4 DEF IInv, TypeOK
<1>8. Guarded(p)
  BY <1>2, <1>3, <1>4, <1>5, <1>7 DEF Guarded
<1>9. SuspendedIsOnNoTeam'
  BY <1>5, <1>7 DEF IInv, SuspendedIsOnNoTeam, TeamsOf
<1> QED
  BY <1>4, <1>5, <1>6, <1>8, <1>9, CommittingKeepsIInv DEF RemoveMember, IInv, TypeOK

LEMMA DisbandTeamKeepsIInv ==
  ASSUME IInv, NEW p \in Requests, DisbandTeam(p)
  PROVE  IInv'
<1> DEFINE q == work[p]
<1>1. /\ q \in Task /\ Shaped(q) /\ Promise(q)
      /\ q.op = "disband" /\ q.step = "emptied"
  BY DEF IInv, TypeOK, RequestsAreShaped, PromisesHold, DisbandTeam, Doing
<1>2. /\ q.team \in Teams /\ q.roster \subseteq Users
      /\ Own(TheTeam(q.team)) \in Holding(p)
      /\ \A u \in q.roster : Own(TheMembership(q.team, u)) \in Holding(p)
  BY <1>1 DEF Task, Shaped, Promise, Holding
<1>3. \A u \in q.roster : Own(TheUser(u)) \in Holding(p)
  <2>1. Wants(p) = {Own(TheUser(u)) : u \in q.roster}
    BY <1>1 DEF Wants
  <2> QED
    BY <2>1 DEF Holding
<1>4. /\ accounts' = Bump(q.roster)
      /\ teams' = [teams EXCEPT ![q.team].state = "disbanded"]
      /\ members' = [members EXCEPT ![q.team] =
                       [u \in Users |-> IF u \in q.roster THEN "none" ELSE members[q.team][u]]]
  BY DEF DisbandTeam
<1>5. /\ accounts' \in [Users -> Account]
      /\ \A u \in Users : accounts'[u].status = accounts[u].status
  BY <1>4, BumpIsTyped DEF IInv
<1>6. members' \in [Teams -> [Users -> TeamRoles \cup {"none"}]]
  BY <1>2, <1>4 DEF IInv, TypeOK
<1>7. \A t \in Teams, u \in Users : members'[t][u] # members[t][u] =>
        t = q.team /\ u \in q.roster /\ members'[t][u] = "none"
  BY <1>2, <1>4 DEF IInv, TypeOK
<1>8. /\ teams' \in [Teams -> Team]
      /\ \A t \in Teams : teams'[t] # teams[t] => t = q.team
  BY <1>2, <1>4 DEF IInv, TypeOK, Team
<1>9. Guarded(p)
  BY <1>2, <1>3, <1>5, <1>7, <1>8 DEF Guarded
<1>10. SuspendedIsOnNoTeam'
  BY <1>5, <1>7 DEF IInv, SuspendedIsOnNoTeam, TeamsOf
<1> QED
  BY <1>5, <1>6, <1>8, <1>9, <1>10, CommittingKeepsIInv DEF DisbandTeam

LEMMA CreateTeamKeepsIInv ==
  ASSUME IInv, NEW p \in Requests, CreateTeam(p)
  PROVE  IInv'
<1> DEFINE q == work[p]
<1>1. /\ q \in Task /\ Shaped(q) /\ q.op = "create" /\ q.step = "received"
  BY DEF IInv, TypeOK, RequestsAreShaped, CreateTeam, Doing
<1>2. q.team \in Teams /\ q.slug \in Slugs
  BY <1>1 DEF Shaped
<1>3. Granted(p)
  BY <1>1 DEF Granted, Blockers, Wants
<1>4. /\ teams' \in [Teams -> Team]
      /\ \A t \in Teams : teams'[t] # teams[t] => teams'[t].state = "live"
  BY <1>2 DEF CreateTeam, IInv, TypeOK, Team
<1>5. Guarded(p)
  BY <1>4 DEF Guarded, CreateTeam
<1>6. SuspendedIsOnNoTeam'
  BY DEF CreateTeam, IInv, SuspendedIsOnNoTeam, TeamsOf
<1> QED
  BY <1>3, <1>4, <1>5, <1>6, CommittingKeepsIInv DEF CreateTeam, IInv, TypeOK

LEMMA RenameTeamKeepsIInv ==
  ASSUME IInv, NEW p \in Requests, RenameTeam(p)
  PROVE  IInv'
<1> DEFINE q == work[p]
<1>1. /\ q \in Task /\ Shaped(q) /\ q.op = "rename" /\ q.step = "read"
  BY DEF IInv, TypeOK, RequestsAreShaped, RenameTeam, Doing
<1>2. q.team \in Teams /\ q.slug \in Slugs
  BY <1>1 DEF Shaped
<1>3. /\ teams' \in [Teams -> Team]
      /\ \A t \in Teams : teams'[t].state = teams[t].state
  <2>1. CASE teams' = [teams EXCEPT ![q.team].slug = q.slug]
    <3>1. teams[q.team] \in Team
      BY <1>2 DEF IInv, TypeOK
    <3>2. /\ [teams[q.team] EXCEPT !.slug = q.slug] \in Team
          /\ [teams[q.team] EXCEPT !.slug = q.slug].state = teams[q.team].state
      BY <1>2, <3>1 DEF Team
    <3> QED
      BY <1>2, <2>1, <3>2 DEF IInv, TypeOK
  <2>2. CASE teams' = teams
    BY <2>2 DEF IInv, TypeOK
  <2> QED
    BY <2>1, <2>2 DEF RenameTeam
<1>4. Guarded(p)
  BY <1>3 DEF Guarded, RenameTeam
<1>5. SuspendedIsOnNoTeam'
  BY DEF RenameTeam, IInv, SuspendedIsOnNoTeam, TeamsOf
<1> QED
  BY <1>3, <1>4, <1>5, CommittingKeepsIInv DEF RenameTeam, IInv, TypeOK

\* The account of a suspension or a reactivation when it commits.
LEMMA StatusIsTyped ==
  ASSUME TypeOK, NEW u \in Users, NEW status \in {"ACTIVE", "SUSPENDED"},
         accounts' = [accounts EXCEPT ![u] = [Bumped(accounts[u]) EXCEPT !.status = status]]
  PROVE  /\ accounts' \in [Users -> Account]
         /\ accounts'[u].status = status
         /\ \A v \in Users \ {u} : accounts'[v] = accounts[v]
<1>1. accounts[u] \in Account
  BY DEF TypeOK
<1> DEFINE next == (accounts[u].version + 1) % VersionWrap
<1>2. next \in 0 .. VersionWrap - 1
  BY <1>1, ParamAssumption DEF Account
<1> HIDE DEF next
<1>3. Bumped(accounts[u]) = [accounts[u] EXCEPT !.version = next]
  BY DEF Bumped, next
<1>4. /\ [Bumped(accounts[u]) EXCEPT !.status = status] \in Account
      /\ [Bumped(accounts[u]) EXCEPT !.status = status].status = status
  BY <1>1, <1>2, <1>3 DEF Account
<1> QED
  BY <1>4 DEF TypeOK

LEMMA LeaveTeamsKeepsIInv ==
  ASSUME IInv, NEW p \in Requests, LeaveTeams(p)
  PROVE  IInv'
<1> DEFINE q == work[p]
           u == q.user
<1>1. /\ q \in Task /\ Shaped(q) /\ Promise(q) /\ q.op = "suspend" /\ q.step = "suspended"
  BY DEF IInv, TypeOK, RequestsAreShaped, PromisesHold, LeaveTeams, Doing
<1>2. u \in Users /\ Own(TheUser(u)) \in Holding(p)
  BY <1>1 DEF Shaped, Promise, Holding
<1>3. \A t \in Teams : members[t][u] # "none" => Own(TheMembership(t, u)) \in Holding(p)
  <2>1. Wants(p) = UNION {Found(t, u) : t \in Teams}
    BY <1>1 DEF Wants
  <2>2. \A t \in Teams : members[t][u] # "none" => Own(TheMembership(t, u)) \in Found(t, u)
    BY DEF Found
  <2> QED
    BY <2>1, <2>2 DEF Holding
<1>4. /\ accounts' \in [Users -> Account]
      /\ accounts'[u].status = "SUSPENDED"
      /\ \A v \in Users \ {u} : accounts'[v] = accounts[v]
  BY <1>2, StatusIsTyped DEF LeaveTeams, IInv
<1>5. members' = [t \in Teams |-> [members[t] EXCEPT ![u] = "none"]]
  BY DEF LeaveTeams
<1>6. /\ members' \in [Teams -> [Users -> TeamRoles \cup {"none"}]]
      /\ \A t \in Teams : members'[t][u] = "none"
      /\ \A t \in Teams, v \in Users \ {u} : members'[t][v] = members[t][v]
  BY <1>2, <1>5 DEF IInv, TypeOK
<1>7. Guarded(p)
  BY <1>2, <1>3, <1>4, <1>6 DEF Guarded, LeaveTeams
<1>8. SuspendedIsOnNoTeam'
  BY <1>4, <1>6 DEF IInv, SuspendedIsOnNoTeam, TeamsOf
<1> QED
  BY <1>4, <1>6, <1>7, <1>8, CommittingKeepsIInv DEF LeaveTeams, IInv, TypeOK

LEMMA ReactivateAccountKeepsIInv ==
  ASSUME IInv, NEW p \in Requests, ReactivateAccount(p)
  PROVE  IInv'
<1> DEFINE u == work[p].user
<1>1. u \in Users
  BY DEF IInv, RequestsAreShaped, Shaped, ReactivateAccount, Doing
<1>2. /\ accounts' \in [Users -> Account]
      /\ accounts'[u].status = "ACTIVE"
      /\ \A v \in Users \ {u} : accounts'[v] = accounts[v]
  BY <1>1, StatusIsTyped DEF ReactivateAccount, IInv
<1>3. Guarded(p)
  BY <1>1, <1>2 DEF Guarded, ReactivateAccount
<1>4. SuspendedIsOnNoTeam'
  BY <1>1, <1>2 DEF IInv, SuspendedIsOnNoTeam, TeamsOf, ReactivateAccount
<1> QED
  BY <1>2, <1>3, <1>4, CommittingKeepsIInv DEF ReactivateAccount, IInv, TypeOK

-----------------------------------------------------------------------------
(* Together.                                                               *)

LEMMA InitHolds ==
  Init => IInv
<1> SUFFICES ASSUME Init
             PROVE  IInv
  OBVIOUS
<1>1. (CHOOSE s \in Slugs : TRUE) \in Slugs
  BY ParamAssumption
<1>2. 0 \in 0 .. VersionWrap - 1
  BY ParamAssumption
<1>3. Idle \in Task /\ Shaped(Idle) /\ Promise(Idle) /\ Idle.locks = {}
  BY DEF Idle, Task, Shaped, Promise, Steps
<1>4. teams \in [Teams -> Team]
  BY <1>1 DEF Init, Team
<1>5. accounts \in [Users -> Account]
  BY <1>2 DEF Init, Account
<1>6. TypeOK
  BY <1>3, <1>4, <1>5 DEF Init, TypeOK
<1>7. \A r \in Requests : work[r] = Idle
  BY DEF Init
<1>8. SuspendedIsOnNoTeam
  BY DEF Init, SuspendedIsOnNoTeam, TeamsOf
<1>9. RequestsAreShaped /\ LocksAgree /\ PromisesHold
  BY <1>3, <1>7 DEF RequestsAreShaped, LocksAgree, PromisesHold
<1> QED
  BY <1>6, <1>8, <1>9 DEF IInv

LEMMA AdvanceKeepsIInv ==
  ASSUME IInv, NEW p \in Requests, Advance(p)
  PROVE  IInv'
  BY AddressKeepsIInv, AdmitSubjectKeepsIInv, ExamineMembershipKeepsIInv,
     WriteMembershipKeepsIInv, AddMemberKeepsIInv, TakeMembershipKeepsIInv,
     RemoveMemberKeepsIInv, HideTeamKeepsIInv, DeleteMembersKeepsIInv,
     DisbandTeamKeepsIInv, CreateTeamKeepsIInv, ReadFirstKeepsIInv, RenameTeamKeepsIInv,
     SuspendAccountKeepsIInv, LeaveTeamsKeepsIInv, ReactivateAccountKeepsIInv
     DEF Advance

LEMMA NextKeepsIInv ==
  ASSUME IInv, [Next]_vars
  PROVE  IInv'
<1>1. CASE UNCHANGED vars
  BY <1>1 DEF IInv, vars, rows, TypeOK, RequestsAreShaped, LocksAgree, PromisesHold, Promise,
              SuspendedIsOnNoTeam, TeamsOf
<1>2. ASSUME NEW p \in Requests, Call(p) \/ Advance(p) \/ AbortDeadlock(p) \/ Rollback(p)
      PROVE  IInv'
  BY <1>2, CallKeepsIInv, AdvanceKeepsIInv, FinishingKeepsIInv DEF AbortDeadlock, Rollback
<1> QED
  BY <1>1, <1>2 DEF Next

LEMMA IInvHolds == Spec => []IInv
  BY InitHolds, NextKeepsIInv, PTL DEF Spec

\* The tables and every request in flight keep their shape.
THEOREM TeamsTypeCorrect == Spec => []TypeOK
<1>1. IInv => TypeOK
  BY DEF IInv
<1> QED
  BY IInvHolds, <1>1, PTL

\* Whoever is switched off is on no team, however an addition meets the suspension:
\* team.repository.ts holds the account it read as active until its own commit.
THEOREM SuspendedLeaveEveryTeam == Spec => []SuspendedIsOnNoTeam
<1>1. IInv => SuspendedIsOnNoTeam
  BY DEF IInv
<1> QED
  BY IInvHolds, <1>1, PTL

-----------------------------------------------------------------------------
(* A membership and the version of the person it is about.                 *)

\* What MembershipMovesTheVersion says of one step.
Follows ==
  \A u \in Users :
     accounts[u].status # "absent" =>
       (accounts'[u].version # accounts[u].version <=>
          \/ \E t \in Teams : members'[t][u] # members[t][u]
          \/ accounts'[u].status # accounts[u].status
          \/ \E r \in Requests : work[r].user = u /\ (LeaveTeams(r) \/ ReactivateAccount(r)))

LEMMA BumpedIsAnother ==
  ASSUME TypeOK, NEW u \in Users
  PROVE  Bumped(accounts[u]).version # accounts[u].version
<1>1. accounts[u] \in Account
  BY DEF TypeOK
<1>2. \A v \in 0 .. VersionWrap - 1 : (v + 1) % VersionWrap # v
  BY ParamAssumption
<1> DEFINE next == (accounts[u].version + 1) % VersionWrap
<1>3. next # accounts[u].version
  BY <1>1, <1>2 DEF Account
<1> HIDE DEF next
<1>4. [accounts[u] EXCEPT !.version = next].version # accounts[u].version
  BY <1>1, <1>3 DEF Account
<1> QED
  BY <1>4 DEF Bumped, next

LEMMA StatusMovesTheVersion ==
  ASSUME TypeOK, NEW u \in Users, NEW status,
         accounts' = [accounts EXCEPT ![u] = [Bumped(accounts[u]) EXCEPT !.status = status]]
  PROVE  /\ accounts'[u].version # accounts[u].version
         /\ \A v \in Users \ {u} : accounts'[v] = accounts[v]
<1>1. accounts[u] \in Account
  BY DEF TypeOK
<1>2. [Bumped(accounts[u]) EXCEPT !.status = status].version = Bumped(accounts[u]).version
  <2> DEFINE next == (accounts[u].version + 1) % VersionWrap
  <2>1. Bumped(accounts[u]) = [accounts[u] EXCEPT !.version = next]
    BY DEF Bumped
  <2> HIDE DEF next
  <2> QED
    BY <1>1, <2>1 DEF Account
<1>3. accounts'[u] = [Bumped(accounts[u]) EXCEPT !.status = status]
  BY DEF TypeOK
<1>4. accounts'[u].version # accounts[u].version
  BY <1>2, <1>3, BumpedIsAnother
<1> QED
  BY <1>4 DEF TypeOK

\* A suspension or a reactivation that commits moves the version of its person.
LEMMA StatusChangesCount ==
  ASSUME IInv, NEW r \in Requests, LeaveTeams(r) \/ ReactivateAccount(r)
  PROVE  /\ work[r].user \in Users
         /\ accounts'[work[r].user].version # accounts[work[r].user].version
         /\ \A v \in Users \ {work[r].user} : accounts'[v] = accounts[v]
         /\ \A t \in Teams, v \in Users \ {work[r].user} : members'[t][v] = members[t][v]
<1> DEFINE u == work[r].user
<1>1. u \in Users
  BY DEF IInv, RequestsAreShaped, Shaped, LeaveTeams, ReactivateAccount, Doing
<1>2. PICK status \in {"ACTIVE", "SUSPENDED"} :
        accounts' = [accounts EXCEPT ![u] = [Bumped(accounts[u]) EXCEPT !.status = status]]
  BY DEF LeaveTeams, ReactivateAccount
<1>3. /\ accounts'[u].version # accounts[u].version
      /\ \A v \in Users \ {u} : accounts'[v] = accounts[v]
  BY <1>1, <1>2, StatusMovesTheVersion DEF IInv
<1>4. \A t \in Teams, v \in Users \ {u} : members'[t][v] = members[t][v]
  BY <1>1 DEF IInv, TypeOK, LeaveTeams, ReactivateAccount
<1> QED
  BY <1>1, <1>3, <1>4

\* A step that bumps exactly those whose memberships it changes.
LEMMA BumpingFollows ==
  ASSUME IInv, NEW users \in SUBSET Users, accounts' = Bump(users),
         \A u \in Users : u \in users <=> \E t \in Teams : members'[t][u] # members[t][u]
  PROVE  Follows
<1> SUFFICES ASSUME NEW u \in Users
             PROVE  accounts'[u].version # accounts[u].version <=>
                      \/ \E t \in Teams : members'[t][u] # members[t][u]
                      \/ accounts'[u].status # accounts[u].status
                      \/ \E r \in Requests :
                           work[r].user = u /\ (LeaveTeams(r) \/ ReactivateAccount(r))
  BY DEF Follows
<1>1. accounts'[u] = IF u \in users THEN Bumped(accounts[u]) ELSE accounts[u]
  BY DEF Bump
<1>2. accounts'[u].status = accounts[u].status
  BY BumpIsTyped DEF IInv
<1>3. accounts'[u].version # accounts[u].version <=> u \in users
  BY <1>1, BumpedIsAnother DEF IInv
<1>4. ASSUME NEW r \in Requests, work[r].user = u, LeaveTeams(r) \/ ReactivateAccount(r)
      PROVE  accounts'[u].version # accounts[u].version
  BY <1>4, StatusChangesCount
<1> QED
  BY <1>2, <1>3, <1>4

LEMMA NothingMoves ==
  ASSUME IInv, UNCHANGED <<members, accounts>>
  PROVE  Follows
<1>1. \A r \in Requests : LeaveTeams(r) \/ ReactivateAccount(r) =>
        accounts'[work[r].user].version # accounts[work[r].user].version
  BY StatusChangesCount
<1> QED
  BY <1>1 DEF Follows

LEMMA ChangingStatusFollows ==
  ASSUME IInv, NEW p \in Requests, LeaveTeams(p) \/ ReactivateAccount(p)
  PROVE  Follows
<1> DEFINE u == work[p].user
<1>1. /\ u \in Users
      /\ accounts'[u].version # accounts[u].version
      /\ \A v \in Users \ {u} : accounts'[v] = accounts[v]
      /\ \A t \in Teams, v \in Users \ {u} : members'[t][v] = members[t][v]
  BY StatusChangesCount
<1>2. \A r \in Requests : LeaveTeams(r) \/ ReactivateAccount(r) =>
        accounts'[work[r].user].version # accounts[work[r].user].version
  BY StatusChangesCount
<1> QED
  BY <1>1, <1>2 DEF Follows

LEMMA AddMemberFollows ==
  ASSUME IInv, NEW p \in Requests, AddMember(p)
  PROVE  Follows
<1> DEFINE q == work[p]
<1>1. /\ Shaped(q) /\ Promise(q) /\ q.op = "add" /\ q.step = "written"
  BY DEF IInv, RequestsAreShaped, PromisesHold, AddMember, Doing
<1>2. /\ q.team \in Teams /\ q.user \in Users /\ q.roster = {q.user}
      /\ members[q.team][q.user] # q.role
  BY <1>1 DEF Shaped, Promise
<1>3. \A t \in Teams, u \in Users : members'[t][u] # members[t][u] <=> t = q.team /\ u = q.user
  BY <1>2 DEF AddMember, IInv, TypeOK
<1> QED
  BY <1>2, <1>3, BumpingFollows DEF AddMember

LEMMA RemoveMemberFollows ==
  ASSUME IInv, NEW p \in Requests, RemoveMember(p)
  PROVE  Follows
<1> DEFINE q == work[p]
<1>1. /\ Shaped(q) /\ Promise(q) /\ q.op = "remove" /\ q.step = "written"
  BY DEF IInv, RequestsAreShaped, PromisesHold, RemoveMember, Doing
<1>2. /\ q.team \in Teams /\ q.user \in Users /\ q.roster = {q.user}
      /\ members[q.team][q.user] # "none"
  BY <1>1 DEF Shaped, Promise
<1>3. \A t \in Teams, u \in Users : members'[t][u] # members[t][u] <=> t = q.team /\ u = q.user
  BY <1>2 DEF RemoveMember, IInv, TypeOK
<1> QED
  BY <1>2, <1>3, BumpingFollows DEF RemoveMember

LEMMA DisbandTeamFollows ==
  ASSUME IInv, NEW p \in Requests, DisbandTeam(p)
  PROVE  Follows
<1> DEFINE q == work[p]
<1>1. /\ q \in Task /\ Shaped(q) /\ Promise(q) /\ q.op = "disband" /\ q.step = "emptied"
  BY DEF IInv, TypeOK, RequestsAreShaped, PromisesHold, DisbandTeam, Doing
<1>2. /\ q.team \in Teams /\ q.roster \subseteq Users
      /\ \A u \in q.roster : members[q.team][u] # "none"
  BY <1>1 DEF Task, Shaped, Promise
<1>3. \A t \in Teams, u \in Users :
        members'[t][u] # members[t][u] <=> t = q.team /\ u \in q.roster
  BY <1>2 DEF DisbandTeam, IInv, TypeOK
<1> QED
  BY <1>2, <1>3, BumpingFollows DEF DisbandTeam

LEMMA AdvanceFollows ==
  ASSUME IInv, NEW p \in Requests, Advance(p)
  PROVE  Follows
<1>1. CASE UNCHANGED rows \/ CreateTeam(p) \/ RenameTeam(p)
  BY <1>1, NothingMoves DEF rows, CreateTeam, RenameTeam
<1>2. CASE AddMember(p) \/ RemoveMember(p) \/ DisbandTeam(p)
  BY <1>2, AddMemberFollows, RemoveMemberFollows, DisbandTeamFollows
<1>3. CASE LeaveTeams(p) \/ ReactivateAccount(p)
  BY <1>3, ChangingStatusFollows
<1> QED
  BY <1>1, <1>2, <1>3 DEF Advance, Address, AdmitSubject, ExamineMembership, WriteMembership,
     TakeMembership, HideTeam, DeleteMembers, ReadFirst, SuspendAccount

\* The permission version of a person moves with their memberships and their status,
\* and with nothing else: bumpPermissionVersions is called by whoever wrote a row of
\* team_members and by nobody who only looked.
THEOREM MembershipsAreCounted == Spec => MembershipMovesTheVersion
<1>1. IInv /\ [Next]_vars => [Follows]_vars
  <2> SUFFICES ASSUME IInv, Next
               PROVE  Follows
    BY DEF Follows
  <2>1. PICK p \in Requests : Call(p) \/ Advance(p) \/ AbortDeadlock(p) \/ Rollback(p)
    BY DEF Next
  <2>2. CASE Call(p)
    <3>1. UNCHANGED rows
      BY <2>2 DEF Call, Receive
    <3> QED
      BY <3>1, NothingMoves DEF rows
  <2>3. CASE AbortDeadlock(p) \/ Rollback(p)
    BY <2>3, NothingMoves DEF AbortDeadlock, Rollback, rows
  <2> QED
    BY <2>1, <2>2, <2>3, AdvanceFollows
<1> QED
  BY IInvHolds, <1>1, PTL DEF Spec, MembershipMovesTheVersion, Follows

-----------------------------------------------------------------------------
(* Invitations.                                                            *)

\* The tables, without the bound on links.
ARow == [state : {"unwritten", "open", "accepted", "withdrawn"},
         link : Nat, inTime : BOOLEAN, teams : SUBSET Teams]

AnExchange == [step : {"idle", "checked", "read", "resolved", "settling", "spent", "joined"},
               op : {"create", "resend", "revoke", "accept", None},
               id : Ids \cup {None}, link : Nat, teams : SUBSET Teams]

Tabled == TypeOK /\ invitations \in [Ids -> ARow] /\ exchanges \in [Requests -> AnExchange]

\* What the exchange of a request relies on.
Relies(x, table) ==
  x.step # "idle" =>
    /\ x.id \in Ids
    /\ x.op = "create" => table[x.id].state = "unwritten"
    /\ x.op \in {"resend", "revoke"} => table[x.id].state # "unwritten"
    /\ x.step \in {"spent", "joined"} => /\ table[x.id].state = "open"
                                        /\ x.teams \subseteq table[x.id].teams

ExchangesRely == \A r \in Requests : Relies(exchanges[r], invitations)

\* Nobody else has registered the address meanwhile.
SpendersAreNew == \A r \in Requests : Spending(r) => ~Registered(exchanges[r].id)

\* One request writes an invitation.
WritersDiffer ==
  \A r, q \in Requests :
    (/\ r # q
     /\ exchanges[r].step # "idle" /\ exchanges[r].op = "create"
     /\ exchanges[q].step # "idle" /\ exchanges[q].op = "create")
    => exchanges[r].id # exchanges[q].id

\* The unique address: one acceptance of it at a time is past its insert.
SpendersDiffer ==
  \A r, q \in Requests :
    r # q /\ Spending(r) /\ Spending(q) =>
      AddressOf[exchanges[r].id] # AddressOf[exchanges[q].id]

\* Nobody is suspended or reactivated who was never there.
OnlyAccountsChangeStatus ==
  \A r \in Requests :
    work[r].op \in {"suspend", "reactivate"} /\ work[r].step \in {"read", "suspended"} =>
      accounts[work[r].user].status # "absent"

\* Somebody who came by an invitation that named the team.
Invited(t, u) ==
  \E i \in Ids : /\ AddressOf[i] = u /\ t \in invitations[i].teams
                 /\ invitations[i].state = "accepted"

\* Whoever a disbanding has not found joined after it had looked.
RostersMissInviteesOnly ==
  \A r \in Requests :
    work[r].op = "disband" /\ work[r].step = "emptied" =>
      \A u \in OnTeam(work[r].team) \ work[r].roster : Invited(work[r].team, u)

Ordered == ExchangesRely /\ WritersDiffer /\ SpendersDiffer /\ SpendersAreNew

Present == OnlyAccountsChangeStatus /\ OnlyInviteesOutliveATeam /\ RostersMissInviteesOnly

InvitationsIInv == Tabled /\ IInv /\ Ordered /\ Present

-----------------------------------------------------------------------------
(* The exchanges.                                                          *)

\* The rows a request may write: its own, when it is the one that writes it, and those
\* no acceptance has spent.
MayWrite(p, i) ==
  \/ exchanges[p].step # "idle" /\ exchanges[p].op = "create" /\ exchanges[p].id = i
  \/ RowFree(i) /\ invitations[i].state # "unwritten" /\ invitations'[i].state # "unwritten"

\* What one request does with the invitations, as far as the others rely on it.
LEMMA TurningKeepsOrdered ==
  ASSUME Tabled, Ordered, UNCHANGED vars, NEW p \in Requests,
         NEW x \in AnExchange, Turn(p, x), Relies(x, invitations'),
         invitations' \in [Ids -> ARow],
         \A i \in Ids : invitations'[i] # invitations[i] => MayWrite(p, i),
         x.step # "idle" /\ x.op = "create" =>
            \A q \in Requests : ~(exchanges[q].op = "create" /\ exchanges[q].id = x.id),
         x.step \in {"spent", "joined"} =>
            \/ exchanges[p].step \in {"spent", "joined"} /\ exchanges[p].id = x.id
            \/ AddressFree(x.id) /\ ~Registered(x.id)
  PROVE  Tabled' /\ Ordered'
<1>1. /\ exchanges'[p] = x
      /\ \A r \in Requests \ {p} : exchanges'[r] = exchanges[r]
  BY DEF Tabled, Turn
<1>2. Tabled'
  BY DEF Tabled, TypeOK, vars, rows, Turn
<1>3. ExchangesRely'
  <2> SUFFICES ASSUME NEW r \in Requests
               PROVE  Relies(exchanges'[r], invitations')
    BY DEF ExchangesRely, Relies
  <2>1. CASE r = p
    BY <1>1, <2>1
  <2>2. CASE r # p
    <3>1. exchanges'[r] = exchanges[r] /\ Relies(exchanges[r], invitations)
      BY <1>1, <2>2 DEF Ordered, ExchangesRely
    <3>2. Relies(exchanges[p], invitations)
      BY DEF Ordered, ExchangesRely
    <3>3. CASE exchanges[r].step = "idle"
      BY <3>1, <3>3 DEF Relies
    <3>4. CASE exchanges[r].step # "idle" /\ invitations'[exchanges[r].id] = invitations[exchanges[r].id]
      BY <3>1, <3>4 DEF Relies
    <3>5. CASE exchanges[r].step # "idle" /\ MayWrite(p, exchanges[r].id)
      BY <2>2, <3>1, <3>2, <3>5 DEF Relies, MayWrite, RowFree, Spending, Ordered, WritersDiffer
    <3> QED
      BY <3>1, <3>3, <3>4, <3>5 DEF Relies
  <2> QED
    BY <2>1, <2>2
<1>4. WritersDiffer'
  BY <1>1 DEF Ordered, WritersDiffer
<1>5. SpendersDiffer'
  BY <1>1 DEF Ordered, SpendersDiffer, Spending, AddressFree
<1>6. SpendersAreNew'
  BY <1>1 DEF Ordered, SpendersAreNew, Spending, Registered, vars, rows
<1> QED
  BY <1>2, <1>3, <1>4, <1>5, <1>6 DEF Ordered

LEMMA ClosingKeepsOrdered ==
  ASSUME Tabled, Ordered, UNCHANGED vars, NEW p \in Requests, Close(p),
         invitations' \in [Ids -> ARow],
         \A i \in Ids : invitations'[i] # invitations[i] => MayWrite(p, i)
  PROVE  Tabled' /\ Ordered'
<1>1. Quiet \in AnExchange /\ Quiet.step = "idle"
  BY InvitationAssumption DEF Quiet, AnExchange
<1> QED
  BY <1>1, TurningKeepsOrdered DEF Close, Relies

LEMMA AskKeepsOrdered ==
  ASSUME Tabled, Ordered, UNCHANGED vars, NEW p \in Requests, Ask(p)
  PROVE  Tabled' /\ Ordered' /\ UNCHANGED invitations
<1>1. PICK i \in Ids :
        \/ \E offered \in SUBSET Teams : CheckAddress(p, i, offered)
        \/ \E op \in {"resend", "revoke"} : ReadInvitation(p, op, i)
        \/ ResolveLink(p, i)
  BY DEF Ask
<1>2. invitations[i] \in ARow
  BY DEF Tabled
<1>3. ASSUME NEW offered \in SUBSET Teams, CheckAddress(p, i, offered)
      PROVE  Tabled' /\ Ordered' /\ UNCHANGED invitations
  <2> DEFINE x == [step |-> "checked", op |-> "create", id |-> i, link |-> 0, teams |-> offered]
  <2>1. x \in AnExchange
    BY InvitationAssumption DEF AnExchange
  <2>2. Turn(p, x) /\ UNCHANGED invitations
    BY <1>3 DEF CheckAddress, Begin
  <2>3. Relies(x, invitations')
    BY <1>3, <2>2 DEF Relies, CheckAddress
  <2>4. \A q \in Requests : ~(exchanges[q].op = "create" /\ exchanges[q].id = x.id)
    BY <1>3 DEF CheckAddress
  <2>5. x.step \notin {"spent", "joined"}
    OBVIOUS
  <2>6. invitations' \in [Ids -> ARow]
    BY <2>2 DEF Tabled
  <2> HIDE DEF x
  <2> QED
    BY <2>1, <2>2, <2>3, <2>4, <2>5, <2>6, TurningKeepsOrdered
<1>4. ASSUME NEW op \in {"resend", "revoke"}, ReadInvitation(p, op, i)
      PROVE  Tabled' /\ Ordered' /\ UNCHANGED invitations
  <2> DEFINE x == [step |-> "read", op |-> op, id |-> i, link |-> 0, teams |-> {}]
  <2>1. x \in AnExchange
    BY <1>4, InvitationAssumption DEF AnExchange
  <2>2. Turn(p, x) /\ UNCHANGED invitations
    BY <1>4 DEF ReadInvitation, Begin
  <2>3. Relies(x, invitations')
    BY <1>4, <2>2 DEF Relies, ReadInvitation
  <2>4. x.op # "create" /\ x.step \notin {"spent", "joined"}
    BY <1>4
  <2>5. invitations' \in [Ids -> ARow]
    BY <2>2 DEF Tabled
  <2> HIDE DEF x
  <2> QED
    BY <2>1, <2>2, <2>3, <2>4, <2>5, TurningKeepsOrdered
<1>5. ASSUME ResolveLink(p, i)
      PROVE  Tabled' /\ Ordered' /\ UNCHANGED invitations
  <2> DEFINE x == [step |-> "resolved", op |-> "accept", id |-> i,
                   link |-> invitations[i].link, teams |-> {}]
  <2>1. x \in AnExchange
    BY <1>2 DEF AnExchange, ARow
  <2>2. Turn(p, x) /\ UNCHANGED invitations
    BY <1>5 DEF ResolveLink, Begin
  <2>3. Relies(x, invitations')
    BY DEF Relies
  <2>4. x.op # "create" /\ x.step \notin {"spent", "joined"}
    OBVIOUS
  <2>5. invitations' \in [Ids -> ARow]
    BY <2>2 DEF Tabled
  <2> HIDE DEF x
  <2> QED
    BY <2>1, <2>2, <2>3, <2>4, <2>5, TurningKeepsOrdered
<1> QED
  BY <1>1, <1>3, <1>4, <1>5

\* What may become of a row, whoever writes it.
Ages(i) ==
  /\ invitations[i].state = "accepted" => invitations'[i] = invitations[i]
  /\ invitations'[i].state = "accepted" => invitations[i].state = "accepted"

LEMMA CreateInvitationKeepsOrdered ==
  ASSUME Tabled, Ordered, UNCHANGED vars, NEW p \in Requests, CreateInvitation(p)
  PROVE  Tabled' /\ Ordered' /\ \A i \in Ids : Ages(i)
<1> DEFINE i == exchanges[p].id
           row == [state |-> "open", link |-> 1, inTime |-> TRUE, teams |-> exchanges[p].teams]
<1>1. /\ exchanges[p] \in AnExchange /\ i \in Ids
      /\ exchanges[p].op = "create" /\ exchanges[p].step = "checked"
      /\ invitations[i].state = "unwritten"
  BY DEF Tabled, Ordered, ExchangesRely, Relies, CreateInvitation, Exchanging
<1>2. row \in ARow
  BY <1>1, InvitationAssumption DEF AnExchange, ARow
<1>3. invitations' = invitations \/ invitations' = [invitations EXCEPT ![i] = row]
  BY DEF CreateInvitation
<1>4. invitations' \in [Ids -> ARow]
  BY <1>1, <1>2, <1>3 DEF Tabled
<1>5. \A j \in Ids : invitations'[j] # invitations[j] => j = i /\ invitations'[j] = row
  BY <1>1, <1>3 DEF Tabled
<1>6. \A j \in Ids : invitations'[j] # invitations[j] => MayWrite(p, j)
  BY <1>1, <1>5 DEF MayWrite
<1>7. \A j \in Ids : Ages(j)
  BY <1>1, <1>5 DEF Ages
<1> QED
  BY <1>4, <1>6, <1>7, ClosingKeepsOrdered DEF CreateInvitation

LEMMA ResendInvitationKeepsOrdered ==
  ASSUME Tabled, Ordered, UNCHANGED vars, NEW p \in Requests, ResendInvitation(p)
  PROVE  Tabled' /\ Ordered' /\ \A i \in Ids : Ages(i)
<1> DEFINE i == exchanges[p].id
           row == [invitations[i] EXCEPT !.link = invitations[i].link + 1, !.inTime = TRUE]
<1>1. i \in Ids /\ RowFree(i) /\ invitations[i] \in ARow
  BY DEF Tabled, Ordered, ExchangesRely, Relies, ResendInvitation, Exchanging
<1>2. row \in ARow /\ row.state = invitations[i].state
  <2> DEFINE next == invitations[i].link + 1
  <2>1. next \in Nat
    BY <1>1 DEF ARow
  <2> HIDE DEF next
  <2>2. [invitations[i] EXCEPT !.link = next, !.inTime = TRUE] \in ARow
    BY <1>1, <2>1 DEF ARow
  <2>3. [invitations[i] EXCEPT !.link = next, !.inTime = TRUE].state = invitations[i].state
    BY <1>1 DEF ARow
  <2> QED
    BY <2>2, <2>3 DEF next
<1>3. \/ invitations' = invitations
      \/ invitations[i].state = "open" /\ invitations' = [invitations EXCEPT ![i] = row]
  BY DEF ResendInvitation
<1> HIDE DEF row
<1>4. invitations' \in [Ids -> ARow]
  BY <1>1, <1>2, <1>3 DEF Tabled
<1>5. \A j \in Ids : invitations'[j] # invitations[j] =>
         j = i /\ invitations'[j] = row /\ invitations[i].state = "open"
  BY <1>1, <1>3 DEF Tabled
<1>6. \A j \in Ids : invitations'[j] # invitations[j] => MayWrite(p, j)
  BY <1>1, <1>2, <1>5 DEF MayWrite
<1>7. \A j \in Ids : Ages(j)
  BY <1>2, <1>5 DEF Ages
<1> QED
  BY <1>4, <1>6, <1>7, ClosingKeepsOrdered DEF ResendInvitation

LEMMA RevokeInvitationKeepsOrdered ==
  ASSUME Tabled, Ordered, UNCHANGED vars, NEW p \in Requests, RevokeInvitation(p)
  PROVE  Tabled' /\ Ordered' /\ \A i \in Ids : Ages(i)
<1> DEFINE i == exchanges[p].id
           row == [invitations[i] EXCEPT !.state = "withdrawn"]
<1>1. i \in Ids /\ RowFree(i) /\ invitations[i] \in ARow
  BY DEF Tabled, Ordered, ExchangesRely, Relies, RevokeInvitation, Exchanging
<1>2. row \in ARow /\ row.state = "withdrawn"
  BY <1>1 DEF ARow
<1>3. \/ invitations' = invitations
      \/ invitations[i].state = "open" /\ invitations' = [invitations EXCEPT ![i] = row]
  BY DEF RevokeInvitation
<1> HIDE DEF row
<1>4. invitations' \in [Ids -> ARow]
  BY <1>1, <1>2, <1>3 DEF Tabled
<1>5. \A j \in Ids : invitations'[j] # invitations[j] =>
         j = i /\ invitations'[j] = row /\ invitations[i].state = "open"
  BY <1>1, <1>3 DEF Tabled
<1>6. \A j \in Ids : invitations'[j] # invitations[j] => MayWrite(p, j)
  BY <1>1, <1>2, <1>5 DEF MayWrite
<1>7. \A j \in Ids : Ages(j)
  BY <1>2, <1>5 DEF Ages
<1> QED
  BY <1>4, <1>6, <1>7, ClosingKeepsOrdered DEF RevokeInvitation

\* An acceptance on its way: what it has read, and what it has written.
LEMMA AcceptingKeepsOrdered ==
  ASSUME Tabled, Ordered, UNCHANGED vars, NEW p \in Requests,
         ReadOffer(p) \/ SpendInvitation(p) \/ JoinTeams(p)
  PROVE  Tabled' /\ Ordered' /\ UNCHANGED invitations
<1> DEFINE q == exchanges[p]
<1>1. q \in AnExchange /\ Relies(q, invitations) /\ q.op = "accept" /\ q.id \in Ids
  BY DEF Tabled, Ordered, ExchangesRely, Relies, ReadOffer, SpendInvitation, JoinTeams, Exchanging
<1>2. UNCHANGED invitations /\ invitations' \in [Ids -> ARow] /\ invitations[q.id] \in ARow
  BY <1>1 DEF Tabled, ReadOffer, SpendInvitation, JoinTeams
<1>3. CASE Close(p)
  BY <1>2, <1>3, ClosingKeepsOrdered
<1>4. CASE ReadOffer(p) /\ ~Close(p)
  <2> DEFINE x == [q EXCEPT !.step = "settling"]
  <2>1. x \in AnExchange /\ x.op = "accept" /\ x.step = "settling" /\ x.id = q.id
    BY <1>1 DEF AnExchange
  <2>2. Turn(p, x)
    BY <1>4 DEF ReadOffer
  <2> HIDE DEF x
  <2>3. Relies(x, invitations')
    BY <1>1, <2>1 DEF Relies
  <2> QED
    BY <1>2, <2>1, <2>2, <2>3, TurningKeepsOrdered
<1>5. CASE SpendInvitation(p) /\ ~Close(p)
  <2> DEFINE x == [q EXCEPT !.step = "spent", !.teams = invitations[q.id].teams]
  <2>1. /\ x \in AnExchange /\ x.op = "accept" /\ x.step = "spent" /\ x.id = q.id
        /\ x.teams = invitations[q.id].teams
    BY <1>1, <1>2 DEF AnExchange, ARow
  <2>2. /\ Turn(p, x) /\ AddressFree(q.id) /\ ~Registered(q.id)
        /\ invitations[q.id].state = "open"
    BY <1>5 DEF SpendInvitation
  <2> HIDE DEF x
  <2>3. Relies(x, invitations')
    BY <1>1, <1>2, <2>1, <2>2 DEF Relies
  <2> QED
    BY <1>2, <2>1, <2>2, <2>3, TurningKeepsOrdered
<1>6. CASE JoinTeams(p)
  <2> DEFINE x == [q EXCEPT !.step = "joined",
                            !.teams = {t \in q.teams : teams[t].state = "live"}]
  <2>1. /\ x \in AnExchange /\ x.op = "accept" /\ x.step = "joined" /\ x.id = q.id
        /\ x.teams \subseteq q.teams
    BY <1>1 DEF AnExchange
  <2>2. Turn(p, x) /\ q.step = "spent"
    BY <1>6 DEF JoinTeams, Exchanging
  <2> HIDE DEF x
  <2>3. Relies(x, invitations')
    BY <1>1, <1>2, <2>1, <2>2 DEF Relies
  <2> QED
    BY <1>2, <2>1, <2>2, <2>3, TurningKeepsOrdered
<1> QED
  BY <1>3, <1>4, <1>5, <1>6

LEMMA ProceedKeepsOrdered ==
  ASSUME Tabled, Ordered, UNCHANGED vars, NEW p \in Requests, Proceed(p)
  PROVE  Tabled' /\ Ordered' /\ \A i \in Ids : Ages(i)
  BY CreateInvitationKeepsOrdered, ResendInvitationKeepsOrdered, RevokeInvitationKeepsOrdered,
     AcceptingKeepsOrdered DEF Proceed, Ages

LEMMA ExpireKeepsOrdered ==
  ASSUME Tabled, Ordered, UNCHANGED vars, NEW i \in Ids, Expire(i)
  PROVE  Tabled' /\ Ordered' /\ \A j \in Ids : Ages(j)
<1>1. /\ invitations[i] \in ARow /\ invitations[i].state = "open"
      /\ invitations' = [invitations EXCEPT ![i].inTime = FALSE]
      /\ UNCHANGED exchanges
  BY DEF Tabled, Expire
<1> DEFINE row == [invitations[i] EXCEPT !.inTime = FALSE]
<1>2. row \in ARow /\ row.state = invitations[i].state /\ row.teams = invitations[i].teams
  BY <1>1 DEF ARow
<1> HIDE DEF row
<1>3. invitations' = [invitations EXCEPT ![i] = row]
  BY <1>1 DEF row
<1>4. Tabled'
  BY <1>1, <1>2, <1>3 DEF Tabled, TypeOK, vars, rows
<1>5. \A j \in Ids : /\ invitations'[j].state = invitations[j].state
                     /\ invitations'[j].teams = invitations[j].teams
                     /\ invitations[j].state = "accepted" => invitations'[j] = invitations[j]
  BY <1>1, <1>2, <1>3 DEF Tabled
<1>6. Ordered'
  BY <1>1, <1>5 DEF Ordered, ExchangesRely, Relies, WritersDiffer, SpendersDiffer, SpendersAreNew,
     Spending, Registered, vars, rows
<1> QED
  BY <1>4, <1>5, <1>6 DEF Ages

-----------------------------------------------------------------------------
(* What the operations on teams and accounts rely on, and acceptances.     *)

\* A step about an invitation takes nothing from what others were invited to.
LEMMA AgingKeepsPresent ==
  ASSUME Present, UNCHANGED vars, \A i \in Ids : Ages(i)
  PROVE  Present'
<1>1. \A t, u : Invited(t, u) => Invited(t, u)'
  BY DEF Invited, Ages
<1>2. OnlyAccountsChangeStatus'
  BY DEF Present, OnlyAccountsChangeStatus, vars, rows
<1>3. OnlyInviteesOutliveATeam'
  <2>1. \A t \in Teams, u \in Users : teams[t].state # "live" /\ members[t][u] # "none" =>
           Invited(t, u)
    BY DEF Present, OnlyInviteesOutliveATeam, Invited
  <2>2. \A t \in Teams, u \in Users : teams'[t].state # "live" /\ members'[t][u] # "none" =>
           Invited(t, u)'
    BY <1>1, <2>1 DEF vars, rows
  <2> QED
    BY <2>2 DEF OnlyInviteesOutliveATeam, Invited
<1>4. RostersMissInviteesOnly'
  BY <1>1 DEF Present, RostersMissInviteesOnly, OnTeam, vars, rows
<1> QED
  BY <1>2, <1>3, <1>4 DEF Present

\* A request that reads: what it has learnt is all that is new.
LEMMA ReadingKeepsPresent ==
  ASSUME TypeOK, Present, UNCHANGED <<rows, invitations>>, NEW p \in Requests, NEW q,
         work' = [work EXCEPT ![p] = q],
         q.op \in {"suspend", "reactivate"} /\ q.step \in {"read", "suspended"} =>
           accounts[q.user].status # "absent",
         q.op = "disband" /\ q.step = "emptied" => OnTeam(q.team) \subseteq q.roster
  PROVE  Present'
<1>1. /\ work'[p] = q
      /\ \A r \in Requests \ {p} : work'[r] = work[r]
  BY DEF TypeOK
<1>2. OnlyAccountsChangeStatus'
  BY <1>1 DEF Present, OnlyAccountsChangeStatus, rows
<1>3. OnlyInviteesOutliveATeam'
  BY DEF Present, OnlyInviteesOutliveATeam, rows
<1>4. RostersMissInviteesOnly'
  BY <1>1 DEF Present, RostersMissInviteesOnly, OnTeam, Invited, rows
<1> QED
  BY <1>2, <1>3, <1>4 DEF Present

LEMMA CommitKeepsPresent ==
  ASSUME TypeOK, Present, UNCHANGED invitations, NEW p \in Requests, Finish(p),
         \A u \in Users : accounts'[u].status = "absent" => accounts[u].status = "absent",
         RequestsAreShaped,
         \A t \in Teams, u \in Users :
           teams'[t].state # "live" /\ members'[t][u] # "none" => Invited(t, u),
         \A r \in Requests \ {p}, u \in Users :
           (/\ work[r].op = "disband" /\ work[r].step = "emptied"
            /\ members'[work[r].team][u] # "none") => members[work[r].team][u] # "none"
  PROVE  Present'
<1>1. /\ work'[p] = Idle
      /\ \A r \in Requests \ {p} : work'[r] = work[r]
  BY DEF TypeOK, Finish, Become
<1>2. \A t, u : Invited(t, u)' <=> Invited(t, u)
  BY DEF Invited
<1>3. OnlyAccountsChangeStatus'
  <2> SUFFICES ASSUME NEW r \in Requests, work'[r].op \in {"suspend", "reactivate"},
                      work'[r].step \in {"read", "suspended"}
               PROVE  accounts'[work'[r].user].status # "absent"
    BY DEF OnlyAccountsChangeStatus
  <2>1. r # p /\ work'[r] = work[r]
    BY <1>1 DEF Idle
  <2>2. work[r].user \in Users
    BY <2>1 DEF RequestsAreShaped, Shaped
  <2> QED
    BY <2>1, <2>2 DEF Present, OnlyAccountsChangeStatus
<1>4. OnlyInviteesOutliveATeam'
  BY <1>2 DEF OnlyInviteesOutliveATeam, Invited
<1>5. RostersMissInviteesOnly'
  <2> SUFFICES ASSUME NEW r \in Requests, work'[r].op = "disband", work'[r].step = "emptied",
                      NEW u \in Users, members'[work'[r].team][u] # "none",
                      u \notin work'[r].roster
               PROVE  Invited(work'[r].team, u)
    BY <1>2 DEF RostersMissInviteesOnly, OnTeam
  <2>1. r # p /\ work'[r] = work[r]
    BY <1>1 DEF Idle
  <2>2. u \in OnTeam(work[r].team) \ work[r].roster
    BY <2>1 DEF OnTeam
  <2> QED
    BY <2>1, <2>2 DEF Present, RostersMissInviteesOnly
<1> QED
  BY <1>3, <1>4, <1>5 DEF Present

LEMMA FinishingKeepsPresent ==
  ASSUME TypeOK, Present, UNCHANGED <<rows, invitations>>, NEW p \in Requests, Finish(p)
  PROVE  Present'
<1>1. Idle.step = "idle"
  BY DEF Idle
<1> QED
  BY <1>1, ReadingKeepsPresent DEF Finish, Become

LEMMA WatchingKeepsPresent ==
  ASSUME IInv, Present, UNCHANGED invitations, NEW p \in Requests, Call(p) \/ Advance(p),
         UNCHANGED rows
  PROVE  Present'
<1> DEFINE q == work[p]
           x == work'[p]
<1>1. q \in Task /\ TypeOK
  BY DEF IInv, TypeOK
<1>2. CASE Finish(p)
  BY <1>1, <1>2, FinishingKeepsPresent
<1>3. CASE Call(p)
  <2>1. PICK y : work' = [work EXCEPT ![p] = y] /\ y.step = "received"
    <3>1. PICK op, t, u, role, s : Receive(p, op, t, u, role, s)
      BY <1>3 DEF Call
    <3>2. [Idle EXCEPT !.step = "received", !.op = op, !.team = t, !.user = u, !.role = role,
                       !.slug = s].step = "received"
      BY DEF Idle
    <3> QED
      BY <3>1, <3>2 DEF Receive, Become
  <2> QED
    BY <1>1, <2>1, ReadingKeepsPresent
<1>4. CASE ReadFirst(p) /\ ~Finish(p)
  <2> DEFINE y == [q EXCEPT !.step = "read", !.locks = q.locks \cup Wants(p)]
  <2>1. y.step = "read" /\ y.op = q.op /\ y.user = q.user
    BY <1>1 DEF Task
  <2>2. work' = [work EXCEPT ![p] = y]
    BY <1>4 DEF ReadFirst, Reach, Become
  <2>3. q.op \in {"suspend", "reactivate"} => accounts[q.user].status # "absent"
    BY <1>4 DEF ReadFirst
  <2> HIDE DEF y
  <2> QED
    BY <1>1, <2>1, <2>2, <2>3, ReadingKeepsPresent
<1>5. CASE SuspendAccount(p)
  <2> DEFINE y == [q EXCEPT !.step = "suspended", !.locks = q.locks \cup Wants(p)]
  <2>1. y.step = "suspended" /\ y.op = q.op /\ y.user = q.user
    BY <1>1 DEF Task
  <2>2. work' = [work EXCEPT ![p] = y]
    BY <1>5 DEF SuspendAccount, Reach, Become
  <2>3. accounts[q.user].status # "absent"
    BY <1>5 DEF SuspendAccount, Doing, Present, OnlyAccountsChangeStatus
  <2> HIDE DEF y
  <2> QED
    BY <1>1, <2>1, <2>2, <2>3, ReadingKeepsPresent
<1>6. CASE DeleteMembers(p)
  <2> DEFINE y == [q EXCEPT !.step = "emptied", !.roster = OnTeam(q.team),
                            !.locks = q.locks \cup Wants(p)]
  <2>1. y.step = "emptied" /\ y.team = q.team /\ y.roster = OnTeam(q.team)
    BY <1>1 DEF Task
  <2>2. work' = [work EXCEPT ![p] = y]
    BY <1>6 DEF DeleteMembers, Become
  <2> HIDE DEF y
  <2> QED
    BY <1>1, <2>1, <2>2, ReadingKeepsPresent
<1>7. CASE /\ ~Finish(p)
           /\ \/ Address(p) \/ AdmitSubject(p) \/ ExamineMembership(p) \/ WriteMembership(p)
              \/ TakeMembership(p) \/ HideTeam(p)
  <2>1. PICK y : /\ work' = [work EXCEPT ![p] = y]
                 /\ y.step \in {"addressed", "joinable", "examined", "written", "hidden"}
    <3>1. \A step : [q EXCEPT !.step = step, !.locks = q.locks \cup Wants(p)].step = step
      BY <1>1 DEF Task
    <3>2. \A step : [q EXCEPT !.step = step, !.roster = {q.user},
                              !.locks = q.locks \cup Wants(p)].step = step
      BY <1>1 DEF Task
    <3>3. CASE Address(p) \/ AdmitSubject(p) \/ ExamineMembership(p) \/ HideTeam(p)
      <4>1. PICK step \in {"addressed", "joinable", "examined", "hidden"} : Reach(p, step)
        BY <1>7, <3>3 DEF Address, AdmitSubject, ExamineMembership, HideTeam
      <4> QED
        BY <4>1, <3>1 DEF Reach, Become
    <3>4. CASE WriteMembership(p) \/ TakeMembership(p)
      BY <1>7, <3>2, <3>4 DEF WriteMembership, TakeMembership, Become
    <3> QED
      BY <1>7, <3>3, <3>4
  <2> QED
    BY <1>1, <2>1, ReadingKeepsPresent
<1> QED
  BY <1>2, <1>3, <1>4, <1>5, <1>6, <1>7
     DEF Advance, AddMember, RemoveMember, DisbandTeam, CreateTeam, RenameTeam, LeaveTeams,
         ReactivateAccount

LEMMA BumpKeepsPeople ==
  ASSUME NEW users, accounts' = Bump(users), TypeOK
  PROVE  \A u \in Users : accounts'[u].status = accounts[u].status
  BY BumpIsTyped

\* A member is added to a team that is live, and that nobody is disbanding.
LEMMA AddMemberKeepsPresent ==
  ASSUME IInv, Present, UNCHANGED invitations, NEW p \in Requests, AddMember(p)
  PROVE  Present'
<1> DEFINE q == work[p]
<1>1. /\ TypeOK /\ RequestsAreShaped /\ Shaped(q) /\ Promise(q)
      /\ q.op = "add" /\ q.step = "written"
  BY DEF IInv, RequestsAreShaped, PromisesHold, AddMember, Doing
<1>2. /\ q.team \in Teams /\ q.user \in Users
      /\ Share(TheTeam(q.team)) \in q.locks /\ teams[q.team].state = "live"
  BY <1>1 DEF Shaped, Promise
<1>3. \A t \in Teams, u \in Users : members'[t][u] # members[t][u] => t = q.team
  BY <1>1, <1>2 DEF AddMember, TypeOK
<1>4. \A t \in Teams, u \in Users :
        teams'[t].state # "live" /\ members'[t][u] # "none" => Invited(t, u)
  BY <1>2, <1>3 DEF AddMember, Present, OnlyInviteesOutliveATeam, Invited
<1>5. ASSUME NEW r \in Requests \ {p}, work[r].op = "disband", work[r].step = "emptied"
      PROVE  work[r].team \in Teams /\ work[r].team # q.team
  <2>1. Promise(work[r]) /\ Shaped(work[r])
    BY DEF IInv, PromisesHold, RequestsAreShaped
  <2>2. Own(TheTeam(work[r].team)) \in work[r].locks /\ work[r].team \in Teams
    BY <1>5, <2>1 DEF Promise, Shaped
  <2>3. Compatible(Own(TheTeam(work[r].team)), Share(TheTeam(q.team)))
    BY <1>2, <2>2 DEF IInv, LocksAgree
  <2> QED
    BY <2>2, <2>3, OwnExcludes
<1>6. \A u \in Users : accounts'[u].status = "absent" => accounts[u].status = "absent"
  BY <1>1, BumpKeepsPeople DEF AddMember
<1> QED
  BY <1>1, <1>3, <1>4, <1>5, <1>6, CommitKeepsPresent DEF AddMember

LEMMA ShrinkingKeepsPresent ==
  ASSUME IInv, Present, UNCHANGED invitations, NEW p \in Requests, Finish(p),
         \A u \in Users : accounts'[u].status = "absent" => accounts[u].status = "absent",
         \A t \in Teams : teams'[t].state # "live" => teams[t].state # "live",
         \A t \in Teams, u \in Users : members'[t][u] # "none" => members[t][u] # "none"
  PROVE  Present'
<1>1. TypeOK /\ RequestsAreShaped
  BY DEF IInv
<1>2. \A t \in Teams, u \in Users :
        teams'[t].state # "live" /\ members'[t][u] # "none" => Invited(t, u)
  BY DEF Present, OnlyInviteesOutliveATeam, Invited
<1>3. \A r \in Requests : work[r].op = "disband" /\ work[r].step = "emptied" =>
        work[r].team \in Teams
  BY <1>1 DEF RequestsAreShaped, Shaped
<1> QED
  BY <1>1, <1>2, <1>3, CommitKeepsPresent

LEMMA RemovingKeepsPresent ==
  ASSUME IInv, Present, UNCHANGED invitations, NEW p \in Requests,
         RemoveMember(p) \/ CreateTeam(p) \/ RenameTeam(p)
  PROVE  Present'
<1> DEFINE q == work[p]
<1>1. TypeOK /\ Shaped(q)
  BY DEF IInv, RequestsAreShaped
<1>2. CASE RemoveMember(p)
  <2>1. q.team \in Teams /\ q.user \in Users
    BY <1>1, <1>2 DEF RemoveMember, Doing, Shaped
  <2>2. \A t \in Teams, u \in Users : members'[t][u] # "none" => members[t][u] # "none"
    BY <1>1, <1>2, <2>1 DEF RemoveMember, TypeOK
  <2>3. \A u \in Users : accounts'[u].status = "absent" => accounts[u].status = "absent"
    BY <1>1, <1>2, BumpKeepsPeople DEF RemoveMember
  <2> QED
    BY <1>2, <2>2, <2>3, ShrinkingKeepsPresent DEF RemoveMember
<1>3. CASE CreateTeam(p)
  <2>1. \A t \in Teams : teams'[t].state # "live" => teams[t].state # "live"
    BY <1>1, <1>3 DEF CreateTeam, TypeOK
  <2> QED
    BY <1>3, <2>1, ShrinkingKeepsPresent DEF CreateTeam
<1>4. CASE RenameTeam(p)
  <2>1. \A t \in Teams : teams'[t].state # "live" => teams[t].state # "live"
    <3>1. CASE teams' = [teams EXCEPT ![q.team].slug = q.slug]
      <4>1. q.team \in Teams /\ teams[q.team] \in Team
        BY <1>1, <1>4 DEF RenameTeam, Doing, Shaped, TypeOK
      <4>2. [teams[q.team] EXCEPT !.slug = q.slug].state = teams[q.team].state
        BY <4>1 DEF Team
      <4> QED
        BY <1>1, <3>1, <4>1, <4>2 DEF TypeOK
    <3> QED
      BY <1>4, <3>1 DEF RenameTeam
  <2> QED
    BY <1>4, <2>1, ShrinkingKeepsPresent DEF RenameTeam
<1> QED
  BY <1>2, <1>3, <1>4

LEMMA ChangingStatusKeepsPresent ==
  ASSUME IInv, Present, UNCHANGED invitations, NEW p \in Requests,
         LeaveTeams(p) \/ ReactivateAccount(p)
  PROVE  Present'
<1> DEFINE u == work[p].user
<1>1. TypeOK /\ u \in Users
  BY DEF IInv, RequestsAreShaped, Shaped, LeaveTeams, ReactivateAccount, Doing
<1>2. /\ accounts'[u].status # "absent"
      /\ \A v \in Users \ {u} : accounts'[v] = accounts[v]
  BY <1>1, StatusIsTyped DEF LeaveTeams, ReactivateAccount
<1>3. \A t \in Teams, v \in Users : members'[t][v] # "none" => members[t][v] # "none"
  BY <1>1 DEF LeaveTeams, ReactivateAccount, TypeOK
<1> QED
  BY <1>2, <1>3, ShrinkingKeepsPresent DEF LeaveTeams, ReactivateAccount

\* Those a disbanding leaves behind joined after it had looked.
LEMMA DisbandTeamKeepsPresent ==
  ASSUME IInv, Present, UNCHANGED invitations, NEW p \in Requests, DisbandTeam(p)
  PROVE  Present'
<1> DEFINE q == work[p]
<1>1. /\ TypeOK /\ RequestsAreShaped /\ Shaped(q) /\ q.op = "disband" /\ q.step = "emptied"
  BY DEF IInv, RequestsAreShaped, DisbandTeam, Doing
<1>2. q.team \in Teams
  BY <1>1 DEF Shaped
<1>3. /\ \A t \in Teams \ {q.team} : teams'[t] = teams[t]
      /\ \A t \in Teams, u \in Users : members'[t][u] # "none" =>
           members[t][u] # "none" /\ (t = q.team => u \notin q.roster)
  BY <1>1, <1>2 DEF DisbandTeam, TypeOK
<1>4. \A u \in OnTeam(q.team) \ q.roster : Invited(q.team, u)
  BY <1>1 DEF Present, RostersMissInviteesOnly
<1>5. \A t \in Teams, u \in Users :
        teams'[t].state # "live" /\ members'[t][u] # "none" => Invited(t, u)
  BY <1>3, <1>4 DEF Present, OnlyInviteesOutliveATeam, Invited, OnTeam
<1>6. \A u \in Users : accounts'[u].status = "absent" => accounts[u].status = "absent"
  BY <1>1, BumpKeepsPeople DEF DisbandTeam
<1>7. \A r \in Requests : work[r].op = "disband" /\ work[r].step = "emptied" =>
        work[r].team \in Teams
  BY <1>1 DEF RequestsAreShaped, Shaped
<1> QED
  BY <1>1, <1>3, <1>5, <1>6, <1>7, CommitKeepsPresent DEF DisbandTeam

LEMMA TeamsKeepPresent ==
  ASSUME IInv, Present, UNCHANGED invitations, NEW p \in Requests,
         Call(p) \/ Advance(p) \/ AbortDeadlock(p) \/ Rollback(p)
  PROVE  Present'
<1>1. CASE AbortDeadlock(p) \/ Rollback(p)
  BY <1>1, FinishingKeepsPresent DEF AbortDeadlock, Rollback, IInv
<1>2. CASE Call(p)
  <2>1. UNCHANGED rows
    BY <1>2 DEF Call, Receive
  <2> QED
    BY <1>2, <2>1, WatchingKeepsPresent
<1>3. CASE Advance(p) /\ UNCHANGED rows
  BY <1>3, WatchingKeepsPresent
<1>4. CASE Advance(p) /\ ~UNCHANGED rows
  BY <1>4, AddMemberKeepsPresent, RemovingKeepsPresent, ChangingStatusKeepsPresent,
     DisbandTeamKeepsPresent DEF Advance, Address, AdmitSubject, ExamineMembership,
     WriteMembership, TakeMembership, HideTeam, DeleteMembers, ReadFirst, SuspendAccount
<1> QED
  BY <1>1, <1>2, <1>3, <1>4

-----------------------------------------------------------------------------
(* An acceptance.                                                          *)

\* What it does to the tables.
LEMMA Accepted ==
  ASSUME InvitationsIInv, NEW p \in Requests, AcceptInvitation(p)
  PROVE  LET x == exchanges[p]
             u == AddressOf[x.id] IN
         /\ x \in AnExchange /\ x.id \in Ids /\ x.step = "joined" /\ u \in Users
         /\ x.teams \subseteq invitations[x.id].teams
         /\ invitations[x.id].state = "open"
         /\ accounts[u].status = "absent" /\ accounts'[u].status = "ACTIVE"
         /\ accounts' \in [Users -> Account]
         /\ \A v \in Users \ {u} : accounts'[v] = accounts[v]
         /\ members' \in [Teams -> [Users -> TeamRoles \cup {"none"}]]
         /\ \A t \in Teams : members[t][u] = "none"
         /\ \A t \in Teams, v \in Users : members'[t][v] # members[t][v] =>
              v = u /\ t \in x.teams
         /\ invitations' \in [Ids -> ARow]
         /\ \A i \in Ids \ {x.id} : invitations'[i] = invitations[i]
         /\ invitations'[x.id].state = "accepted"
         /\ invitations'[x.id].teams = invitations[x.id].teams
<1> DEFINE x == exchanges[p]
           u == AddressOf[x.id]
           row == [invitations[x.id] EXCEPT !.state = "accepted"]
<1>1. /\ x \in AnExchange /\ Relies(x, invitations) /\ x.step = "joined"
      /\ TypeOK /\ Tabled
  BY DEF InvitationsIInv, Tabled, IInv, Ordered, ExchangesRely, AcceptInvitation, Exchanging
<1>2. x.id \in Ids /\ invitations[x.id].state = "open" /\ x.teams \subseteq invitations[x.id].teams
  BY <1>1 DEF Relies
<1>3. u \in Users
  BY <1>2, ParamAssumption, InvitationAssumption
<1>4. accounts[u].status = "absent"
  BY <1>1 DEF InvitationsIInv, Ordered, SpendersAreNew, Spending, Registered
<1>5. \A t \in Teams : members[t][u] = "none"
  BY <1>3, <1>4 DEF InvitationsIInv, IInv, SuspendedIsOnNoTeam, TeamsOf
<1>6. [status |-> "ACTIVE", version |-> 1] \in Account
  BY ParamAssumption DEF Account
<1>7. /\ accounts' \in [Users -> Account] /\ accounts'[u].status = "ACTIVE"
      /\ \A v \in Users \ {u} : accounts'[v] = accounts[v]
  BY <1>1, <1>3, <1>6 DEF AcceptInvitation, TypeOK
<1>8. members' = [t \in Teams |-> IF t \in x.teams
                                  THEN [members[t] EXCEPT ![u] = "MEMBER"] ELSE members[t]]
  BY DEF AcceptInvitation
<1>9. \A t \in Teams : /\ members[t] \in [Users -> TeamRoles \cup {"none"}]
                       /\ [members[t] EXCEPT ![u] = "MEMBER"] \in [Users -> TeamRoles \cup {"none"}]
  BY <1>1 DEF TypeOK, TeamRoles
<1>10. members' \in [Teams -> [Users -> TeamRoles \cup {"none"}]]
  BY <1>8, <1>9
<1>11. \A t \in Teams, v \in Users : members'[t][v] # members[t][v] => v = u /\ t \in x.teams
  BY <1>8, <1>9
<1>12. invitations[x.id] \in ARow
  BY <1>1, <1>2 DEF Tabled
<1>13. row \in ARow /\ row.state = "accepted" /\ row.teams = invitations[x.id].teams
  BY <1>12 DEF ARow
<1>14. invitations' = [invitations EXCEPT ![x.id] = row]
  BY DEF AcceptInvitation
<1> HIDE DEF row
<1>15. /\ invitations' \in [Ids -> ARow] /\ invitations'[x.id] = row
       /\ \A i \in Ids \ {x.id} : invitations'[i] = invitations[i]
  BY <1>1, <1>2, <1>13, <1>14 DEF Tabled
<1> QED
  BY <1>1, <1>2, <1>3, <1>4, <1>5, <1>7, <1>10, <1>11, <1>13, <1>15

LEMMA AcceptKeepsTeams ==
  ASSUME InvitationsIInv, NEW p \in Requests, AcceptInvitation(p), UNCHANGED work
  PROVE  IInv'
<1> DEFINE x == exchanges[p]
           u == AddressOf[x.id]
<1>1. /\ u \in Users /\ accounts[u].status = "absent" /\ accounts'[u].status = "ACTIVE"
      /\ accounts' \in [Users -> Account]
      /\ \A v \in Users \ {u} : accounts'[v] = accounts[v]
      /\ members' \in [Teams -> [Users -> TeamRoles \cup {"none"}]]
      /\ \A t \in Teams : members[t][u] = "none"
      /\ \A t \in Teams, v \in Users : members'[t][v] # members[t][v] => v = u
  BY Accepted
<1>2. UNCHANGED teams
  BY DEF AcceptInvitation
<1>3. TypeOK'
  BY <1>1, <1>2 DEF InvitationsIInv, IInv, TypeOK
<1>4. RequestsAreShaped' /\ LocksAgree'
  BY DEF InvitationsIInv, IInv, RequestsAreShaped, LocksAgree
<1>5. PromisesHold'
  <2> SUFFICES ASSUME NEW r \in Requests
               PROVE  Promise(work[r])'
    BY DEF PromisesHold
  <2> DEFINE q == work[r]
  <2>1. q \in Task /\ Shaped(q) /\ Promise(q) /\ q' = q
    BY DEF InvitationsIInv, IInv, TypeOK, RequestsAreShaped, PromisesHold
  <2>2. q.op = "add" /\ q.step \in {"joinable", "examined", "written"} =>
          accounts'[q.user].status = "ACTIVE" /\ q.user # u
    BY <2>1, <1>1 DEF Promise, Shaped
  <2>3. q.op = "add" /\ q.step \in {"examined", "written"} =>
          members'[q.team][q.user] # q.role
    BY <2>1, <2>2, <1>1 DEF Promise, Shaped
  <2>4. q.op = "remove" /\ q.step = "written" => members'[q.team][q.user] # "none"
    BY <2>1, <1>1 DEF Promise, Shaped
  <2>5. q.op = "disband" /\ q.step = "emptied" =>
          \A v \in q.roster : members'[q.team][v] # "none"
    <3> SUFFICES ASSUME q.op = "disband", q.step = "emptied", NEW v \in q.roster
                 PROVE  members'[q.team][v] # "none"
      OBVIOUS
    <3>1. v \in Users /\ q.team \in Teams /\ members[q.team][v] # "none"
      BY <2>1 DEF Task, Shaped, Promise
    <3> QED
      BY <3>1, <1>1
  <2> QED
    BY <2>1, <2>2, <2>3, <2>4, <2>5, <1>2 DEF Promise
<1>6. SuspendedIsOnNoTeam'
  BY <1>1 DEF InvitationsIInv, IInv, SuspendedIsOnNoTeam, TeamsOf
<1> QED
  BY <1>3, <1>4, <1>5, <1>6 DEF IInv

LEMMA AcceptKeepsOrdered ==
  ASSUME InvitationsIInv, NEW p \in Requests, AcceptInvitation(p), UNCHANGED work
  PROVE  Tabled' /\ Ordered'
<1> DEFINE x == exchanges[p]
           u == AddressOf[x.id]
<1>1. /\ x.id \in Ids /\ x.step = "joined" /\ u \in Users
      /\ invitations[x.id].state = "open"
      /\ \A v \in Users \ {u} : accounts'[v] = accounts[v]
      /\ invitations' \in [Ids -> ARow]
      /\ \A i \in Ids \ {x.id} : invitations'[i] = invitations[i]
      /\ invitations'[x.id].state = "accepted"
  BY Accepted
<1>2. /\ exchanges'[p] = Quiet /\ Quiet \in AnExchange /\ Quiet.step = "idle"
      /\ \A r \in Requests \ {p} : exchanges'[r] = exchanges[r]
      /\ exchanges' \in [Requests -> AnExchange]
  <2>1. Quiet \in AnExchange /\ Quiet.step = "idle"
    BY DEF Quiet, AnExchange
  <2> QED
    BY <2>1 DEF InvitationsIInv, Tabled, AcceptInvitation, Close, Turn
<1>3. Tabled'
  BY <1>1, <1>2, AcceptKeepsTeams DEF Tabled, IInv
<1>4. Ordered
  BY DEF InvitationsIInv
<1>5. \A r \in Requests \ {p} : Spending(r) => AddressOf[exchanges[r].id] # u /\ exchanges[r].id # x.id
  BY <1>1, <1>4 DEF Ordered, SpendersDiffer, Spending
<1>6. ExchangesRely'
  <2> SUFFICES ASSUME NEW r \in Requests
               PROVE  Relies(exchanges'[r], invitations')
    BY DEF ExchangesRely, Relies
  <2>1. CASE r = p
    BY <2>1, <1>2 DEF Relies
  <2>2. CASE r # p
    <3>1. exchanges'[r] = exchanges[r] /\ Relies(exchanges[r], invitations)
      BY <1>2, <1>4, <2>2 DEF Ordered, ExchangesRely
    <3> QED
      BY <1>1, <1>5, <2>2, <3>1 DEF Relies, Spending
  <2> QED
    BY <2>1, <2>2
<1>7. WritersDiffer'
  BY <1>2, <1>4 DEF Ordered, WritersDiffer
<1>8. SpendersDiffer'
  BY <1>2, <1>4 DEF Ordered, SpendersDiffer, Spending
<1>9. SpendersAreNew'
  <2> SUFFICES ASSUME NEW r \in Requests, Spending(r)'
               PROVE  accounts'[AddressOf[exchanges'[r].id]].status = "absent"
    BY DEF SpendersAreNew, Registered
  <2>1. r # p /\ exchanges'[r] = exchanges[r] /\ Spending(r)
    BY <1>2 DEF Spending
  <2>2. exchanges[r].id \in Ids /\ AddressOf[exchanges[r].id] \in Users
    BY <2>1, <1>4, ParamAssumption, InvitationAssumption
       DEF Ordered, ExchangesRely, Relies, Spending
  <2>3. accounts[AddressOf[exchanges[r].id]].status = "absent"
    BY <2>1, <1>4 DEF Ordered, SpendersAreNew, Registered
  <2> QED
    BY <1>1, <1>5, <2>1, <2>2, <2>3
<1> QED
  BY <1>3, <1>6, <1>7, <1>8, <1>9 DEF Ordered

LEMMA AcceptKeepsPresent ==
  ASSUME InvitationsIInv, NEW p \in Requests, AcceptInvitation(p), UNCHANGED work
  PROVE  Present'
<1> DEFINE x == exchanges[p]
           u == AddressOf[x.id]
<1>1. /\ x.id \in Ids /\ u \in Users
      /\ x.teams \subseteq invitations[x.id].teams
      /\ accounts'[u].status = "ACTIVE"
      /\ \A v \in Users \ {u} : accounts'[v] = accounts[v]
      /\ \A t \in Teams, v \in Users : members'[t][v] # members[t][v] => v = u /\ t \in x.teams
      /\ \A i \in Ids \ {x.id} : invitations'[i] = invitations[i]
      /\ invitations'[x.id].state = "accepted"
      /\ invitations'[x.id].teams = invitations[x.id].teams
      /\ invitations[x.id].state = "open"
  BY Accepted
<1>2. \A t, v : Invited(t, v) => Invited(t, v)'
  BY <1>1 DEF Invited
<1>3. \A t \in Teams, v \in Users : members'[t][v] # members[t][v] => Invited(t, v)'
  BY <1>1 DEF Invited
<1>4. Present /\ RequestsAreShaped
  BY DEF InvitationsIInv, IInv
<1>5. OnlyAccountsChangeStatus'
  <2> SUFFICES ASSUME NEW r \in Requests, work[r].op \in {"suspend", "reactivate"},
                      work[r].step \in {"read", "suspended"}
               PROVE  accounts'[work[r].user].status # "absent"
    BY DEF OnlyAccountsChangeStatus
  <2>1. work[r].user \in Users /\ accounts[work[r].user].status # "absent"
    BY <1>4 DEF Present, OnlyAccountsChangeStatus, RequestsAreShaped, Shaped
  <2> QED
    BY <1>1, <2>1
<1>6. OnlyInviteesOutliveATeam'
  <2>1. \A t \in Teams, v \in Users : teams[t].state # "live" /\ members[t][v] # "none" =>
           Invited(t, v)
    BY <1>4 DEF Present, OnlyInviteesOutliveATeam, Invited
  <2>2. \A t \in Teams, v \in Users : teams'[t].state # "live" /\ members'[t][v] # "none" =>
           Invited(t, v)'
    BY <1>2, <1>3, <2>1 DEF AcceptInvitation
  <2> QED
    BY <2>2 DEF OnlyInviteesOutliveATeam, Invited
<1>7. RostersMissInviteesOnly'
  <2> SUFFICES ASSUME NEW r \in Requests, work[r].op = "disband", work[r].step = "emptied",
                      NEW v \in Users, members'[work[r].team][v] # "none",
                      v \notin work[r].roster
               PROVE  Invited(work[r].team, v)'
    BY DEF RostersMissInviteesOnly, OnTeam
  <2>1. work[r].team \in Teams
    BY <1>4 DEF RequestsAreShaped, Shaped
  <2> QED
    BY <1>2, <1>3, <1>4, <2>1 DEF Present, RostersMissInviteesOnly, OnTeam
<1> QED
  BY <1>5, <1>6, <1>7 DEF Present

-----------------------------------------------------------------------------
(* Together.                                                               *)

LEMMA InvitationsInitHolds ==
  InvitationsInit => InvitationsIInv
<1> SUFFICES ASSUME InvitationsInit
             PROVE  InvitationsIInv
  OBVIOUS
<1>1. IInv /\ TypeOK
  BY InitHolds DEF InvitationsInit, IInv
<1>2. Quiet \in AnExchange /\ Quiet.step = "idle"
  BY DEF Quiet, AnExchange
<1>3. Tabled
  BY <1>1, <1>2 DEF InvitationsInit, Tabled, ARow
<1>4. Ordered
  BY <1>2 DEF InvitationsInit, Ordered, ExchangesRely, Relies, WritersDiffer, SpendersDiffer,
     SpendersAreNew, Spending
<1>5. Present
  BY DEF InvitationsInit, Init, Idle, Present, OnlyAccountsChangeStatus, OnlyInviteesOutliveATeam,
     RostersMissInviteesOnly
<1> QED
  BY <1>1, <1>3, <1>4, <1>5 DEF InvitationsIInv

\* A step on teams and accounts leaves the tables of the invitations, and whoever is past
\* the insert of an account keeps the address: no such step creates one.
LEMMA TeamsKeepInvitations ==
  ASSUME InvitationsIInv, NEW p \in Requests, UNCHANGED invitationVars,
         Call(p) \/ Advance(p) \/ AbortDeadlock(p) \/ Rollback(p)
  PROVE  /\ InvitationsIInv'
         /\ \A u \in Users : accounts[u].status = "absent" <=> accounts'[u].status = "absent"
<1>1. IInv'
  BY CallKeepsIInv, AdvanceKeepsIInv, FinishingKeepsIInv
     DEF InvitationsIInv, AbortDeadlock, Rollback
<1>2. Present'
  BY TeamsKeepPresent DEF InvitationsIInv, invitationVars
<1>3. \A u \in Users : accounts[u].status = "absent" <=> accounts'[u].status = "absent"
  <2>1. CASE UNCHANGED accounts
    BY <2>1
  <2>2. CASE AddMember(p) \/ RemoveMember(p) \/ DisbandTeam(p)
    <3>1. PICK users : accounts' = Bump(users)
      BY <2>2 DEF AddMember, RemoveMember, DisbandTeam
    <3> QED
      BY <3>1, BumpKeepsPeople DEF InvitationsIInv, IInv
  <2>3. CASE LeaveTeams(p) \/ ReactivateAccount(p)
    <3> DEFINE u == work[p].user
    <3>1. u \in Users /\ TypeOK
      BY <2>3 DEF InvitationsIInv, IInv, RequestsAreShaped, Shaped, LeaveTeams,
         ReactivateAccount, Doing
    <3>2. /\ accounts'[u].status # "absent"
          /\ \A v \in Users \ {u} : accounts'[v] = accounts[v]
      BY <2>3, <3>1, StatusIsTyped DEF LeaveTeams, ReactivateAccount
    <3>3. accounts[u].status # "absent"
      BY <2>3 DEF InvitationsIInv, Present, OnlyAccountsChangeStatus, LeaveTeams,
         ReactivateAccount, Doing
    <3> QED
      BY <3>1, <3>2, <3>3
  <2>4. Call(p) \/ AbortDeadlock(p) \/ Rollback(p) => UNCHANGED accounts
    BY DEF Call, Receive, AbortDeadlock, Rollback, rows
  <2> QED
    BY <2>1, <2>2, <2>3, <2>4 DEF Advance, Address, AdmitSubject, ExamineMembership,
       WriteMembership, TakeMembership, HideTeam, DeleteMembers, CreateTeam, ReadFirst,
       RenameTeam, SuspendAccount, rows
<1>4. Tabled'
  BY <1>1 DEF InvitationsIInv, Tabled, IInv, invitationVars
<1>5. Ordered'
  <2>1. \A r \in Requests : Spending(r) => AddressOf[exchanges[r].id] \in Users
    BY ParamAssumption, InvitationAssumption
       DEF InvitationsIInv, Ordered, ExchangesRely, Relies, Spending
  <2>2. SpendersAreNew'
    BY <1>3, <2>1 DEF InvitationsIInv, Ordered, SpendersAreNew, Spending, Registered,
       invitationVars
  <2> QED
    BY <2>2 DEF InvitationsIInv, Ordered, ExchangesRely, Relies, WritersDiffer, SpendersDiffer,
       Spending, invitationVars
<1> QED
  BY <1>1, <1>2, <1>3, <1>4, <1>5 DEF InvitationsIInv

\* A step on an invitation that leaves teams and accounts alone.
LEMMA ExchangesKeepInvitations ==
  ASSUME InvitationsIInv, UNCHANGED vars, Tabled', Ordered', \A i \in Ids : Ages(i)
  PROVE  InvitationsIInv'
<1>1. IInv'
  BY DEF InvitationsIInv, IInv, vars, rows, TypeOK, RequestsAreShaped, LocksAgree,
         PromisesHold, Promise, SuspendedIsOnNoTeam, TeamsOf
<1> QED
  BY <1>1, AgingKeepsPresent DEF InvitationsIInv

LEMMA InvitationsNextHolds ==
  ASSUME InvitationsIInv, [InvitationsNext]_allVars
  PROVE  InvitationsIInv'
<1>1. Tabled /\ Ordered
  BY DEF InvitationsIInv
<1>2. CASE UNCHANGED allVars
  <2>1. Tabled' /\ Ordered' /\ \A i \in Ids : Ages(i)
    BY <1>1, <1>2 DEF allVars, vars, rows, invitationVars, Tabled, TypeOK, Ordered,
       ExchangesRely, Relies, WritersDiffer, SpendersDiffer, SpendersAreNew, Spending,
       Registered, Ages
  <2> QED
    BY <1>2, <2>1, ExchangesKeepInvitations DEF allVars
<1>3. ASSUME NEW p \in Requests, UNCHANGED invitationVars,
             Call(p) \/ Advance(p) \/ AbortDeadlock(p) \/ Rollback(p)
      PROVE  InvitationsIInv'
  BY <1>3, TeamsKeepInvitations
<1>4. ASSUME NEW p \in Requests, UNCHANGED vars, Ask(p) \/ Proceed(p) \/ Abandon(p)
      PROVE  InvitationsIInv'
  <2>1. CASE Ask(p)
    BY <1>1, <1>4, <2>1, AskKeepsOrdered, ExchangesKeepInvitations DEF Ages
  <2>2. CASE Proceed(p)
    BY <1>1, <1>4, <2>2, ProceedKeepsOrdered, ExchangesKeepInvitations
  <2>3. CASE Abandon(p)
    BY <1>1, <1>4, <2>3, ClosingKeepsOrdered, ExchangesKeepInvitations DEF Abandon, Ages, Tabled
  <2> QED
    BY <1>4, <2>1, <2>2, <2>3
<1>5. ASSUME NEW i \in Ids, Expire(i), UNCHANGED vars
      PROVE  InvitationsIInv'
  BY <1>1, <1>5, ExpireKeepsOrdered, ExchangesKeepInvitations
<1>6. ASSUME NEW p \in Requests, AcceptInvitation(p), UNCHANGED work
      PROVE  InvitationsIInv'
  BY <1>6, AcceptKeepsTeams, AcceptKeepsOrdered, AcceptKeepsPresent DEF InvitationsIInv
<1> QED
  BY <1>2, <1>3, <1>4, <1>5, <1>6 DEF InvitationsNext, Step, Break

LEMMA InvitationsIInvHolds == InvitationsSpec => []InvitationsIInv
  BY InvitationsInitHolds, InvitationsNextHolds, PTL DEF InvitationsSpec

\* Whoever is switched off is on no team, acceptances of invitations included: an account
\* and its memberships appear together, and nobody can have suspended it before.
THEOREM SuspendedLeaveInvitedTeams == InvitationsSpec => []SuspendedIsOnNoTeam
<1>1. InvitationsIInv => SuspendedIsOnNoTeam
  BY DEF InvitationsIInv, IInv
<1> QED
  BY InvitationsIInvHolds, <1>1, PTL

\* The share lock of team.repository.ts shuts every addition by hand out of a team that is
\* being disbanded; who is left on it came by an invitation that named it.
THEOREM DisbandingLeavesInviteesOnly == InvitationsSpec => []OnlyInviteesOutliveATeam
<1>1. InvitationsIInv => OnlyInviteesOutliveATeam
  BY DEF InvitationsIInv, Present
<1> QED
  BY InvitationsIInvHolds, <1>1, PTL

\* Permission versions move with memberships and status, acceptances included: an account
\* that appears was not there to have a version.
THEOREM InvitedMembershipsAreCounted == InvitationsSpec => MembershipMovesTheVersion
<1>1. InvitationsIInv /\ [InvitationsNext]_allVars => [Follows]_vars
  <2> SUFFICES ASSUME InvitationsIInv, InvitationsNext, ~UNCHANGED vars
               PROVE  Follows
    BY DEF allVars
  <2>1. PICK p \in Requests :
          \/ Call(p) \/ Rollback(p) \/ Advance(p) \/ AbortDeadlock(p)
          \/ AcceptInvitation(p) /\ UNCHANGED work
    BY DEF InvitationsNext, Step, Break
  <2>2. IInv
    BY DEF InvitationsIInv
  <2>3. CASE Call(p) \/ Rollback(p) \/ AbortDeadlock(p)
    <3>1. UNCHANGED rows
      BY <2>3 DEF Call, Receive, AbortDeadlock, Rollback
    <3> QED
      BY <2>2, <3>1, NothingMoves DEF rows
  <2>4. CASE Advance(p)
    BY <2>2, <2>4, AdvanceFollows
  <2>5. CASE AcceptInvitation(p)
    <3> DEFINE u == AddressOf[exchanges[p].id]
    <3>1. /\ u \in Users /\ accounts[u].status = "absent"
          /\ \A v \in Users \ {u} : accounts'[v] = accounts[v]
          /\ \A t \in Teams, v \in Users : members'[t][v] # members[t][v] => v = u
      BY <2>5, Accepted
    <3>2. \A r \in Requests : LeaveTeams(r) \/ ReactivateAccount(r) =>
            accounts'[work[r].user].version # accounts[work[r].user].version
      BY <2>2, StatusChangesCount
    <3> QED
      BY <3>1, <3>2 DEF Follows
  <2> QED
    BY <2>1, <2>3, <2>4, <2>5
<1> QED
  BY InvitationsIInvHolds, <1>1, PTL DEF InvitationsSpec, MembershipMovesTheVersion, Follows

-----------------------------------------------------------------------------
(* An invitation is an offer.                                              *)

\* The state of the offer that an invitation is.
OfferOf(i) == CASE invitations[i].state = "unwritten" -> "unmade"
                [] invitations[i].state = "open" -> "standing"
                [] invitations[i].state = "accepted" -> "taken"
                [] invitations[i].state = "withdrawn" -> "withdrawn"

Offered == [i \in Ids |-> OfferOf(i)]

People == {u \in Users : accounts[u].status # "absent"}

\* The actions of Offers, as they read here.
LEMMA OffersMade ==
  ASSUME NEW o \in Ids, Offered[o] = "unmade", Offered' = [Offered EXCEPT ![o] = "standing"],
         People' = People
  PROVE  TheOffers!Next
<1>1. TheOffers!Without({}) = Offered
  BY DEF TheOffers!Without, Offered, OfferOf
<1>2. TheOffers!Make(o, {})
  BY <1>1 DEF TheOffers!Make, Offered, OfferOf, People
<1> QED
  BY <1>2 DEF TheOffers!Next

LEMMA OffersWithdrawn ==
  ASSUME NEW some \in SUBSET Ids, People' = People,
         Offered' = [o \in Ids |-> IF o \in some /\ Offered[o] = "standing"
                                   THEN "withdrawn" ELSE Offered[o]]
  PROVE  TheOffers!Next
<1>1. TheOffers!Without(some) = [o \in Ids |-> IF o \in some /\ Offered[o] = "standing"
                                               THEN "withdrawn" ELSE Offered[o]]
  BY DEF TheOffers!Without, Offered, OfferOf
<1>2. TheOffers!Withdraw(some)
  BY <1>1 DEF TheOffers!Withdraw, Offered, OfferOf, People
<1> QED
  BY <1>2 DEF TheOffers!Next

LEMMA OffersTaken ==
  ASSUME NEW o \in Ids, NEW u \in Users, Offered[o] = "standing", u \notin People,
         Offered' = [Offered EXCEPT ![o] = "taken"], People' = People \cup {u}
  PROVE  TheOffers!Next
<1>1. TheOffers!Without({}) = Offered
  BY DEF TheOffers!Without, Offered, OfferOf
<1>2. TheOffers!Take(o, u, {})
  BY <1>1 DEF TheOffers!Take, Offered, OfferOf, People
<1> QED
  BY <1>2 DEF TheOffers!Next

LEMMA OneOfferMoves ==
  ASSUME NEW i \in Ids,
         \A j \in Ids \ {i} : invitations'[j].state = invitations[j].state,
         \/ invitations[i].state = "unwritten" /\ invitations'[i].state = "open"
         \/ invitations[i].state = "open" /\ invitations'[i].state = "withdrawn"
         \/ invitations'[i].state = invitations[i].state,
         UNCHANGED accounts
  PROVE  TheOffers!Next
<1>1. \A j \in Ids : Offered[j] = OfferOf(j)
  BY DEF Offered
<1>2. Offered' = [j \in Ids |-> OfferOf(j)'] /\ Offered = [j \in Ids |-> OfferOf(j)]
  BY DEF Offered
<1>3. \A j \in Ids \ {i} : OfferOf(j)' = OfferOf(j)
  BY DEF OfferOf
<1>4. People' = People
  BY DEF People
<1>5. CASE invitations[i].state = "unwritten" /\ invitations'[i].state = "open"
  <2>1. OfferOf(i) = "unmade" /\ OfferOf(i)' = "standing"
    BY <1>5 DEF OfferOf
  <2>2. Offered' = [Offered EXCEPT ![i] = "standing"] /\ Offered[i] = "unmade"
    BY <1>1, <1>2, <1>3, <2>1
  <2> QED
    BY <1>4, <2>2, OffersMade
<1>6. CASE invitations[i].state = "open" /\ invitations'[i].state = "withdrawn"
  <2>1. OfferOf(i) = "standing" /\ OfferOf(i)' = "withdrawn"
    BY <1>6 DEF OfferOf
  <2>2. Offered' = [o \in Ids |-> IF o \in {i} /\ Offered[o] = "standing"
                                  THEN "withdrawn" ELSE Offered[o]]
    BY <1>1, <1>2, <1>3, <2>1
  <2>3. {i} \in SUBSET Ids
    OBVIOUS
  <2> QED
    BY <1>4, <2>2, <2>3, OffersWithdrawn
<1>7. CASE invitations'[i].state = invitations[i].state
  <2>1. OfferOf(i)' = OfferOf(i)
    BY <1>7 DEF OfferOf
  <2>2. Offered' = [o \in Ids |-> IF o \in {} /\ Offered[o] = "standing"
                                  THEN "withdrawn" ELSE Offered[o]]
    BY <1>1, <1>2, <1>3, <2>1
  <2>3. {} \in SUBSET Ids
    OBVIOUS
  <2> QED
    BY <1>4, <2>2, <2>3, OffersWithdrawn
<1> QED
  BY <1>5, <1>6, <1>7

LEMMA AcceptingTakes ==
  ASSUME InvitationsIInv, NEW p \in Requests, AcceptInvitation(p)
  PROVE  TheOffers!Next
<1> DEFINE x == exchanges[p]
           u == AddressOf[x.id]
<1>1. /\ x.id \in Ids /\ u \in Users
      /\ invitations[x.id].state = "open" /\ invitations'[x.id].state = "accepted"
      /\ \A i \in Ids \ {x.id} : invitations'[i] = invitations[i]
      /\ accounts[u].status = "absent" /\ accounts'[u].status = "ACTIVE"
      /\ \A v \in Users \ {u} : accounts'[v] = accounts[v]
  BY Accepted
<1>2. /\ \A j \in Ids : Offered[j] = OfferOf(j)
      /\ Offered' = [j \in Ids |-> OfferOf(j)'] /\ Offered = [j \in Ids |-> OfferOf(j)]
  BY DEF Offered
<1>3. \A j \in Ids \ {x.id} : OfferOf(j)' = OfferOf(j)
  BY <1>1 DEF OfferOf
<1>4. OfferOf(x.id) = "standing"
  BY <1>1 DEF OfferOf
<1>5. PICK i : i = x.id
  OBVIOUS
<1>6. OfferOf(i)' = "taken"
  BY <1>1, <1>5 DEF OfferOf
<1>7. PICK v : v = u
  OBVIOUS
<1>8. v \in Users /\ v \notin People /\ People' = People \cup {v}
  BY <1>1, <1>7 DEF People
<1>9. i \in Ids /\ Offered[i] = "standing" /\ Offered' = [Offered EXCEPT ![i] = "taken"]
  BY <1>1, <1>2, <1>3, <1>4, <1>5, <1>6
<1> QED
  BY <1>8, <1>9, OffersTaken

\* An invitation is an offer: accept-invitation.use-case.ts takes it at most once, only
\* while it stands, and an account comes with it; nothing else creates one.
THEOREM InvitationsImplementOffers == InvitationsSpec => ImplementsOffers
<1>1. InvitationsInit => TheOffers!Init
  BY DEF InvitationsInit, TheOffers!Init
<1>2. InvitationsIInv /\ [InvitationsNext]_allVars => [TheOffers!Next]_TheOffers!vars
  <2> SUFFICES ASSUME InvitationsIInv, [InvitationsNext]_allVars
               PROVE  TheOffers!Next \/ UNCHANGED TheOffers!vars
    OBVIOUS
  <2>1. CASE UNCHANGED <<invitations, accounts>>
    BY <2>1 DEF TheOffers!vars
  <2>2. ASSUME NEW p \in Requests, UNCHANGED invitationVars,
               Call(p) \/ Advance(p) \/ AbortDeadlock(p) \/ Rollback(p)
        PROVE  UNCHANGED TheOffers!vars
    <3>1. \A u \in Users : accounts[u].status = "absent" <=> accounts'[u].status = "absent"
      BY <2>2, TeamsKeepInvitations
    <3> QED
      BY <2>2, <3>1 DEF TheOffers!vars, invitationVars
  <2>3. ASSUME NEW p \in Requests, AcceptInvitation(p)
        PROVE  TheOffers!Next
    BY <2>3, AcceptingTakes
  <2>4. ASSUME NEW p \in Requests, Proceed(p), UNCHANGED vars, invitations' # invitations
        PROVE  TheOffers!Next
    <3>0. PICK i : i = exchanges[p].id
      OBVIOUS
    <3>1. CreateInvitation(p) \/ ResendInvitation(p) \/ RevokeInvitation(p)
      BY <2>4 DEF Proceed, ReadOffer, SpendInvitation, JoinTeams
    <3>2. i \in Ids /\ (CreateInvitation(p) => invitations[i].state = "unwritten")
      BY <3>0, <3>1 DEF InvitationsIInv, Ordered, ExchangesRely, Relies, CreateInvitation,
         ResendInvitation, RevokeInvitation, Exchanging
    <3>3. /\ \A j \in Ids \ {i} : invitations'[j].state = invitations[j].state
          /\ \/ invitations[i].state = "unwritten" /\ invitations'[i].state = "open"
             \/ invitations[i].state = "open" /\ invitations'[i].state = "withdrawn"
             \/ invitations'[i].state = invitations[i].state
      <4>1. CASE CreateInvitation(p)
        BY <4>1, <3>0, <3>2, <2>4 DEF InvitationsIInv, Tabled, CreateInvitation
      <4>2. CASE ResendInvitation(p)
        <5> DEFINE row == [invitations[i] EXCEPT !.link = invitations[i].link + 1,
                                                 !.inTime = TRUE]
        <5>1. row.state = invitations[i].state
          BY <3>2 DEF InvitationsIInv, Tabled, ARow
        <5>2. invitations' = [invitations EXCEPT ![i] = row]
          BY <4>2, <3>0, <2>4 DEF ResendInvitation
        <5> HIDE DEF row
        <5> QED
          BY <5>1, <5>2, <3>2 DEF InvitationsIInv, Tabled
      <4>3. CASE RevokeInvitation(p)
        <5>1. [invitations[i] EXCEPT !.state = "withdrawn"].state = "withdrawn"
          BY <3>2 DEF InvitationsIInv, Tabled, ARow
        <5>2. /\ invitations[i].state = "open"
              /\ invitations' = [invitations EXCEPT ![i].state = "withdrawn"]
          BY <4>3, <3>0, <2>4 DEF RevokeInvitation
        <5> QED
          BY <5>1, <5>2, <3>2 DEF InvitationsIInv, Tabled
      <4> QED
        BY <3>1, <4>1, <4>2, <4>3
    <3> QED
      BY <2>4, <3>2, <3>3, OneOfferMoves DEF vars, rows
  <2>5. ASSUME NEW i \in Ids, Expire(i), UNCHANGED vars
        PROVE  TheOffers!Next
    <3>1. \A j \in Ids : invitations'[j].state = invitations[j].state
      BY <2>5 DEF InvitationsIInv, Tabled, ARow, Expire
    <3> QED
      BY <2>5, <3>1, OneOfferMoves DEF vars, rows
  <2>6. ASSUME NEW p \in Requests, Ask(p) \/ Abandon(p)
        PROVE  UNCHANGED invitations
    BY <2>6 DEF Ask, Abandon, CheckAddress, ReadInvitation, ResolveLink
  <2> QED
    BY <2>1, <2>2, <2>3, <2>4, <2>5, <2>6
       DEF InvitationsNext, Step, Break, allVars, vars, rows, invitationVars
<1> QED
  BY InvitationsIInvHolds, <1>1, <1>2, PTL DEF InvitationsSpec, ImplementsOffers, TheOffers!Spec
=============================================================================
