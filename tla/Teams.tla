------------------------------- MODULE Teams -------------------------------
(***************************************************************************)
(* Teams, who is on them, and the accounts those memberships are about:    *)
(* creating, renaming and disbanding a team, adding and removing a member, *)
(* and the two operations on accounts that meet them, suspension (which    *)
(* takes a person off every team) and reactivation (which restores none).  *)
(*                                                                         *)
(* A request is a READ COMMITTED transaction.  Each step is one statement: *)
(* it waits until it can have the row locks it wants, keeps them until the *)
(* transaction ends, and its writes become visible when it commits.  Locks *)
(* taken in different orders can close a circle; the database then aborts  *)
(* one of the waiters.                                                     *)
(***************************************************************************)
EXTENDS Integers, FiniteSets

CONSTANTS
  Users,        \* accounts of one organization, present or yet to be created
  Newcomers,    \* those of them that do not exist at the start
  Teams,        \* ids of teams, present or yet to be created
  Standing,     \* those of them that exist at the start
  Slugs,        \* the short names teams compete for
  Requests,     \* requests the API serves at the same time
  Operations,   \* bound: the operations these requests may call
  VersionWrap,  \* bound: a version is kept modulo this; only equality is used
  None          \* a slot that is not used

ASSUME ParamAssumption ==
  /\ Newcomers \subseteq Users /\ Standing \subseteq Teams
  /\ Slugs # {}
  /\ Operations \subseteq {"add", "remove", "disband", "create", "rename",
                           "suspend", "reactivate"}
  /\ VersionWrap \in Nat \ {0, 1}
  /\ None \notin Users /\ None \notin Teams /\ None \notin Slugs

VARIABLES
  teams,     \* teams: whether the row is there, hidden, and its slug
  members,   \* team_members: the role each person has on each team
  accounts,  \* status and permissions_version of each account
  work       \* what each request in flight has done, read and locked

rows == <<teams, members, accounts>>
vars == <<rows, work>>

-----------------------------------------------------------------------------
TeamRoles == {"MEMBER", "LEAD"}

Team == [state : {"absent", "live", "disbanded"}, slug : Slugs \cup {None}]

Account == [status : {"absent", "ACTIVE", "SUSPENDED"}, version : 0 .. VersionWrap - 1]

Row == ({"team"} \X Teams) \cup ({"user"} \X Users) \cup ({"member"} \X Teams \X Users)

Lock == Row \X {"share", "own"}

Steps == {"idle", "received", "addressed", "joinable", "examined", "written",
          "hidden", "emptied", "read", "suspended"}

Task == [step : Steps, op : Operations \cup {None}, team : Teams \cup {None},
         user : Users \cup {None}, role : TeamRoles \cup {None},
         slug : Slugs \cup {None}, roster : SUBSET Users, locks : SUBSET Lock]

Idle == [step |-> "idle", op |-> None, team |-> None, user |-> None,
         role |-> None, slug |-> None, roster |-> {}, locks |-> {}]

TypeOK ==
  /\ teams \in [Teams -> Team]
  /\ members \in [Teams -> [Users -> TeamRoles \cup {"none"}]]
  /\ accounts \in [Users -> Account]
  /\ work \in [Requests -> Task]

-----------------------------------------------------------------------------
(* Rows, and the locks a statement takes on them.                          *)

Share(row) == <<row, "share">>
Own(row) == <<row, "own">>

TheTeam(t) == <<"team", t>>
TheUser(u) == <<"user", u>>
TheMembership(t, u) == <<"member", t, u>>

OnTeam(t) == {u \in Users : members[t][u] # "none"}

TeamsOf(u) == {t \in Teams : members[t][u] # "none"}

Compatible(wanted, held) ==
  wanted[1] # held[1] \/ (wanted[2] = "share" /\ held[2] = "share")

Doing(r, op, step) == work[r].op = op /\ work[r].step = step

\* The membership rows a statement finds in the table, to be owned.
Found(t, u) == IF members[t][u] = "none" THEN {} ELSE {Own(TheMembership(t, u))}

\* Mutant: the team is read without FOR SHARE.
TeamUnlocked(t) == {}

\* scope() reads under FOR SHARE, held to the end of the transaction.
TeamShared(t) == {Share(TheTeam(t))}

\* Mutant: the account is read without FOR SHARE.
SubjectUnlocked(u) == {}

\* subject() does the same for the account.
SubjectShared(u) == {Share(TheUser(u))}

\* The locks the next statement of a request needs, all of them at once.
Wants(r) ==
  LET q == work[r] IN
  CASE q.step = "received" /\ q.op \in {"add", "remove", "disband"} -> TeamShared(q.team)
    [] q.step = "addressed" /\ q.op = "add" -> SubjectShared(q.user)
    [] q.step = "addressed" /\ q.op = "disband" -> {Own(TheTeam(q.team))}
    [] q.step = "addressed" /\ q.op = "remove" -> Found(q.team, q.user)
    [] q.step = "joinable" -> Found(q.team, q.user)
    [] q.step = "examined" -> {Own(TheMembership(q.team, q.user))}
    [] q.step = "hidden" -> UNION {Found(q.team, u) : u \in Users}
    [] q.step = "suspended" -> UNION {Found(t, q.user) : t \in Teams}
    [] q.step \in {"written", "emptied"} -> {Own(TheUser(u)) : u \in q.roster}
    [] q.step = "read" /\ q.op = "rename" -> {Own(TheTeam(q.team))}
    [] q.step = "read" /\ q.op \in {"suspend", "reactivate"} -> {Own(TheUser(q.user))}
    [] OTHER -> {}

Blockers(r) ==
  {q \in Requests \ {r} :
     \E wanted \in Wants(r), held \in work[q].locks : ~Compatible(wanted, held)}

\* The request can have the locks its statement wants.
Granted(r) == Blockers(r) = {}

\* Everybody in the circle waits for somebody in it.
InDeadlock(r) ==
  \E circle \in SUBSET Requests :
     /\ r \in circle
     /\ \A q \in circle : /\ Blockers(q) \cap circle # {}
                          /\ \E p \in circle : q \in Blockers(p)

Become(r, q) == work' = [work EXCEPT ![r] = q]

Finish(r) == Become(r, Idle)

\* The next statement has run: its locks are kept until the end.
Reach(r, step) ==
  Become(r, [work[r] EXCEPT !.step = step, !.locks = work[r].locks \cup Wants(r)])

Bumped(account) == [account EXCEPT !.version = (account.version + 1) % VersionWrap]

Bump(users) == [u \in Users |-> IF u \in users THEN Bumped(accounts[u]) ELSE accounts[u]]

Init ==
  /\ teams = [t \in Teams |-> IF t \in Standing
                              THEN [state |-> "live", slug |-> CHOOSE s \in Slugs : TRUE]
                              ELSE [state |-> "absent", slug |-> None]]
  /\ members = [t \in Teams |-> [u \in Users |-> "none"]]
  /\ accounts = [u \in Users |-> [status |-> IF u \in Newcomers THEN "absent" ELSE "ACTIVE",
                                  version |-> 0]]
  /\ work = [r \in Requests |-> Idle]

-----------------------------------------------------------------------------
(* Adding and removing.                                                    *)

Receive(r, op, t, u, role, slug) ==
  /\ work[r].step = "idle"
  /\ Become(r, [Idle EXCEPT !.step = "received", !.op = op, !.team = t, !.user = u,
                            !.role = role, !.slug = slug])
  /\ UNCHANGED rows

\* scope: the team as a share lock finds it.
Address(r) ==
  LET q == work[r] IN
  /\ q.step = "received" /\ q.op \in {"add", "remove", "disband"}
  /\ Granted(r)
  /\ IF teams[q.team].state = "live" THEN Reach(r, "addressed") ELSE Finish(r)
  /\ UNCHANGED rows

\* subject: the account as a share lock finds it.
AdmitSubject(r) ==
  LET q == work[r] IN
  /\ Doing(r, "add", "addressed")
  /\ Granted(r)
  /\ IF accounts[q.user].status = "ACTIVE" THEN Reach(r, "joinable") ELSE Finish(r)
  /\ UNCHANGED rows

\* The membership under FOR UPDATE, if there is one.  The same role again ends here.
ExamineMembership(r) ==
  LET q == work[r] IN
  /\ Doing(r, "add", "joinable")
  /\ Granted(r)
  /\ IF members[q.team][q.user] = q.role THEN Finish(r) ELSE Reach(r, "examined")
  /\ UNCHANGED rows

\* The upsert: behind whoever is writing the same pair.
WriteMembership(r) ==
  /\ Doing(r, "add", "examined")
  /\ Granted(r)
  /\ Become(r, [work[r] EXCEPT !.step = "written", !.roster = {work[r].user},
                               !.locks = work[r].locks \cup Wants(r)])
  /\ UNCHANGED rows

AddMember(r) ==
  LET q == work[r] IN
  /\ Doing(r, "add", "written")
  /\ Granted(r)
  /\ members' = [members EXCEPT ![q.team][q.user] = q.role]
  /\ accounts' = Bump(q.roster)
  /\ Finish(r)
  /\ UNCHANGED teams

\* The delete; nothing to delete is a 404 and rolls back.
TakeMembership(r) ==
  LET q == work[r] IN
  /\ Doing(r, "remove", "addressed")
  /\ Granted(r)
  /\ IF members[q.team][q.user] = "none" THEN Finish(r)
     ELSE Become(r, [q EXCEPT !.step = "written", !.roster = {q.user},
                              !.locks = q.locks \cup Wants(r)])
  /\ UNCHANGED rows

\* Mutant: the version of the person stays.
RemoveMemberQuietly(r) ==
  LET q == work[r] IN
  /\ Doing(r, "remove", "written")
  /\ Granted(r)
  /\ members' = [members EXCEPT ![q.team][q.user] = "none"]
  /\ Finish(r)
  /\ UNCHANGED <<teams, accounts>>

RemoveMember(r) ==
  LET q == work[r] IN
  /\ Doing(r, "remove", "written")
  /\ Granted(r)
  /\ members' = [members EXCEPT ![q.team][q.user] = "none"]
  /\ accounts' = Bump(q.roster)
  /\ Finish(r)
  /\ UNCHANGED teams

-----------------------------------------------------------------------------
(* Disbanding.                                                             *)

\* UPDATE ... WHERE deleted_at IS NULL RETURNING name.
HideTeam(r) ==
  LET q == work[r] IN
  /\ Doing(r, "disband", "addressed")
  /\ Granted(r)
  /\ IF teams[q.team].state = "live" THEN Reach(r, "hidden") ELSE Finish(r)
  /\ UNCHANGED rows

\* DELETE ... RETURNING: the roster is the rows this statement found.
DeleteMembers(r) ==
  LET q == work[r] IN
  /\ Doing(r, "disband", "hidden")
  /\ Granted(r)
  /\ Become(r, [q EXCEPT !.step = "emptied", !.roster = OnTeam(q.team),
                         !.locks = q.locks \cup Wants(r)])
  /\ UNCHANGED rows

\* Only what the delete returned is gone, and only those versions move.
DisbandTeam(r) ==
  LET q == work[r] IN
  /\ Doing(r, "disband", "emptied")
  /\ Granted(r)
  /\ teams' = [teams EXCEPT ![q.team].state = "disbanded"]
  /\ members' = [members EXCEPT ![q.team] =
                    [u \in Users |-> IF u \in q.roster THEN "none" ELSE members[q.team][u]]]
  /\ accounts' = Bump(q.roster)
  /\ Finish(r)

-----------------------------------------------------------------------------
(* Creating and renaming.                                                  *)

\* uq_teams_org_slug is partial: a disbanded team does not hold its slug.
SlugFree(s, t) ==
  \A x \in Teams \ {t} : ~(teams[x].state = "live" /\ teams[x].slug = s)

\* Mutant: a conflict is tried again until the slug is free.
CreateWhenFree(r) ==
  LET q == work[r] IN
  /\ Doing(r, "create", "received")
  /\ teams[q.team].state = "absent" /\ SlugFree(q.slug, q.team)
  /\ teams' = [teams EXCEPT ![q.team] = [state |-> "live", slug |-> q.slug]]
  /\ Finish(r)
  /\ UNCHANGED <<members, accounts>>

\* The id is fresh; a slug that is taken is a conflict.
CreateTeam(r) ==
  LET q == work[r] IN
  /\ Doing(r, "create", "received")
  /\ IF teams[q.team].state = "absent" /\ SlugFree(q.slug, q.team)
     THEN teams' = [teams EXCEPT ![q.team] = [state |-> "live", slug |-> q.slug]]
     ELSE UNCHANGED teams
  /\ Finish(r)
  /\ UNCHANGED <<members, accounts>>

\* summary and byId: read without a lock, then decided.
ReadFirst(r) ==
  LET q == work[r] IN
  /\ q.step = "received" /\ q.op \in {"rename", "suspend", "reactivate"}
  /\ IF \/ q.op = "rename" /\ teams[q.team].state = "live"
        \/ q.op = "suspend" /\ accounts[q.user].status = "ACTIVE"
        \/ q.op = "reactivate" /\ accounts[q.user].status = "SUSPENDED"
     THEN Reach(r, "read") ELSE Finish(r)
  /\ UNCHANGED rows

\* updateMany WHERE deleted_at IS NULL: no row is a 404.
RenameTeam(r) ==
  LET q == work[r] IN
  /\ Doing(r, "rename", "read")
  /\ Granted(r)
  /\ IF teams[q.team].state = "live" /\ SlugFree(q.slug, q.team)
     THEN teams' = [teams EXCEPT ![q.team].slug = q.slug]
     ELSE UNCHANGED teams
  /\ Finish(r)
  /\ UNCHANGED <<members, accounts>>

-----------------------------------------------------------------------------
(* Suspending and reactivating the account of a member.                    *)

\* UPDATE users: status and version, before the memberships are deleted.
SuspendAccount(r) ==
  /\ Doing(r, "suspend", "read")
  /\ Granted(r)
  /\ Reach(r, "suspended")
  /\ UNCHANGED rows

\* DELETE FROM team_members of the person, wherever they are.
LeaveTeams(r) ==
  LET u == work[r].user IN
  /\ Doing(r, "suspend", "suspended")
  /\ Granted(r)
  /\ members' = [t \in Teams |-> [members[t] EXCEPT ![u] = "none"]]
  /\ accounts' = [accounts EXCEPT ![u] = [Bumped(accounts[u]) EXCEPT !.status = "SUSPENDED"]]
  /\ Finish(r)
  /\ UNCHANGED teams

\* Nothing but the status comes back.
ReactivateAccount(r) ==
  LET u == work[r].user IN
  /\ Doing(r, "reactivate", "read")
  /\ Granted(r)
  /\ accounts' = [accounts EXCEPT ![u] = [Bumped(accounts[u]) EXCEPT !.status = "ACTIVE"]]
  /\ Finish(r)
  /\ UNCHANGED <<teams, members>>

-----------------------------------------------------------------------------
\* The database aborts a transaction of a circle; nothing of it remains.
AbortDeadlock(r) ==
  /\ InDeadlock(r)
  /\ Finish(r)
  /\ UNCHANGED rows

\* The five-second ceiling, a lost connection, a crash.
Rollback(r) ==
  /\ work[r].step # "idle"
  /\ Finish(r)
  /\ UNCHANGED rows

Advance(r) ==
  \/ Address(r) \/ AdmitSubject(r) \/ ExamineMembership(r) \/ WriteMembership(r)
  \/ AddMember(r) \/ TakeMembership(r) \/ RemoveMember(r)
  \/ HideTeam(r) \/ DeleteMembers(r) \/ DisbandTeam(r)
  \/ CreateTeam(r) \/ ReadFirst(r) \/ RenameTeam(r)
  \/ SuspendAccount(r) \/ LeaveTeams(r) \/ ReactivateAccount(r)

\* What each operation is told: the parts it does not use are None.
Call(r) ==
  \E op \in Operations :
     \/ /\ op = "add"
        /\ \E t \in Teams, u \in Users, role \in TeamRoles : Receive(r, op, t, u, role, None)
     \/ /\ op = "remove"
        /\ \E t \in Teams, u \in Users : Receive(r, op, t, u, None, None)
     \/ /\ op = "disband"
        /\ \E t \in Teams : Receive(r, op, t, None, None, None)
     \/ /\ op \in {"create", "rename"}
        /\ \E t \in Teams, s \in Slugs : Receive(r, op, t, None, None, s)
     \/ /\ op \in {"suspend", "reactivate"}
        /\ \E u \in Users : Receive(r, op, None, u, None, None)

Next ==
  \E r \in Requests : Call(r) \/ Advance(r) \/ AbortDeadlock(r) \/ Rollback(r)

\* Waiters of a row are served in order, and a circle is always broken.
Fairness ==
  \A r \in Requests : SF_vars(Advance(r)) /\ WF_vars(AbortDeadlock(r))

Spec == Init /\ [][Next]_vars /\ Fairness

-----------------------------------------------------------------------------
(* What must hold.                                                         *)

\* Whoever is switched off is on no team: no addition that read them as active
\* lands after the suspension has emptied their memberships.
SuspendedIsOnNoTeam ==
  \A u \in Users : accounts[u].status # "ACTIVE" => TeamsOf(u) = {}

\* A disbanded team has nobody on it.
DisbandedTeamsAreEmpty ==
  \A t \in Teams : teams[t].state # "live" => OnTeam(t) = {}

\* A membership appears, changes or ends only together with the version of the
\* person it is about, and a version moves only with a membership or the status.
MembershipMovesTheVersion ==
  [][\A u \in Users :
       accounts[u].status # "absent" =>
         (accounts'[u].version # accounts[u].version <=>
            \/ \E t \in Teams : members'[t][u] # members[t][u]
            \/ accounts'[u].status # accounts[u].status
            \/ \E r \in Requests : work[r].user = u /\ (LeaveTeams(r) \/ ReactivateAccount(r)))]_vars

\* Every request ends, although two that share a row may both want it for
\* themselves.
RequestsEnd ==
  \A r \in Requests : work[r].step # "idle" ~> work[r].step = "idle"
=============================================================================
