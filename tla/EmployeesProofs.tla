-------------------------- MODULE EmployeesProofs ---------------------------
(***************************************************************************)
(* Theorems about Employees, for every number of people and edits: what    *)
(* the walk of write-employee-profile.use-case.ts achieves and what takes  *)
(* it away, and what the column list of the upsert achieves, however the   *)
(* edits overlap.                                                          *)
(***************************************************************************)
EXTENDS Employees, TLAPS

\* An edit under way is about somebody, and one that looks upwards appoints.
Addressed(q) ==
  /\ q.step \notin {"unsent", "done"} => q.subject \in People
  /\ q.step \in {"links", "climb"} => Appoints(q.patch)

Records == TypeOK /\ \A r \in Requests : Addressed(requests[r])

\* People who report to one another or to nobody, the proposed manager among them and
\* the subject not: what the walk is for.
Above(group, q) ==
  /\ q.subject \notin group /\ q.patch.manager \in group
  /\ \A p \in group : profiles[p].manager \in group \cup {None}

\* What the walk has met so far, except whom it is about.
Met(q) == q.seen \ {q.subject}

\* The walk is up to date, but for links that have been cut since, and has met all that
\* is between the proposed manager and where it stands.
Climbing(q) ==
  /\ \A p \in People : profiles[p].manager \in {q.links[p], None}
  /\ q.patch.manager \in Met(q) \cup {q.current}
  /\ \A p \in Met(q) : q.links[p] \in Met(q) \cup {q.current}
  /\ q.subject \in q.seen

\* While nobody overtakes an edit, what it has read of the chart goes on to be true.
Appointed(q) ==
  Appoints(q.patch) /\ ~q.overtaken =>
    /\ q.step = "climb" => Climbing(q)
    /\ q.step \in {"period", "write"} => \E group \in SUBSET People : Above(group, q)

IInv == Records /\ \A r \in Requests : Appointed(requests[r])

-----------------------------------------------------------------------------
(* Records.                                                                *)

LEMMA MergedIsProfile ==
  ASSUME NEW stored \in Profile, NEW patch \in Patch
  PROVE  /\ Merged(stored, patch) \in Profile
         /\ Merged(stored, patch).manager =
              IF patch.manager = Unset THEN stored.manager ELSE patch.manager
<1> DEFINE row == Merged(stored, patch)
<1>1. row = [manager |-> row.manager, hiredAt |-> row.hiredAt,
             terminatedAt |-> row.terminatedAt, skills |-> row.skills]
  BY DEF Merged, Fields
<1>2. /\ row.manager = IF patch.manager = Unset THEN stored.manager ELSE patch.manager
      /\ row.hiredAt = IF patch.hiredAt = Unset THEN stored.hiredAt ELSE patch.hiredAt
      /\ row.terminatedAt = IF patch.terminatedAt = Unset THEN stored.terminatedAt
                            ELSE patch.terminatedAt
      /\ row.skills = IF patch.skills = Unset THEN stored.skills ELSE patch.skills
  BY DEF Merged, Fields
<1>3. /\ row.manager \in People \cup {None} /\ row.hiredAt \in Date
      /\ row.terminatedAt \in Date /\ row.skills \in 0 .. 1
  BY <1>2 DEF Profile, Patch, Date
<1> HIDE DEF row
<1>4. row \in Profile
  BY <1>1, <1>3 DEF Profile
<1> QED
  BY <1>2, <1>4 DEF row

LEMMA NothingIsAPatch ==
  Nothing \in Patch /\ NoLinks \in [People -> People \cup {None}] /\ Unsent \in Request
<1>1. Nothing \in Patch
  BY DEF Nothing, Patch
<1>2. NoLinks \in [People -> People \cup {None}]
  BY DEF NoLinks
<1> QED
  BY <1>1, <1>2 DEF Unsent, Request, Callers

\* An answer closes a request; what is kept of it cannot appoint anybody.
LEMMA AnsweredIsTyped ==
  ASSUME NEW q \in Request, NEW answer \in {"saved", "denied", "cycle", "inverted", "failed"}
  PROVE  /\ Answered(q, answer) \in Request
         /\ Answered(q, answer).step = "done" /\ Answered(q, answer).answer = answer
<1> DEFINE kept == IF q.as = "clerk" /\ TouchesDates(q.patch)
                   THEN [Unsent EXCEPT !.as = q.as, !.patch = q.patch] ELSE Unsent
           x == [kept EXCEPT !.step = "done", !.answer = answer]
<1>1. [Unsent EXCEPT !.as = q.as, !.patch = q.patch] \in Request
  BY NothingIsAPatch DEF Request
<1>2. kept \in Request
  BY <1>1, NothingIsAPatch
<1>3. Answered(q, answer) = x
  BY DEF Answered
<1> HIDE DEF kept
<1>4. x \in Request /\ x.step = "done" /\ x.answer = answer
  BY <1>2 DEF Request
<1> QED
  BY <1>3, <1>4

LEMMA AnswersAreTyped ==
  ASSUME TypeOK, NEW r \in Requests,
         NEW answer \in {"saved", "denied", "cycle", "inverted", "failed"}, Answer(r, answer)
  PROVE  /\ requests' \in [Requests -> Request]
         /\ requests'[r].step = "done" /\ requests'[r].answer = answer
         /\ \A s \in Requests \ {r} : requests'[s] = requests[s]
<1> DEFINE x == Answered(requests[r], answer)
<1>1. x \in Request /\ x.step = "done" /\ x.answer = answer
  BY AnsweredIsTyped DEF TypeOK
<1>2. requests' = [requests EXCEPT ![r] = x]
  BY DEF Answer, Become
<1> HIDE DEF x
<1> QED
  BY <1>1, <1>2 DEF TypeOK

LEMMA OvertakenIsAsBefore ==
  ASSUME NEW q \in Request
  PROVE  LET x == [q EXCEPT !.overtaken = TRUE] IN
         /\ x \in Request /\ x.overtaken
         /\ x.step = q.step /\ x.as = q.as /\ x.subject = q.subject
         /\ x.patch = q.patch /\ x.current = q.current /\ x.answer = q.answer
  BY DEF Request

\* A save answers one edit, and marks those it overtakes.
LEMMA SavesAreTyped ==
  ASSUME TypeOK, NEW r \in Requests, NEW linked \in BOOLEAN, Save(r, linked)
  PROVE  /\ requests' \in [Requests -> Request]
         /\ requests'[r] = Answered(requests[r], "saved")
         /\ requests'[r].step = "done" /\ requests'[r].answer = "saved"
         /\ \A s \in Requests \ {r} :
              requests'[s] = IF linked /\ ReadTheChart(requests[s])
                             THEN [requests[s] EXCEPT !.overtaken = TRUE] ELSE requests[s]
<1>1. /\ Answered(requests[r], "saved") \in Request
      /\ Answered(requests[r], "saved").step = "done"
      /\ Answered(requests[r], "saved").answer = "saved"
  BY AnsweredIsTyped DEF TypeOK
<1>2. \A s \in Requests : [requests[s] EXCEPT !.overtaken = TRUE] \in Request
  BY OvertakenIsAsBefore DEF TypeOK
<1> QED
  BY <1>1, <1>2 DEF Save, TypeOK

LEMMA SavesAreAddressed ==
  ASSUME Records, NEW r \in Requests, NEW linked \in BOOLEAN, Save(r, linked),
         NEW s \in Requests
  PROVE  Addressed(requests'[s])
<1>1. requests[s] \in Request /\ Addressed(requests[s]) /\ TypeOK
  BY DEF Records, TypeOK
<1>2. CASE s = r
  <2>1. requests'[s].step = "done"
    BY <1>1, <1>2, SavesAreTyped
  <2> QED
    BY <2>1 DEF Addressed
<1>3. CASE s # r
  <2> DEFINE x == [requests[s] EXCEPT !.overtaken = TRUE]
  <2>1. requests'[s] = x \/ requests'[s] = requests[s]
    BY <1>1, <1>3, SavesAreTyped
  <2>2. x.step = requests[s].step /\ x.subject = requests[s].subject /\ x.patch = requests[s].patch
    BY <1>1, OvertakenIsAsBefore
  <2> HIDE DEF x
  <2> QED
    BY <1>1, <2>1, <2>2 DEF Addressed
<1> QED
  BY <1>2, <1>3

\* A request moves on and the records stay: what the others rely on is untouched.
LEMMA MovingKeepsIInv ==
  ASSUME IInv, UNCHANGED <<profiles, filled, suspended>>, NEW r \in Requests,
         requests' \in [Requests -> Request],
         \A s \in Requests \ {r} : requests'[s] = requests[s],
         Addressed(requests'[r]), Appointed(requests'[r])
  PROVE  IInv'
<1>1. TypeOK'
  BY DEF IInv, Records, TypeOK
<1>2. Records'
  BY <1>1 DEF IInv, Records, Addressed
<1>3. \A s \in Requests : Appointed(requests[s])'
  BY DEF IInv, Appointed, Climbing, Above, Met
<1> QED
  BY <1>2, <1>3 DEF IInv

LEMMA AnsweringKeepsIInv ==
  ASSUME IInv, UNCHANGED <<profiles, filled, suspended>>, NEW r \in Requests,
         NEW answer \in {"saved", "denied", "cycle", "inverted", "failed"}, Answer(r, answer)
  PROVE  IInv'
<1>1. /\ requests' \in [Requests -> Request]
      /\ requests'[r].step = "done"
      /\ \A s \in Requests \ {r} : requests'[s] = requests[s]
  BY AnswersAreTyped DEF IInv, Records
<1>2. Addressed(requests'[r]) /\ Appointed(requests'[r])
  BY <1>1 DEF Addressed, Appointed
<1> QED
  BY <1>1, <1>2, MovingKeepsIInv

LEMMA BecomingKeepsIInv ==
  ASSUME IInv, UNCHANGED <<profiles, filled, suspended>>, NEW r \in Requests,
         NEW x \in Request, Become(r, x), Addressed(x), Appointed(x)
  PROVE  IInv'
<1>1. /\ requests' \in [Requests -> Request] /\ requests'[r] = x
      /\ \A s \in Requests \ {r} : requests'[s] = requests[s]
  BY DEF IInv, Records, TypeOK, Become
<1> QED
  BY <1>1, MovingKeepsIInv

-----------------------------------------------------------------------------
(* The steps of an edit.                                                   *)

LEMMA ReceiveKeepsIInv ==
  ASSUME IInv, NEW r \in Requests, NEW as \in Callers, NEW p \in People,
         NEW patch \in Edits, Receive(r, as, p, patch)
  PROVE  IInv'
<1> DEFINE sent == [Unsent EXCEPT !.as = as, !.subject = p, !.patch = patch]
           refused == [Unsent EXCEPT !.step = "done", !.answer = "denied"]
           step == IF Appoints(patch) THEN "links" ELSE "period"
           x == [sent EXCEPT !.step = step]
<1>1. patch \in Patch
  BY EmployeesAssumption
<1>2. CASE ~CanEdit(as, patch)
  <2>1. refused \in Request /\ refused.step = "done"
    BY NothingIsAPatch DEF Request
  <2>2. Become(r, refused)
    BY <1>2 DEF Receive
  <2> HIDE DEF refused
  <2> QED
    BY <2>1, <2>2, BecomingKeepsIInv DEF Receive, Addressed, Appointed
<1>3. CASE CanEdit(as, patch)
  <2>1. sent \in Request /\ sent.subject = p /\ sent.patch = patch
    BY <1>1, NothingIsAPatch DEF Request
  <2>2. Become(r, x)
    BY <1>3 DEF Receive
  <2> HIDE DEF sent
  <2>3. /\ x \in Request /\ x.subject = p /\ x.patch = patch
        /\ x.step = IF Appoints(patch) THEN "links" ELSE "period"
    BY <2>1 DEF Request
  <2> HIDE DEF x
  <2>4. Addressed(x) /\ Appointed(x)
    BY <2>3 DEF Addressed, Appointed
  <2> QED
    BY <2>2, <2>3, <2>4, BecomingKeepsIInv DEF Receive
<1> QED
  BY <1>2, <1>3

LEMMA ReadLinksKeepsIInv ==
  ASSUME IInv, NEW r \in Requests, ReadLinks(r)
  PROVE  IInv'
<1> DEFINE q == requests[r]
           now == [p \in People |-> profiles[p].manager]
           x == [q EXCEPT !.step = "climb", !.links = now, !.current = q.patch.manager,
                          !.seen = {q.subject}]
<1>1. /\ q \in Request /\ q.step = "links" /\ q.subject \in People /\ Appoints(q.patch)
      /\ profiles \in [People -> Profile]
  BY DEF IInv, Records, TypeOK, Addressed, ReadLinks
<1>2. now \in [People -> People \cup {None}]
  BY <1>1 DEF Profile
<1>3. q.patch.manager \in People
  BY <1>1 DEF Request, Patch, Appoints
<1>4. Become(r, x)
  BY DEF ReadLinks
<1>5. \A p \in People : now[p] = profiles[p].manager
  OBVIOUS
<1> HIDE DEF now
<1>6. x \in Request
  BY <1>1, <1>2, <1>3 DEF Request
<1>7. /\ x.step = "climb" /\ x.links = now /\ x.current = q.patch.manager /\ x.seen = {q.subject}
      /\ x.subject = q.subject /\ x.patch = q.patch
  BY <1>1 DEF Request
<1> HIDE DEF x
<1>8. Climbing(x)
  BY <1>5, <1>7 DEF Climbing, Met
<1>9. Addressed(x) /\ Appointed(x)
  BY <1>1, <1>7, <1>8 DEF Addressed, Appointed
<1> QED
  BY <1>4, <1>6, <1>9, BecomingKeepsIInv DEF ReadLinks

\* At the end of the walk, what it has met is closed upwards.
LEMMA ClimbKeepsIInv ==
  ASSUME IInv, NEW r \in Requests, Climb(r)
  PROVE  IInv'
<1> DEFINE q == requests[r]
<1>1. /\ q \in Request /\ q.step = "climb" /\ q.subject \in People /\ Appoints(q.patch)
      /\ q.overtaken \/ Climbing(q)
  BY DEF IInv, Records, TypeOK, Addressed, Appointed, Climb
<1>2. q.patch.manager \in People /\ Met(q) \subseteq People
  BY <1>1 DEF Request, Patch, Appoints, Met
<1>4. CASE q.current = q.subject
  BY <1>4, AnsweringKeepsIInv DEF Climb
<1>5. CASE q.current # q.subject /\ (q.current = None \/ q.current \in q.seen)
  <2> DEFINE x == [q EXCEPT !.step = "period", !.links = NoLinks, !.current = None, !.seen = {}]
  <2>1. Become(r, x)
    BY <1>5 DEF Climb
  <2>2. /\ x \in Request /\ x.step = "period" /\ x.subject = q.subject /\ x.patch = q.patch
        /\ x.overtaken = q.overtaken
    BY <1>1, NothingIsAPatch DEF Request
  <2> HIDE DEF x
  <2>3. q.current \in Met(q) \cup {None}
    BY <1>5 DEF Met
  <2>4. ~q.overtaken => Above(Met(q), x)
    <3> SUFFICES ASSUME ~q.overtaken PROVE Above(Met(q), x)
      OBVIOUS
    <3>1. q.patch.manager # None
      BY <1>1 DEF Appoints
    <3>2. \A p \in Met(q) : profiles[p].manager \in Met(q) \cup {None}
      BY <1>1, <1>2, <2>3 DEF Climbing
    <3> QED
      BY <1>1, <2>2, <2>3, <3>1, <3>2 DEF Above, Climbing, Met
  <2>5. Addressed(x) /\ Appointed(x)
    BY <1>1, <1>2, <2>2, <2>4 DEF Addressed, Appointed
  <2> QED
    BY <2>1, <2>2, <2>5, BecomingKeepsIInv DEF Climb
<1>6. CASE q.current # q.subject /\ q.current # None /\ q.current \notin q.seen
  <2> DEFINE x == [q EXCEPT !.seen = q.seen \cup {q.current}, !.current = q.links[q.current]]
  <2>1. Become(r, x)
    BY <1>6 DEF Climb
  <2>2. q.current \in People /\ q.links[q.current] \in People \cup {None}
    BY <1>1, <1>6 DEF Request
  <2>3. /\ x \in Request /\ x.step = "climb" /\ x.subject = q.subject /\ x.patch = q.patch
        /\ x.links = q.links /\ x.current = q.links[q.current]
        /\ x.seen = q.seen \cup {q.current} /\ x.overtaken = q.overtaken
    BY <1>1, <2>2 DEF Request
  <2> HIDE DEF x
  <2>4. Met(x) = Met(q) \cup {q.current}
    BY <1>6, <2>3 DEF Met
  <2>5. x.overtaken \/ Climbing(x)
    BY <1>1, <2>3, <2>4 DEF Climbing
  <2>6. Addressed(x) /\ Appointed(x)
    BY <1>1, <2>3, <2>5 DEF Addressed, Appointed
  <2> QED
    BY <2>1, <2>3, <2>6, BecomingKeepsIInv DEF Climb
<1> QED
  BY <1>4, <1>5, <1>6

LEMMA CheckPeriodKeepsIInv ==
  ASSUME IInv, NEW r \in Requests, CheckPeriod(r)
  PROVE  IInv'
<1> DEFINE q == requests[r]
           x == [q EXCEPT !.step = "write"]
<1>1. /\ q \in Request /\ q.step = "period" /\ q.subject \in People /\ Appointed(q)
  BY DEF IInv, Records, TypeOK, Addressed, CheckPeriod
<1>2. Answer(r, "inverted") \/ Become(r, x)
  BY DEF CheckPeriod
<1>3. /\ x \in Request /\ x.step = "write" /\ x.subject = q.subject /\ x.patch = q.patch
      /\ x.overtaken = q.overtaken
  BY <1>1 DEF Request
<1> HIDE DEF x
<1>4. Addressed(x) /\ Appointed(x)
  BY <1>1, <1>3 DEF Addressed, Appointed, Above
<1> QED
  BY <1>2, <1>3, <1>4, AnsweringKeepsIInv, BecomingKeepsIInv DEF CheckPeriod

-----------------------------------------------------------------------------
(* Writing.                                                                *)

\* Somebody who is put below a group that reports to itself or to nobody, and is not of
\* it, closes no loop.
LEMMA PlacingClosesNoLoop ==
  ASSUME TypeOK, ChartHasNoLoop, NEW p \in People, NEW boss \in People \cup {None},
         boss = None \/ \E group \in SUBSET People :
                          /\ p \notin group /\ boss \in group
                          /\ \A m \in group : profiles[m].manager \in group \cup {None},
         profiles'[p].manager = boss,
         \A m \in People \ {p} : profiles'[m].manager = profiles[m].manager
  PROVE  ChartHasNoLoop'
<1> SUFFICES ASSUME NEW loop \in (SUBSET People) \ {{}}
             PROVE  \E m \in loop : profiles'[m].manager \notin loop
  BY DEF ChartHasNoLoop
<1>1. None \notin People
  BY EmployeesAssumption
<1>2. CASE p \notin loop
  <2>1. PICK m \in loop : profiles[m].manager \notin loop
    BY DEF ChartHasNoLoop
  <2> QED
    BY <1>2, <2>1
<1>3. CASE p \in loop /\ boss = None
  BY <1>1, <1>3
<1>4. CASE p \in loop /\ boss # None
  <2>1. PICK group \in SUBSET People :
          /\ p \notin group /\ boss \in group
          /\ \A m \in group : profiles[m].manager \in group \cup {None}
    BY <1>4
  <2>2. CASE loop \cap group = {}
    BY <1>4, <2>1, <2>2
  <2>3. CASE loop \cap group # {}
    <3>1. loop \cap group \in (SUBSET People) \ {{}}
      BY <2>3
    <3>2. PICK m \in loop \cap group : profiles[m].manager \notin loop \cap group
      BY <3>1 DEF ChartHasNoLoop
    <3>3. profiles[m].manager \notin loop
      BY <1>1, <2>1, <3>2
    <3> QED
      BY <2>1, <3>2, <3>3
  <2> QED
    BY <2>2, <2>3
<1> QED
  BY <1>2, <1>3, <1>4

\* A write that makes a link overtakes whoever has read the chart; one that makes none
\* leaves every walk right.
LEMMA UpsertKeepsIInv ==
  ASSUME IInv, NEW r \in Requests, Upsert(r)
  PROVE  IInv'
<1> DEFINE q == requests[r]
           row == Merged(profiles[q.subject], q.patch)
           linked == Linked(q.subject, row)
<1>1. /\ q \in Request /\ q.step = "write" /\ q.subject \in People
      /\ TypeOK /\ profiles \in [People -> Profile]
  BY DEF IInv, Records, TypeOK, Addressed, Upsert
<1>2. CASE Answer(r, "failed") /\ UNCHANGED <<profiles, filled, suspended>>
  BY <1>2, AnsweringKeepsIInv
<1>3. CASE /\ profiles' = [profiles EXCEPT ![q.subject] = row]
           /\ filled' = filled \cup {q.subject}
           /\ UNCHANGED suspended
           /\ Save(r, linked)
  <2>1. row \in Profile
    BY <1>1, MergedIsProfile DEF Request
  <2>2. linked \in BOOLEAN /\ (~linked => row.manager \in {profiles[q.subject].manager, None})
    BY DEF Linked
  <2> HIDE DEF row, linked
  <2>3. /\ profiles' \in [People -> Profile] /\ profiles'[q.subject] = row
        /\ \A p \in People \ {q.subject} : profiles'[p] = profiles[p]
    BY <1>1, <1>3, <2>1
  <2>4. /\ requests' \in [Requests -> Request]
        /\ requests'[r].step = "done"
        /\ \A s \in Requests \ {r} :
             requests'[s] = IF linked /\ ReadTheChart(requests[s])
                            THEN [requests[s] EXCEPT !.overtaken = TRUE] ELSE requests[s]
    BY <1>1, <1>3, <2>2, SavesAreTyped
  <2>5. \A s \in Requests : Addressed(requests'[s])
    BY <1>3, <2>2, SavesAreAddressed DEF IInv
  <2>6. Records'
    BY <1>3, <2>3, <2>4, <2>5 DEF IInv, Records, TypeOK, Addressed
  <2>7. ASSUME NEW s \in Requests
        PROVE  Appointed(requests[s])'
    <3> DEFINE x == requests[s]
    <3>1. x \in Request /\ Appointed(x)
      BY <1>1 DEF IInv, TypeOK
    <3>2. CASE s = r
      BY <3>2, <2>4 DEF Appointed
    <3>3. CASE s # r /\ linked /\ ReadTheChart(x)
      BY <2>4, <3>1, <3>3, OvertakenIsAsBefore DEF Appointed
    <3>4. CASE s # r /\ ~ReadTheChart(x)
      BY <2>4, <3>4 DEF Appointed, ReadTheChart
    <3>5. CASE s # r /\ ~linked
      <4>1. x' = x
        BY <2>4, <3>5
      <4>2. \A p \in People : profiles'[p].manager \in {profiles[p].manager, None}
        BY <2>2, <2>3, <3>5
      <4>3. \A y, group : group \subseteq People /\ Above(group, y) => Above(group, y)'
        BY <4>2 DEF Above
      <4>4. Climbing(x) => Climbing(x)'
        BY <4>1, <4>2 DEF Climbing, Met
      <4> QED
        BY <3>1, <4>1, <4>3, <4>4, <4>2 DEF Appointed, Above
    <3> QED
      BY <3>2, <3>3, <3>4, <3>5
  <2> QED
    BY <2>6, <2>7 DEF IInv
<1> QED
  BY <1>2, <1>3 DEF Upsert

\* An edit nobody has overtaken closes no loop.
LEMMA UpsertClosesNoLoop ==
  ASSUME IInv, ChartHasNoLoop, NEW r \in Requests, Upsert(r), ~requests[r].overtaken
  PROVE  ChartHasNoLoop'
<1> DEFINE q == requests[r]
           row == Merged(profiles[q.subject], q.patch)
<1>1. /\ q \in Request /\ q.step = "write" /\ q.subject \in People /\ Appointed(q)
      /\ TypeOK /\ profiles \in [People -> Profile]
  BY DEF IInv, Records, TypeOK, Addressed, Upsert
<1>2. CASE UNCHANGED profiles
  BY <1>2 DEF ChartHasNoLoop
<1>3. CASE profiles' = [profiles EXCEPT ![q.subject] = row]
  <2>1. /\ row \in Profile
        /\ row.manager = IF q.patch.manager = Unset THEN profiles[q.subject].manager
                         ELSE q.patch.manager
    BY <1>1, MergedIsProfile DEF Request
  <2> HIDE DEF row
  <2>2. /\ profiles'[q.subject] = row
        /\ \A p \in People \ {q.subject} : profiles'[p] = profiles[p]
    BY <1>1, <1>3, <2>1
  <2>3. CASE Appoints(q.patch)
    <3>1. PICK group \in SUBSET People : Above(group, q)
      BY <1>1, <2>3 DEF Appointed
    <3>2. row.manager = q.patch.manager /\ q.patch.manager \in People
      BY <1>1, <2>1, <2>3 DEF Appoints, Request, Patch
    <3> QED
      BY <1>1, <2>2, <3>1, <3>2, PlacingClosesNoLoop DEF Above
  <2>4. CASE q.patch.manager = Unset
    BY <2>1, <2>2, <2>4, <1>1 DEF ChartHasNoLoop
  <2>5. CASE q.patch.manager = None /\ q.patch.manager # Unset
    BY <1>1, <2>1, <2>2, <2>5, PlacingClosesNoLoop
  <2> QED
    BY <2>3, <2>4, <2>5 DEF Appoints
<1> QED
  BY <1>2, <1>3 DEF Upsert

-----------------------------------------------------------------------------
(* Offboarding.                                                            *)

\* Only the end of the employment moves.
LEMMA EndingIsTyped ==
  ASSUME NEW row \in Profile, NEW day \in Date
  PROVE  /\ [row EXCEPT !.terminatedAt = day] \in Profile
         /\ \A f \in Fields \ {"terminatedAt"} : [row EXCEPT !.terminatedAt = day][f] = row[f]
  BY DEF Profile, Fields

LEMMA EndingKeepsIInv ==
  ASSUME IInv, UNCHANGED <<filled, requests>>, NEW p \in People, NEW day \in Date,
         profiles' \in {profiles, [profiles EXCEPT ![p].terminatedAt = day]},
         suspended' \subseteq People
  PROVE  IInv'
<1> DEFINE row == [profiles[p] EXCEPT !.terminatedAt = day]
<1>1. row \in Profile /\ row.manager = profiles[p].manager
  BY EndingIsTyped DEF IInv, Records, TypeOK, Fields
<1>2. profiles' = profiles \/ profiles' = [profiles EXCEPT ![p] = row]
  OBVIOUS
<1> HIDE DEF row
<1>3. /\ profiles' \in [People -> Profile]
      /\ \A m \in People : profiles'[m].manager = profiles[m].manager
  BY <1>1, <1>2 DEF IInv, Records, TypeOK
<1>4. Records'
  BY <1>3 DEF IInv, Records, TypeOK, Addressed
<1>5. \A r \in Requests : Appointed(requests[r])'
  <2>1. \A y, group : group \subseteq People /\ Above(group, y) => Above(group, y)'
    BY <1>3 DEF Above
  <2>2. \A y : Climbing(y) => Climbing(y)'
    BY <1>3 DEF Climbing, Met
  <2> QED
    BY <2>1, <2>2 DEF IInv, Appointed
<1> QED
  BY <1>4, <1>5 DEF IInv

LEMMA InitHolds == Init => IInv
<1> SUFFICES ASSUME Init
             PROVE  IInv
  OBVIOUS
<1>1. EmptyProfile \in Profile /\ EmptyProfile.manager = None
  BY DEF EmptyProfile, Profile, Date
<1>2. Unsent.step = "unsent" /\ Unsent \in Request
  BY NothingIsAPatch DEF Unsent
<1>3. Records
  BY <1>1, <1>2 DEF Init, Records, TypeOK, Addressed
<1>4. \A r \in Requests : Appointed(requests[r])
  BY <1>2 DEF Init, Appointed
<1> QED
  BY <1>3, <1>4 DEF IInv

LEMMA NextKeepsIInv ==
  ASSUME IInv, [Next]_vars
  PROVE  IInv'
<1>1. CASE UNCHANGED vars
  BY <1>1 DEF vars, IInv, Records, TypeOK, Addressed, Appointed, Climbing, Above,
     Met
<1>2. ASSUME NEW r \in Requests, Serve(r)
      PROVE  IInv'
  BY <1>2, ReceiveKeepsIInv, ReadLinksKeepsIInv, ClimbKeepsIInv, CheckPeriodKeepsIInv,
     UpsertKeepsIInv DEF Serve
<1>3. ASSUME NEW p \in People, Suspend(p)
      PROVE  IInv'
  <2>1. Today \in Date
    BY EmployeesAssumption DEF Date
  <2>2. profiles' \in {profiles, [profiles EXCEPT ![p].terminatedAt = Today]}
    BY <1>3 DEF Suspend
  <2>3. suspended' \subseteq People
    BY <1>3 DEF Suspend, IInv, Records, TypeOK
  <2> QED
    BY <1>3, <2>1, <2>2, <2>3, EndingKeepsIInv DEF Suspend
<1>4. ASSUME NEW p \in People, Reactivate(p)
      PROVE  IInv'
  <2>1. None \in Date
    BY DEF Date
  <2>2. suspended' \subseteq People
    BY <1>4 DEF Reactivate, IInv, Records, TypeOK
  <2> QED
    BY <1>4, <2>1, <2>2, EndingKeepsIInv DEF Reactivate
<1> QED
  BY <1>1, <1>2, <1>3, <1>4 DEF Next

\* Offboarding and its undoing move the end of the employment and no manager.
LEMMA EndingClosesNoLoop ==
  ASSUME Records, ChartHasNoLoop, NEW p \in People, Suspend(p) \/ Reactivate(p)
  PROVE  ChartHasNoLoop'
<1>1. PICK day \in Date : profiles' \in {profiles, [profiles EXCEPT ![p].terminatedAt = day]}
  BY EmployeesAssumption DEF Suspend, Reactivate, Date
<1> DEFINE row == [profiles[p] EXCEPT !.terminatedAt = day]
<1>2. row.manager = profiles[p].manager
  BY EndingIsTyped DEF Records, TypeOK, Fields
<1>3. profiles' = profiles \/ profiles' = [profiles EXCEPT ![p] = row]
  BY <1>1
<1> HIDE DEF row
<1>4. \A m \in People : profiles'[m].manager = profiles[m].manager
  BY <1>2, <1>3 DEF Records, TypeOK
<1> QED
  BY <1>4 DEF ChartHasNoLoop

\* The walk of closesManagerCycle keeps the reporting line free of loops but for one kind of
\* edit: the one between whose reading of the chart and whose write another edit has put
\* somebody below a manager.  Clearing a manager, offboarding and edits of other columns
\* may overlap with it freely.
THEOREM OnlyOvertakenEditsCloseALoop == Spec => LoopsNeedAnOvertaking
<1> DEFINE Closed ==
      ChartHasNoLoop /\ ~ChartHasNoLoop' =>
        \E r \in Requests : /\ requests[r].step = "write" /\ requests[r].overtaken
                            /\ requests'[r].answer = "saved"
<1>1. IInv /\ [Next]_vars => [Closed]_vars
  <2> SUFFICES ASSUME IInv, Next, ChartHasNoLoop, ~ChartHasNoLoop'
               PROVE  \E r \in Requests : /\ requests[r].step = "write" /\ requests[r].overtaken
                                          /\ requests'[r].answer = "saved"
    OBVIOUS
  <2>1. profiles' # profiles
    BY DEF ChartHasNoLoop
  <2>2. ~\E p \in People : Suspend(p) \/ Reactivate(p)
    BY EndingClosesNoLoop DEF IInv
  <2>3. PICK r \in Requests : Upsert(r)
    BY <2>1, <2>2 DEF Next, Serve, Receive, ReadLinks, Climb, CheckPeriod
  <2>4. requests[r].step = "write" /\ requests[r].overtaken
    BY <2>3, UpsertClosesNoLoop DEF Upsert, IInv, Records, TypeOK, Request
  <2>5. PICK linked \in BOOLEAN : Save(r, linked)
    BY <2>1, <2>3 DEF Upsert, Linked
  <2>6. requests'[r].answer = "saved"
    BY <2>5, SavesAreTyped DEF IInv, Records
  <2> QED
    BY <2>4, <2>6
<1>2. Spec => []IInv
  BY InitHolds, NextKeepsIInv, PTL DEF Spec
<1> QED
  BY <1>1, <1>2, PTL DEF Spec, LoopsNeedAnOvertaking

-----------------------------------------------------------------------------
(* The records and their columns.                                          *)

\* What an edit becomes, whatever it does.
LEMMA ServeKeepsRequests ==
  ASSUME Records, NEW r \in Requests, Serve(r)
  PROVE  /\ requests' \in [Requests -> Request]
         /\ \A s \in Requests : Addressed(requests'[s])
<1> DEFINE q == requests[r]
<1>1. /\ q \in Request /\ Addressed(q) /\ TypeOK
      /\ \A s \in Requests : Addressed(requests[s])
  BY DEF Records, TypeOK
<1>2. ASSUME NEW x \in Request, Become(r, x), Addressed(x)
      PROVE  /\ requests' \in [Requests -> Request]
             /\ \A s \in Requests : Addressed(requests'[s])
  BY <1>1, <1>2 DEF TypeOK, Become
<1>3. ASSUME NEW answer \in {"saved", "denied", "cycle", "inverted", "failed"}, Answer(r, answer)
      PROVE  /\ requests' \in [Requests -> Request]
             /\ \A s \in Requests : Addressed(requests'[s])
  BY <1>1, <1>3, AnswersAreTyped DEF Addressed
<1>4. ASSUME NEW as \in Callers, NEW p \in People, NEW patch \in Edits, Receive(r, as, p, patch)
      PROVE  /\ requests' \in [Requests -> Request]
             /\ \A s \in Requests : Addressed(requests'[s])
  <2> DEFINE sent == [Unsent EXCEPT !.as = as, !.subject = p, !.patch = patch]
             refused == [Unsent EXCEPT !.step = "done", !.answer = "denied"]
             step == IF Appoints(patch) THEN "links" ELSE "period"
             x == [sent EXCEPT !.step = step]
  <2>1. Become(r, refused) \/ Become(r, x)
    BY <1>4 DEF Receive
  <2>2. refused \in Request /\ Addressed(refused)
    BY NothingIsAPatch DEF Request, Addressed
  <2>3. patch \in Patch
    BY EmployeesAssumption
  <2>4. sent \in Request /\ sent.subject = p /\ sent.patch = patch
    BY <2>3, NothingIsAPatch DEF Request
  <2> HIDE DEF sent
  <2>5. x \in Request /\ Addressed(x)
    BY <2>4 DEF Request, Addressed
  <2> HIDE DEF x, refused
  <2> QED
    BY <1>2, <2>1, <2>2, <2>5
<1>5. CASE ReadLinks(r)
  <2> DEFINE now == [p \in People |-> profiles[p].manager]
             x == [q EXCEPT !.step = "climb", !.links = now, !.current = q.patch.manager,
                            !.seen = {q.subject}]
  <2>1. Become(r, x) /\ q.step = "links" /\ q.subject \in People /\ Appoints(q.patch)
    BY <1>1, <1>5 DEF ReadLinks, Addressed
  <2>2. now \in [People -> People \cup {None}]
    BY <1>1 DEF TypeOK, Profile
  <2>3. q.patch.manager \in People
    BY <1>1, <2>1 DEF Request, Patch, Appoints
  <2> HIDE DEF now
  <2>4. x \in Request /\ Addressed(x)
    BY <1>1, <2>1, <2>2, <2>3 DEF Request, Addressed
  <2> QED
    BY <1>2, <2>1, <2>4
<1>6. CASE Climb(r) /\ q.current = q.subject
  BY <1>3, <1>6 DEF Climb
<1>7. CASE Climb(r) /\ q.current # q.subject
  <2> DEFINE top == [q EXCEPT !.step = "period", !.links = NoLinks, !.current = None, !.seen = {}]
             x == [q EXCEPT !.seen = q.seen \cup {q.current}, !.current = q.links[q.current]]
  <2>1. /\ q.step = "climb"
        /\ \/ Become(r, top)
           \/ q.current # None /\ Become(r, x)
    BY <1>7 DEF Climb
  <2>2. top \in Request /\ Addressed(top)
    BY <1>1, <2>1, NothingIsAPatch DEF Request, Addressed
  <2>3. q.current # None => x \in Request /\ Addressed(x)
    BY <1>1, <2>1 DEF Request, Addressed
  <2> HIDE DEF x, top
  <2> QED
    BY <1>2, <2>1, <2>2, <2>3
<1>8. CASE CheckPeriod(r)
  <2> DEFINE x == [q EXCEPT !.step = "write"]
  <2>1. q.step = "period" /\ (Answer(r, "inverted") \/ Become(r, x))
    BY <1>8 DEF CheckPeriod
  <2>2. x \in Request /\ Addressed(x)
    BY <1>1, <2>1 DEF Request, Addressed
  <2> HIDE DEF x
  <2> QED
    BY <1>2, <1>3, <2>1, <2>2
<1>9. CASE Upsert(r)
  <2>1. CASE Answer(r, "failed")
    BY <1>3, <2>1
  <2>2. ASSUME NEW linked \in BOOLEAN, Save(r, linked)
        PROVE  /\ requests' \in [Requests -> Request]
               /\ \A s \in Requests : Addressed(requests'[s])
    BY <1>1, <2>2, SavesAreTyped, SavesAreAddressed
  <2> QED
    BY <1>9, <2>1, <2>2 DEF Upsert, Linked
<1> QED
  BY <1>4, <1>5, <1>6, <1>7, <1>8, <1>9 DEF Serve

\* A write of an edit: the row, column by column.
LEMMA UpsertWrites ==
  ASSUME Records, NEW r \in Requests, Upsert(r), profiles' # profiles
  PROVE  LET q == requests[r] IN
         /\ q \in Request /\ q.step = "write" /\ q.subject \in People
         /\ Merged(profiles[q.subject], q.patch) \in Profile
         /\ profiles' = [profiles EXCEPT ![q.subject] = Merged(profiles[q.subject], q.patch)]
         /\ filled' = filled \cup {q.subject}
         /\ requests'[r].answer = "saved"
<1> DEFINE q == requests[r]
<1>1. q \in Request /\ q.step = "write" /\ q.subject \in People /\ profiles[q.subject] \in Profile
  BY DEF Records, TypeOK, Addressed, Upsert
<1>2. Merged(profiles[q.subject], q.patch) \in Profile
  BY <1>1, MergedIsProfile DEF Request
<1>3. PICK linked \in BOOLEAN : Save(r, linked)
  BY DEF Upsert, Linked
<1>4. requests'[r].answer = "saved"
  BY <1>3, SavesAreTyped DEF Records
<1> QED
  BY <1>1, <1>2, <1>4 DEF Upsert

LEMMA NextKeepsRecords ==
  ASSUME Records, [Next]_vars
  PROVE  Records'
<1>1. CASE UNCHANGED vars
  BY <1>1 DEF vars, Records, TypeOK, Addressed
<1>2. ASSUME NEW r \in Requests, Serve(r)
      PROVE  Records'
  <2>1. /\ requests' \in [Requests -> Request]
        /\ \A s \in Requests : Addressed(requests'[s])
    BY <1>2, ServeKeepsRequests
  <2>2. CASE UNCHANGED <<profiles, filled>>
    BY <1>2, <2>1, <2>2 DEF Records, TypeOK, Addressed, Serve, Receive, ReadLinks, Climb,
       CheckPeriod, Upsert
  <2>3. CASE Upsert(r) /\ profiles' # profiles
    <3>1. /\ profiles' \in [People -> Profile] /\ filled' \subseteq People
      BY <2>3, UpsertWrites DEF Records, TypeOK
    <3> QED
      BY <2>1, <2>3, <3>1 DEF Records, TypeOK, Addressed, Upsert
  <2>4. CASE Upsert(r) /\ profiles' = profiles
    <3>1. filled' \subseteq People /\ UNCHANGED suspended
      BY <2>4 DEF Upsert, Records, TypeOK, Addressed
    <3> QED
      BY <2>1, <2>4, <3>1 DEF Records, TypeOK, Addressed
  <2> QED
    BY <1>2, <2>2, <2>3, <2>4 DEF Serve, Receive, ReadLinks, Climb, CheckPeriod
<1>3. ASSUME NEW p \in People, Suspend(p) \/ Reactivate(p)
      PROVE  Records'
  <2>1. PICK day \in Date : profiles' \in {profiles, [profiles EXCEPT ![p].terminatedAt = day]}
    BY <1>3, EmployeesAssumption DEF Suspend, Reactivate, Date
  <2> DEFINE row == [profiles[p] EXCEPT !.terminatedAt = day]
  <2>2. row \in Profile
    BY EndingIsTyped DEF Records, TypeOK
  <2>3. profiles' = profiles \/ profiles' = [profiles EXCEPT ![p] = row]
    BY <2>1
  <2> HIDE DEF row
  <2>4. profiles' \in [People -> Profile]
    BY <2>2, <2>3 DEF Records, TypeOK
  <2> QED
    BY <1>3, <2>4 DEF Records, TypeOK, Addressed, Suspend, Reactivate
<1> QED
  BY <1>1, <1>2, <1>3 DEF Next

LEMMA RecordsHold == Spec => []Records
<1>1. Init => Records
  BY InitHolds DEF IInv
<1> QED
  BY <1>1, NextKeepsRecords, PTL DEF Spec

\* The records and the edits keep their shape, however the edits overlap.
THEOREM EmployeesTypeCorrect == Spec => []TypeOK
<1>1. Records => TypeOK
  BY DEF Records
<1> QED
  BY RecordsHold, <1>1, PTL

\* No edit undoes another: employee-profile.repository.ts writes the columns the patch
\* names and no other, so a column changes only to what an edit that carried it said, or
\* is the date that offboarding moves together with the status.
THEOREM EditsAreNotUndone == Spec => NoEditIsUndone
<1> DEFINE Kept ==
      \A p \in People, f \in Fields :
        profiles'[p][f] # profiles[p][f] =>
          \/ \E r \in Requests : /\ requests[r].step # "done" /\ requests'[r].answer = "saved"
                                  /\ requests[r].subject = p
                                  /\ requests[r].patch[f] = profiles'[p][f]
          \/ f = "terminatedAt" /\ (p \in suspended <=> p \notin suspended')
<1>1. Records /\ [Next]_vars => [Kept]_vars
  <2> SUFFICES ASSUME Records, Next
               PROVE  Kept
    OBVIOUS
  <2>1. CASE UNCHANGED profiles
    BY <2>1
  <2>2. ASSUME NEW r \in Requests, Upsert(r), profiles' # profiles
        PROVE  Kept
    <3> DEFINE q == requests[r]
    <3>1. /\ q.step = "write" /\ q.subject \in People
          /\ profiles' = [profiles EXCEPT ![q.subject] = Merged(profiles[q.subject], q.patch)]
          /\ requests'[r].answer = "saved"
      BY <2>2, UpsertWrites
    <3>3. /\ \A p \in People \ {q.subject} : profiles'[p] = profiles[p]
          /\ profiles'[q.subject] = Merged(profiles[q.subject], q.patch)
      BY <3>1 DEF Records, TypeOK
    <3>4. \A f \in Fields : profiles'[q.subject][f] # profiles[q.subject][f] =>
            q.patch[f] = profiles'[q.subject][f]
      BY <3>3 DEF Merged
    <3> QED
      BY <3>1, <3>3, <3>4
  <2>3. ASSUME NEW p \in People, Suspend(p) \/ Reactivate(p)
        PROVE  Kept
    <3>1. PICK day \in Date : profiles' \in {profiles, [profiles EXCEPT ![p].terminatedAt = day]}
      BY <2>3, EmployeesAssumption DEF Suspend, Reactivate, Date
    <3> DEFINE row == [profiles[p] EXCEPT !.terminatedAt = day]
    <3>2. \A f \in Fields \ {"terminatedAt"} : row[f] = profiles[p][f]
      BY EndingIsTyped DEF Records, TypeOK
    <3>3. profiles' = profiles \/ profiles' = [profiles EXCEPT ![p] = row]
      BY <3>1
    <3> HIDE DEF row
    <3>4. \A o \in People, f \in Fields :
            profiles'[o][f] # profiles[o][f] => o = p /\ f = "terminatedAt"
      BY <3>2, <3>3 DEF Records, TypeOK
    <3>5. p \in suspended <=> p \notin suspended'
      BY <2>3 DEF Suspend, Reactivate
    <3> QED
      BY <3>4, <3>5
  <2> QED
    BY <2>1, <2>2, <2>3 DEF Next, Serve, Receive, ReadLinks, Climb, CheckPeriod
<1> QED
  BY RecordsHold, <1>1, PTL DEF Spec, NoEditIsUndone

-----------------------------------------------------------------------------
(* What a caller who may not see the dates is answered.                    *)

\* What an edit of dates says of itself, with nothing stored looked at.
Verdict(patch) ==
  IF patch.hiredAt = Unset \/ patch.terminatedAt = Unset
       \/ Inverted(patch.hiredAt, patch.terminatedAt)
  THEN "inverted" ELSE "saved"

ByTheVerdict(q) == q.as = "clerk" /\ TouchesDates(q.patch)

\* How far the verdict of an edit has come, and what the walk has shown on its way.
Judged(q) ==
  /\ q.patch \in Edits \cup {Nothing}
  /\ q.step = "climb" => q.current = q.patch.manager \/ q.patch.manager # q.subject
  /\ q.step \in {"period", "write"} => q.patch.manager # q.subject
  /\ q.step = "write" /\ ByTheVerdict(q) => Verdict(q.patch) = "saved"
  /\ q.step = "done" /\ ByTheVerdict(q) =>
       q.answer = Verdict(q.patch) \/ (q.answer = "cycle" /\ Appoints(q.patch))

AllJudged == \A r \in Requests : Judged(requests[r])

\* Every row is one the constraints let in.
RowsStorable == \A p \in People : Storable(p, profiles[p])

LEMMA RowsStayStorable ==
  ASSUME Records, RowsStorable, [Next]_vars
  PROVE  RowsStorable'
<1>1. \A p \in People : profiles[p] \in Profile
  BY DEF Records, TypeOK
<1>2. CASE UNCHANGED profiles
  BY <1>2 DEF RowsStorable
<1>3. ASSUME NEW r \in Requests, Upsert(r), profiles' # profiles
      PROVE  RowsStorable'
  <2> DEFINE q == requests[r]
             row == Merged(profiles[q.subject], q.patch)
  <2>1. q.subject \in People /\ profiles' = [profiles EXCEPT ![q.subject] = row]
    BY <1>3, UpsertWrites
  <2>2. Storable(q.subject, row)
    BY <1>3 DEF Upsert
  <2> HIDE DEF row
  <2> QED
    BY <2>1, <2>2 DEF RowsStorable, Records, TypeOK
<1>4. ASSUME NEW p \in People, Suspend(p), profiles' # profiles
      PROVE  RowsStorable'
  <2> DEFINE row == [profiles[p] EXCEPT !.terminatedAt = Today]
  <2>1. Storable(p, row) /\ profiles' = [profiles EXCEPT ![p] = row]
    BY <1>4 DEF Suspend
  <2> HIDE DEF row
  <2> QED
    BY <2>1 DEF RowsStorable, Records, TypeOK
<1>5. ASSUME NEW p \in People, Reactivate(p)
      PROVE  RowsStorable'
  <2> DEFINE row == [profiles[p] EXCEPT !.terminatedAt = None]
  <2>1. row.manager = profiles[p].manager /\ row.terminatedAt = None
    BY <1>1 DEF Profile
  <2>2. profiles' = [profiles EXCEPT ![p] = row]
    BY <1>5 DEF Reactivate
  <2> HIDE DEF row
  <2>3. Storable(p, row)
    BY <2>1 DEF RowsStorable, Storable, Inverted
  <2> QED
    BY <2>2, <2>3 DEF RowsStorable, Records, TypeOK
<1> QED
  BY <1>2, <1>3, <1>4, <1>5 DEF vars, Next, Serve, Receive, ReadLinks, Climb, CheckPeriod

\* What is kept beside an answer is what the verdict is about.
LEMMA AnsweredIsJudged ==
  ASSUME NEW q \in Request, Judged(q),
         NEW answer \in {"saved", "denied", "cycle", "inverted", "failed"},
         ByTheVerdict(q) =>
           answer = Verdict(q.patch) \/ (answer = "cycle" /\ Appoints(q.patch))
  PROVE  Judged(Answered(q, answer))
<1>1. ~TouchesDates(Nothing)
  BY DEF TouchesDates, Nothing
<1>2. CASE ByTheVerdict(q)
  <2> DEFINE x == [[Unsent EXCEPT !.as = q.as, !.patch = q.patch]
                     EXCEPT !.step = "done", !.answer = answer]
  <2>1. /\ Answered(q, answer) = x /\ x.step = "done" /\ x.answer = answer
        /\ x.as = q.as /\ x.patch = q.patch
    BY <1>2 DEF Answered, ByTheVerdict, Unsent
  <2> HIDE DEF x
  <2> QED
    BY <1>1, <1>2, <2>1 DEF Judged, ByTheVerdict
<1>3. CASE ~ByTheVerdict(q)
  <2> DEFINE x == [Unsent EXCEPT !.step = "done", !.answer = answer]
  <2>1. Answered(q, answer) = x /\ x.step = "done" /\ x.patch = Nothing
    BY <1>3 DEF Answered, ByTheVerdict, Unsent
  <2> HIDE DEF x
  <2> QED
    BY <1>1, <2>1 DEF Judged, ByTheVerdict
<1> QED
  BY <1>2, <1>3

LEMMA BecomingIsJudged ==
  ASSUME Records, AllJudged, NEW r \in Requests, NEW x, Become(r, x), Judged(x)
  PROVE  AllJudged'
BY DEF Records, TypeOK, AllJudged, Become

LEMMA AnswersAreJudged ==
  ASSUME Records, AllJudged, NEW r \in Requests,
         NEW answer \in {"saved", "denied", "cycle", "inverted", "failed"}, Answer(r, answer),
         ByTheVerdict(requests[r]) =>
           answer = Verdict(requests[r].patch) \/ (answer = "cycle" /\ Appoints(requests[r].patch))
  PROVE  AllJudged'
<1>1. requests[r] \in Request /\ Judged(requests[r])
  BY DEF Records, TypeOK, AllJudged
<1>2. Judged(Answered(requests[r], answer))
  BY <1>1, AnsweredIsJudged
<1> QED
  BY <1>2, BecomingIsJudged DEF Answer

LEMMA SavesAreJudged ==
  ASSUME Records, AllJudged, NEW r \in Requests, NEW linked \in BOOLEAN, Save(r, linked),
         ByTheVerdict(requests[r]) => Verdict(requests[r].patch) = "saved"
  PROVE  AllJudged'
<1>1. TypeOK /\ \A s \in Requests : requests[s] \in Request /\ Judged(requests[s])
  BY DEF Records, TypeOK, AllJudged
<1>2. Judged(requests'[r])
  BY <1>1, SavesAreTyped, AnsweredIsJudged
<1>3. ASSUME NEW s \in Requests \ {r}
      PROVE  Judged(requests'[s])
  <2> DEFINE x == [requests[s] EXCEPT !.overtaken = TRUE]
  <2>1. requests'[s] = x \/ requests'[s] = requests[s]
    BY <1>1, SavesAreTyped
  <2>2. /\ x.step = requests[s].step /\ x.as = requests[s].as
        /\ x.subject = requests[s].subject /\ x.patch = requests[s].patch
        /\ x.current = requests[s].current /\ x.answer = requests[s].answer
    BY <1>1, OvertakenIsAsBefore
  <2> HIDE DEF x
  <2>3. Judged(x)
    BY <1>1, <2>2 DEF Judged, ByTheVerdict
  <2> QED
    BY <1>1, <2>1, <2>3
<1> QED
  BY <1>2, <1>3 DEF AllJudged

LEMMA ServeKeepsJudged ==
  ASSUME Records, AllJudged, RowsStorable, NEW r \in Requests, Serve(r)
  PROVE  AllJudged'
<1> DEFINE q == requests[r]
<1>1. /\ q \in Request /\ Addressed(q) /\ Judged(q) /\ TypeOK
  BY DEF Records, TypeOK, AllJudged
<1>2. ASSUME NEW as \in Callers, NEW p \in People, NEW patch \in Edits, Receive(r, as, p, patch)
      PROVE  AllJudged'
  <2> DEFINE sent == [Unsent EXCEPT !.as = as, !.subject = p, !.patch = patch]
             refused == [Unsent EXCEPT !.step = "done", !.answer = "denied"]
             step == IF Appoints(patch) THEN "links" ELSE "period"
             x == [sent EXCEPT !.step = step]
  <2>1. Become(r, refused) \/ Become(r, x)
    BY <1>2 DEF Receive
  <2>2. Judged(refused)
    BY DEF Judged, ByTheVerdict, TouchesDates, Unsent, Nothing
  <2>3. /\ x.step = step /\ x.patch = patch /\ x.subject = p
    BY DEF Unsent
  <2>4. patch.manager # p \/ step = "links"
    BY EmployeesAssumption DEF Appoints
  <2> HIDE DEF x
  <2>5. Judged(x)
    BY <2>3, <2>4 DEF Judged
  <2> HIDE DEF refused
  <2> QED
    BY <2>1, <2>2, <2>5, BecomingIsJudged
<1>3. CASE ReadLinks(r)
  <2> DEFINE now == [p \in People |-> profiles[p].manager]
             x == [q EXCEPT !.step = "climb", !.links = now, !.current = q.patch.manager,
                            !.seen = {q.subject}]
  <2>1. Become(r, x)
    BY <1>3 DEF ReadLinks
  <2> HIDE DEF now
  <2>2. x.step = "climb" /\ x.patch = q.patch /\ x.current = q.patch.manager
    BY <1>1 DEF Request
  <2> HIDE DEF x, q
  <2>3. Judged(x)
    BY <1>1, <2>2 DEF Judged
  <2> QED
    BY <2>1, <2>3, BecomingIsJudged
<1>4. CASE Climb(r) /\ q.current = q.subject
  BY <1>1, <1>4, AnswersAreJudged DEF Climb, Addressed
<1>5. CASE Climb(r) /\ q.current # q.subject
  <2> DEFINE top == [q EXCEPT !.step = "period", !.links = NoLinks, !.current = None, !.seen = {}]
             x == [q EXCEPT !.seen = q.seen \cup {q.current}, !.current = q.links[q.current]]
  <2>1. q.step = "climb" /\ (Become(r, top) \/ Become(r, x))
    BY <1>5 DEF Climb
  <2>2. q.patch.manager # q.subject
    BY <1>1, <1>5, <2>1 DEF Judged
  <2>3. top.step = "period" /\ top.patch = q.patch /\ top.subject = q.subject
    BY <1>1 DEF Request
  <2>4. x.step = "climb" /\ x.patch = q.patch /\ x.subject = q.subject
    BY <1>1, <2>1 DEF Request
  <2> HIDE DEF top, x, q
  <2>5. Judged(top) /\ Judged(x)
    BY <1>1, <2>2, <2>3, <2>4 DEF Judged
  <2> QED
    BY <2>1, <2>5, BecomingIsJudged
<1>6. CASE CheckPeriod(r)
  <2> DEFINE stored == IF q.as = "clerk" THEN EmptyProfile ELSE profiles[q.subject]
             after == Merged(stored, q.patch)
             incomplete == q.as = "clerk" /\ (q.patch.hiredAt = Unset \/ q.patch.terminatedAt = Unset)
             refuse == TouchesDates(q.patch) /\ (incomplete \/ Inverted(after.hiredAt, after.terminatedAt))
             x == [q EXCEPT !.step = "write"]
  <2>1. /\ q.step = "period"
        /\ IF refuse THEN Answer(r, "inverted") ELSE Become(r, x)
    BY <1>6 DEF CheckPeriod
  <2>2. ByTheVerdict(q) => (refuse <=> Verdict(q.patch) = "inverted")
    <3>1. ~incomplete /\ q.as = "clerk" =>
            after.hiredAt = q.patch.hiredAt /\ after.terminatedAt = q.patch.terminatedAt
      BY DEF Merged, Fields
    <3> QED
      BY <3>1 DEF ByTheVerdict, Verdict
  <2> HIDE DEF refuse
  <2>3. CASE refuse
    BY <2>1, <2>2, <2>3, AnswersAreJudged
  <2>4. CASE ~refuse
    <3>1. x.step = "write" /\ x.patch = q.patch /\ x.as = q.as /\ x.subject = q.subject
      BY <1>1 DEF Request
    <3>2. ByTheVerdict(q) => Verdict(q.patch) = "saved"
      BY <2>2, <2>4 DEF Verdict
    <3>3. Become(r, x)
      BY <2>1, <2>4
    <3> HIDE DEF x, q
    <3>4. Judged(x)
      BY <1>1, <2>1, <3>1, <3>2 DEF Judged, ByTheVerdict
    <3> QED
      BY <3>3, <3>4, BecomingIsJudged
  <2> QED
    BY <2>3, <2>4
<1>7. CASE Upsert(r)
  <2> DEFINE row == Merged(profiles[q.subject], q.patch)
  <2>1. ByTheVerdict(q) => Storable(q.subject, row)
    <3> SUFFICES ASSUME ByTheVerdict(q) PROVE Storable(q.subject, row)
      OBVIOUS
    <3>1. Verdict(q.patch) = "saved" /\ q.patch.manager # q.subject /\ q.subject \in People
      BY <1>1, <1>7 DEF Upsert, Judged, Addressed
    <3>2. row.hiredAt = q.patch.hiredAt /\ row.terminatedAt = q.patch.terminatedAt
      BY <3>1 DEF Verdict, Merged, Fields
    <3>3. ~Inverted(row.hiredAt, row.terminatedAt)
      BY <3>1, <3>2 DEF Verdict
    <3>4. row.manager # q.subject
      BY <3>1 DEF Merged, Fields, RowsStorable, Storable
    <3> QED
      BY <3>3, <3>4 DEF Storable
  <2>2. Storable(q.subject, row) => \E linked \in BOOLEAN : Save(r, linked)
    BY <1>7 DEF Upsert, Linked
  <2>3. ~Storable(q.subject, row) => Answer(r, "failed")
    BY <1>7 DEF Upsert
  <2>4. ByTheVerdict(q) => Verdict(q.patch) = "saved"
    BY <1>1, <1>7 DEF Upsert, Judged
  <2> HIDE DEF row
  <2> QED
    BY <2>1, <2>2, <2>3, <2>4, AnswersAreJudged, SavesAreJudged
<1> QED
  BY <1>2, <1>3, <1>4, <1>5, <1>6, <1>7 DEF Serve

LEMMA JudgedHold == Spec => []AllJudged
<1>1. Init => AllJudged /\ RowsStorable
  <2>1. Judged(Unsent)
    BY DEF Judged, ByTheVerdict, Unsent
  <2>2. \A p \in People : Storable(p, EmptyProfile)
    BY EmployeesAssumption DEF Storable, EmptyProfile, Inverted
  <2> QED
    BY <2>1, <2>2 DEF Init, AllJudged, RowsStorable
<1>2. Records /\ RowsStorable /\ AllJudged /\ [Next]_vars => AllJudged'
  BY ServeKeepsJudged DEF Next, vars, AllJudged, Suspend, Reactivate
<1>3. Records /\ RowsStorable /\ [Next]_vars => RowsStorable'
  BY RowsStayStorable
<1> QED
  BY <1>1, <1>2, <1>3, RecordsHold, PTL DEF Spec

\* A caller who may not see the dates is answered by the dates they sent, complete and in
\* order or not, unless the manager they named closes a loop: never by what is stored,
\* and never by the constraint of the table (write-employee-profile.use-case.ts).
THEOREM TheSentDatesDecide ==
  Spec => [](\A r \in Requests :
               requests[r].step = "done" /\ ByTheVerdict(requests[r]) =>
                 \/ requests[r].answer = Verdict(requests[r].patch)
                 \/ requests[r].answer = "cycle" /\ Appoints(requests[r].patch))
<1>1. AllJudged =>
        \A r \in Requests :
          requests[r].step = "done" /\ ByTheVerdict(requests[r]) =>
            \/ requests[r].answer = Verdict(requests[r].patch)
            \/ requests[r].answer = "cycle" /\ Appoints(requests[r].patch)
  BY DEF AllJudged, Judged
<1> QED
  BY <1>1, JudgedHold, PTL

\* An edit of dates that appoints nobody: what an edit that does is answered says who
\* reports to whom, which is no secret.
DatesComeAlone == \A patch \in Edits : TouchesDates(patch) => ~Appoints(patch)

\* The same edit of dates by callers who may not see them has the same answer whoever it
\* is about and whatever is stored, however the edits and the offboardings overlap.
THEOREM StoredDatesDoNotShow ==
  ASSUME DatesComeAlone
  PROVE  Spec => []DatesStayUnseen
<1>1. AllJudged => DatesStayUnseen
  <2> SUFFICES ASSUME AllJudged, NEW a \in Requests, requests[a].step = "done",
                      ByTheVerdict(requests[a])
               PROVE  requests[a].answer = Verdict(requests[a].patch)
    BY DEF DatesStayUnseen, ByTheVerdict
  <2>1. requests[a].patch \in Edits
    BY DEF AllJudged, Judged, ByTheVerdict, TouchesDates, Nothing
  <2> QED
    BY <2>1 DEF DatesComeAlone, ByTheVerdict, AllJudged, Judged
<1> QED
  BY <1>1, JudgedHold, PTL
=============================================================================
