----------------------------- MODULE Employees ------------------------------
(***************************************************************************)
(* The employment records of an organization: edits of a profile, with the *)
(* walk that keeps the reporting line free of loops and the check of the   *)
(* employment period, beside offboarding and its undoing, which write the  *)
(* same record.                                                            *)
(*                                                                         *)
(* An edit reads twice and writes once, in one READ COMMITTED transaction  *)
(* that locks nothing before it writes: each read is a step, and what it   *)
(* saw may be stale when the edit writes.                                  *)
(***************************************************************************)
EXTENDS Naturals

CONSTANTS
  People,             \* accounts of the organization
  Requests,           \* edits, each sent once
  Days,               \* calendar days a date may name
  Today,              \* the day offboarding writes
  Edits,              \* the patches an edit may carry
  None,               \* nobody, no date
  Unset               \* a field the edit does not carry

Date == Days \cup {None}

\* Of the columns one no rule looks at stands for all such: the skills.
Profile == [manager : People \cup {None}, hiredAt : Date, terminatedAt : Date, skills : 0 .. 1]

Fields == {"manager", "hiredAt", "terminatedAt", "skills"}

Patch == [manager : People \cup {None, Unset}, hiredAt : Date \cup {Unset},
          terminatedAt : Date \cup {Unset}, skills : {1, Unset}]

ASSUME EmployeesAssumption ==
  /\ None \notin People \cup Days /\ Unset \notin People \cup Days /\ None # Unset
  /\ Days \subseteq Nat /\ Today \in Days
  /\ Edits \subseteq Patch

VARIABLES
  profiles,  \* employee_profiles; a person without a row has the computed empty one
  filled,    \* the people who have a row
  suspended, \* users.status
  requests   \* each edit: who sent what, and how far it has come

vars == <<profiles, filled, suspended, requests>>

-----------------------------------------------------------------------------
Nothing == [manager |-> Unset, hiredAt |-> Unset, terminatedAt |-> Unset, skills |-> Unset]

\* The person, somebody with employee:update and employee:view_personal_data, and
\* somebody with employee:update alone.
Callers == {"self", "hr", "clerk"}

Request == [step : {"unsent", "links", "climb", "period", "write", "done"},
            as : Callers, subject : People \cup {None}, patch : Patch,
            links : [People -> People \cup {None}], current : People \cup {None}, seen : SUBSET People,
            overtaken : BOOLEAN,  \* history: the chart has a link that links does not know of
            answer : {"none", "saved", "denied", "cycle", "inverted", "failed"}]

TypeOK ==
  /\ profiles \in [People -> Profile]
  /\ filled \subseteq People /\ suspended \subseteq People
  /\ requests \in [Requests -> Request]

EmptyProfile == [manager |-> None, hiredAt |-> None, terminatedAt |-> None, skills |-> 0]

NoLinks == [p \in People |-> None]

Unsent == [step |-> "unsent", as |-> "self", subject |-> None, patch |-> Nothing,
           links |-> NoLinks, current |-> None, seen |-> {}, overtaken |-> FALSE, answer |-> "none"]

Init ==
  /\ profiles = [p \in People |-> EmptyProfile]
  /\ filled = {} /\ suspended = {}
  /\ requests = [r \in Requests |-> Unsent]

Become(r, q) == requests' = [requests EXCEPT ![r] = q]

TouchesDates(patch) == patch.hiredAt # Unset \/ patch.terminatedAt # Unset

\* Of an edit of dates by a clerk what was sent is kept beside the answer; of any other
\* the answer alone.
Answered(q, answer) ==
  LET kept == IF q.as = "clerk" /\ TouchesDates(q.patch)
              THEN [Unsent EXCEPT !.as = q.as, !.patch = q.patch] ELSE Unsent IN
  [kept EXCEPT !.step = "done", !.answer = answer]

Answer(r, answer) == Become(r, Answered(requests[r], answer))

Appoints(patch) == patch.manager \notin {None, Unset}

ReadTheChart(q) == q.step \in {"climb", "period", "write"} /\ Appoints(q.patch)

\* An edit is saved: whoever has read the chart by now has not seen the link it makes.
Save(r, linked) ==
  requests' = [s \in Requests |->
                 IF s = r THEN Answered(requests[r], "saved")
                 ELSE IF linked /\ ReadTheChart(requests[s])
                      THEN [requests[s] EXCEPT !.overtaken = TRUE] ELSE requests[s]]

\* Whether a row puts somebody below a manager they were not below.
Linked(p, row) == row.manager \notin {profiles[p].manager, None}

\* What the patch leaves alone stays as it is.
Merged(stored, patch) ==
  [f \in Fields |-> IF patch[f] = Unset THEN stored[f] ELSE patch[f]]

Inverted(hiredAt, terminatedAt) ==
  hiredAt # None /\ terminatedAt # None /\ terminatedAt < hiredAt

\* ck_employee_profiles_manager_not_self and ck_employee_profiles_employment_period.
Storable(p, profile) ==
  profile.manager # p /\ ~Inverted(profile.hiredAt, profile.terminatedAt)

-----------------------------------------------------------------------------
(* An edit.                                                                *)

\* The policy: another's record wants employee:update, and so do the fields of the
\* employment on one's own.
CanEdit(as, patch) ==
  as = "self" => patch.manager = Unset /\ ~TouchesDates(patch)

Receive(r, as, p, patch) ==
  LET sent == [Unsent EXCEPT !.as = as, !.subject = p, !.patch = patch] IN
  /\ requests[r] = Unsent
  /\ Become(r, IF ~CanEdit(as, patch) THEN [Unsent EXCEPT !.step = "done", !.answer = "denied"]
               ELSE [sent EXCEPT !.step = IF Appoints(patch) THEN "links" ELSE "period"])
  /\ UNCHANGED <<profiles, filled, suspended>>

\* profiles.managerLinks, the statement's own snapshot.
ReadLinks(r) ==
  LET q == requests[r] IN
  /\ q.step = "links"
  /\ Become(r, [q EXCEPT !.step = "climb", !.links = [p \in People |-> profiles[p].manager],
                         !.current = q.patch.manager, !.seen = {q.subject}])
  /\ UNCHANGED <<profiles, filled, suspended>>

\* Mutant: nobody above the proposed manager is asked about.
ClimbNowhere(r) ==
  LET q == requests[r] IN
  /\ q.step = "climb"
  /\ IF q.current = q.subject THEN Answer(r, "cycle")
     ELSE Become(r, [q EXCEPT !.step = "period", !.links = NoLinks, !.current = None, !.seen = {}])
  /\ UNCHANGED <<profiles, filled, suspended>>

\* One link of closesManagerCycle: up to the subject, which is a loop, or to the top,
\* or to somebody already met, which is a loop of the chart's own.
Climb(r) ==
  LET q == requests[r] IN
  /\ q.step = "climb"
  /\ IF q.current = q.subject THEN Answer(r, "cycle")
     ELSE IF q.current = None \/ q.current \in q.seen
     THEN Become(r, [q EXCEPT !.step = "period", !.links = NoLinks, !.current = None, !.seen = {}])
     ELSE Become(r, [q EXCEPT !.seen = q.seen \cup {q.current}, !.current = q.links[q.current]])
  /\ UNCHANGED <<profiles, filled, suspended>>

\* Mutant: everybody is judged against the stored row.
CheckMergedPeriod(r) ==
  LET q == requests[r]
      after == Merged(profiles[q.subject], q.patch) IN
  /\ q.step = "period"
  /\ IF TouchesDates(q.patch) /\ Inverted(after.hiredAt, after.terminatedAt)
     THEN Answer(r, "inverted")
     ELSE Become(r, [q EXCEPT !.step = "write"])
  /\ UNCHANGED <<profiles, filled, suspended>>

\* A caller outside the personal audience states both dates and is judged on those; any
\* other on what the record will hold, as it is read now.
CheckPeriod(r) ==
  LET q == requests[r]
      stored == IF q.as = "clerk" THEN EmptyProfile ELSE profiles[q.subject]
      after == Merged(stored, q.patch)
      incomplete == q.as = "clerk" /\ (q.patch.hiredAt = Unset \/ q.patch.terminatedAt = Unset) IN
  /\ q.step = "period"
  /\ IF TouchesDates(q.patch) /\ (incomplete \/ Inverted(after.hiredAt, after.terminatedAt))
     THEN Answer(r, "inverted")
     ELSE Become(r, [q EXCEPT !.step = "write"])
  /\ UNCHANGED <<profiles, filled, suspended>>

\* Mutant: the employment goes into the row whole, as it was when the period was judged.
UpsertWhole(r) ==
  LET q == requests[r]
      dated == TouchesDates(q.patch)
      row == [Merged(profiles[q.subject], q.patch) EXCEPT
                !.terminatedAt = IF dated /\ q.patch.terminatedAt = Unset THEN None ELSE @] IN
  /\ q.step = "write"
  /\ IF Storable(q.subject, row)
     THEN /\ profiles' = [profiles EXCEPT ![q.subject] = row]
          /\ filled' = filled \cup {q.subject}
          /\ Save(r, Linked(q.subject, row))
     ELSE Answer(r, "failed") /\ UNCHANGED <<profiles, filled>>
  /\ UNCHANGED suspended

\* INSERT or UPDATE of the columns the patch names; a row the constraints refuse is a
\* failure without a name.
Upsert(r) ==
  LET q == requests[r]
      row == Merged(profiles[q.subject], q.patch) IN
  /\ q.step = "write"
  /\ IF Storable(q.subject, row)
     THEN /\ profiles' = [profiles EXCEPT ![q.subject] = row]
          /\ filled' = filled \cup {q.subject}
          /\ Save(r, Linked(q.subject, row))
     ELSE Answer(r, "failed") /\ UNCHANGED <<profiles, filled>>
  /\ UNCHANGED suspended

-----------------------------------------------------------------------------
(* Offboarding and its undoing, as they touch the record.                  *)

\* A person without a row has nothing to terminate; a date of hiring still to come makes
\* the constraint refuse, and with it the whole offboarding.
Suspend(p) ==
  LET row == [profiles[p] EXCEPT !.terminatedAt = Today] IN
  /\ p \notin suspended
  /\ p \in filled => Storable(p, row)
  /\ suspended' = suspended \cup {p}
  /\ profiles' = IF p \in filled THEN [profiles EXCEPT ![p] = row] ELSE profiles
  /\ UNCHANGED <<filled, requests>>

Reactivate(p) ==
  /\ p \in suspended
  /\ suspended' = suspended \ {p}
  /\ profiles' = [profiles EXCEPT ![p].terminatedAt = None]
  /\ UNCHANGED <<filled, requests>>

-----------------------------------------------------------------------------
Serve(r) ==
  \/ \E as \in Callers, p \in People, patch \in Edits : Receive(r, as, p, patch)
  \/ ReadLinks(r)
  \/ Climb(r)
  \/ CheckPeriod(r)
  \/ Upsert(r)

Next ==
  \/ \E r \in Requests : Serve(r)
  \/ \E p \in People : Suspend(p) \/ Reactivate(p)

Spec == Init /\ [][Next]_vars

-----------------------------------------------------------------------------
(* What must hold.                                                         *)

\* The reporting line is a forest: whatever group of people one takes, somebody in it
\* reports to nobody of the group.  write-employee-profile.use-case.ts says that reading
\* the chart inside the transaction keeps two concurrent edits from closing a loop together.
ChartHasNoLoop ==
  \A group \in (SUBSET People) \ {{}} : \E p \in group : profiles[p].manager \notin group

\* However edits, offboarding and its undoing overlap, a loop is closed by nothing but an
\* edit that was overtaken: somebody made another link between its reading of the chart
\* and its write.
LoopsNeedAnOvertaking ==
  [][ChartHasNoLoop /\ ~ChartHasNoLoop' =>
       \E r \in Requests : /\ requests[r].step = "write" /\ requests[r].overtaken
                           /\ requests'[r].answer = "saved"]_vars

\* No edit undoes another: a column changes only to what an edit that carried it said,
\* however many were read before it and written after; offboarding moves its own date.
NoEditIsUndone ==
  [][\A p \in People, f \in Fields :
        profiles'[p][f] # profiles[p][f] =>
          \/ \E r \in Requests : /\ requests[r].step # "done" /\ requests'[r].answer = "saved"
                                  /\ requests[r].subject = p
                                  /\ requests[r].patch[f] = profiles'[p][f]
          \/ f = "terminatedAt" /\ (p \in suspended <=> p \notin suspended')]_vars

\* What a caller who may not see the dates is answered depends on what they sent: the
\* same edit of dates has the same answer whoever it is about, and whatever is stored.
DatesStayUnseen ==
  \A a, b \in Requests :
    (/\ requests[a].step = "done" /\ requests[b].step = "done"
     /\ requests[a].as = "clerk" /\ requests[b].as = "clerk"
     /\ requests[a].patch = requests[b].patch /\ TouchesDates(requests[a].patch))
    => requests[a].answer = requests[b].answer

\* Nobody's record makes the constraint refuse their offboarding.
AnybodyCanBeOffboarded ==
  \A p \in People \ suspended :
    p \in filled => Storable(p, [profiles[p] EXCEPT !.terminatedAt = Today])
=============================================================================
