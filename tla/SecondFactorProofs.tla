------------------------- MODULE SecondFactorProofs -------------------------
(***************************************************************************)
(* What is proved of SecondFactor, for any number of requests, secrets,    *)
(* batches, codes and time steps.                                          *)
(*                                                                         *)
(* A batch that a request has minted is in nobody's table and nobody       *)
(* else's hands until that request commits; a code that was spent is no    *)
(* longer unused; and the time steps taken never run ahead of the counter. *)
(* The last part is the budget that drafting and confirming share: what    *)
(* RateLimiter counts bounds the guesses at any one drafted secret.        *)
(***************************************************************************)
EXTENDS SecondFactor, FiniteSetTheorems, TLAPS

-----------------------------------------------------------------------------
FactorTypeOK ==
  /\ enrolment \in Enrolment
  /\ codes \in [Row -> {"absent", "unused", "used"}]
  /\ work \in [Requests -> Task]
  /\ guesses \in Nat
  /\ accepted \in [steps : SUBSET (1 .. MaxCounter), rows : SUBSET Row, twice : BOOLEAN]

\* A batch none of whose codes was ever issued, by a table and what was taken so far.
Untouched(b, table, taken) ==
  \A c \in Codes : table[<<b, c>>] = "absent" /\ <<b, c>> \notin taken.rows

\* What a request holds by the step it has reached.
Ready(q, table, taken) ==
  /\ q.step = "proven" => q.batch \in Batches /\ q.counter \in 1 .. MaxCounter
                          /\ Untouched(q.batch, table, taken)
  /\ q.step = "listed" => q.given \in Row

Distinct(q, other) == q.step = "proven" /\ other.step = "proven" => q.batch # other.batch

UnusedIsUnspent == \A row \in Row : codes[row] = "unused" => row \notin accepted.rows

StepsAreBehind ==
  IF enrolment.on THEN \A s \in accepted.steps : s <= enrolment.lastCounter ELSE accepted.steps = {}

IInv ==
  /\ FactorTypeOK
  /\ \A r \in Requests : Ready(work[r], codes, accepted)
  /\ \A r, q \in Requests : r # q => Distinct(work[r], work[q])
  /\ UnusedIsUnspent /\ StepsAreBehind
  /\ ProtectedByOneBatch /\ ProofsAreTakenOnce

-----------------------------------------------------------------------------
LEMMA Bounds ==
  /\ None \notin Secrets \cup Batches /\ Codes # {} /\ MaxCounter \in Nat
  /\ Draft \in Nat \ {0} /\ 0 \in 0 .. Draft /\ 0 \in 0 .. MaxCounter /\ Draft \in 0 .. Draft
<1>1. Window \in Nat \ {0}
  BY LimiterAssumption DEF LimiterAssumption
<1>2. None \notin Secrets \cup Batches /\ Codes # {} /\ MaxCounter \in Nat /\ Draft = Window
  BY FactorAssumption DEF FactorAssumption
<1> QED  BY <1>1, <1>2

LEMMA IdleIsReady ==
  ASSUME NEW table, NEW taken, NEW other
  PROVE  Idle \in Task /\ Ready(Idle, table, taken) /\ Distinct(Idle, other)
BY Bounds DEF Idle, Task, Ready, Distinct

\* A request goes on to n; the table and what was taken stay as they are, and of the
\* enrolment at most a draft changes.
LEMMA QuietStep ==
  ASSUME IInv, UNCHANGED <<codes, accepted>>, guesses' \in Nat,
         enrolment' \in Enrolment, enrolment'.on = enrolment.on,
         enrolment.on => enrolment'.lastCounter = enrolment.lastCounter,
         NEW r \in Requests, NEW n \in Task, work' = [work EXCEPT ![r] = n],
         Ready(n, codes, accepted), \A q \in Requests \ {r} : Distinct(n, work[q])
  PROVE  IInv'
<1>1. FactorTypeOK'
  BY DEF IInv, FactorTypeOK
<1>2. work'[r] = n /\ \A q \in Requests \ {r} : work'[q] = work[q]
  BY DEF IInv, FactorTypeOK
<1>3. \A q \in Requests : Ready(work'[q], codes', accepted')
  BY <1>2 DEF IInv
<1>4. \A p, q \in Requests : p # q => Distinct(work'[p], work'[q])
  BY <1>2 DEF IInv, Distinct
<1>5. UnusedIsUnspent' /\ StepsAreBehind' /\ ProtectedByOneBatch' /\ ProofsAreTakenOnce'
  BY DEF IInv, UnusedIsUnspent, StepsAreBehind, ProtectedByOneBatch, ProofsAreTakenOnce
<1> QED  BY <1>1, <1>3, <1>4, <1>5 DEF IInv

LEMMA FinishingIsQuiet ==
  ASSUME IInv, UNCHANGED <<codes, accepted>>, guesses' \in Nat,
         enrolment' \in Enrolment, enrolment'.on = enrolment.on,
         enrolment.on => enrolment'.lastCounter = enrolment.lastCounter,
         NEW r \in Requests, Finish(r)
  PROVE  IInv'
BY IdleIsReady, QuietStep DEF Finish, Become

\* The ways to ask, the drafts that come and go, and the requests that leave.
LEMMA DraftsAreQuiet ==
  ASSUME IInv, NEW r \in Requests,
         \/ AskSetup(r) \/ BeginDraft(r) \/ AbandonDraft(r) \/ Leave(r)
         \/ \E s \in Secrets \cup {None}, c \in 0 .. MaxCounter : AskConfirm(r, s, c)
  PROVE  IInv'
<1>0. FactorTypeOK /\ enrolment \in Enrolment /\ guesses \in Nat
  BY DEF IInv, FactorTypeOK
<1>1. CASE AskSetup(r)
  <2> DEFINE n == [Idle EXCEPT !.op = "setup", !.step = "limited"]
  <2>1. n \in Task /\ n.step = "limited"
    BY Bounds DEF Idle, Task
  <2>2. work' = [work EXCEPT ![r] = n] /\ UNCHANGED <<enrolment, codes, guesses, accepted>>
    BY <1>1 DEF AskSetup, Become
  <2> HIDE DEF n
  <2>3. Ready(n, codes, accepted) /\ \A q \in Requests \ {r} : Distinct(n, work[q])
    BY <2>1 DEF Ready, Distinct
  <2> QED  BY <1>0, <2>1, <2>2, <2>3, QuietStep
<1>2. ASSUME NEW s \in Secrets \cup {None}, NEW c \in 0 .. MaxCounter, AskConfirm(r, s, c)
      PROVE  IInv'
  <2> DEFINE draft == IF enrolment.on THEN None ELSE enrolment.secret
             n == [Idle EXCEPT !.op = "confirm", !.step = "limited", !.given = s, !.counter = c,
                               !.aim = draft]
  <2>0. draft \in Secrets \cup {None}
    BY <1>0 DEF Enrolment
  <2>2. work' = [work EXCEPT ![r] = n] /\ UNCHANGED <<enrolment, codes, guesses, accepted>>
    BY <1>2 DEF AskConfirm, Become
  <2> HIDE DEF draft
  <2>1. n \in Task /\ n.step = "limited"
    BY <2>0, Bounds DEF Idle, Task
  <2> HIDE DEF n
  <2>3. Ready(n, codes, accepted) /\ \A q \in Requests \ {r} : Distinct(n, work[q])
    BY <2>1 DEF Ready, Distinct
  <2> QED  BY <1>0, <2>1, <2>2, <2>3, QuietStep
<1>3. CASE BeginDraft(r)
  <2>1. Finish(r) /\ UNCHANGED <<codes, accepted>> /\ guesses' \in Nat
    <3>1. CASE enrolment.on
      BY <1>0, <1>3, <3>1 DEF BeginDraft
    <3>2. CASE ~enrolment.on
      <4>1. guesses' = 0 /\ Finish(r) /\ UNCHANGED <<codes, accepted>>
        BY <1>3, <3>2 DEF BeginDraft
      <4> QED  BY <4>1
    <3> QED  BY <3>1, <3>2
  <2>2. enrolment' \in Enrolment /\ enrolment'.on = enrolment.on
        /\ (enrolment.on => enrolment'.lastCounter = enrolment.lastCounter)
    <3>1. CASE enrolment.on
      BY <1>0, <1>3, <3>1 DEF BeginDraft
    <3>2. CASE ~enrolment.on
      BY <1>0, <1>3, <3>2, Bounds DEF BeginDraft, Enrolment
    <3> QED  BY <3>1, <3>2
  <2> QED  BY <2>1, <2>2, FinishingIsQuiet
<1>4. CASE AbandonDraft(r)
  <2>1. Finish(r) /\ UNCHANGED <<codes, accepted>> /\ guesses' \in Nat
    <3>1. guesses' \in {guesses, 0} /\ Finish(r) /\ UNCHANGED <<codes, accepted>>
      BY <1>4 DEF AbandonDraft
    <3> QED  BY <1>0, <3>1
  <2>2. enrolment' \in Enrolment /\ enrolment'.on = enrolment.on
        /\ (enrolment.on => enrolment'.lastCounter = enrolment.lastCounter)
    BY <1>0, <1>4, Bounds DEF AbandonDraft, Enrolment
  <2> QED  BY <2>1, <2>2, FinishingIsQuiet
<1>5. CASE Leave(r)
  BY <1>0, <1>5, FinishingIsQuiet DEF Leave
<1> QED  BY <1>1, <1>2, <1>3, <1>4, <1>5

\* A batch comes fresh from the generator.
LEMMA FreshIsUntouched ==
  ASSUME NEW b \in Batches, FreshBatch(b)
  PROVE  Untouched(b, codes, accepted) /\ \A q \in Requests : work[q].batch # b
BY DEF FreshBatch, Untouched

LEMMA ProvingKeepsIt ==
  ASSUME IInv, NEW r \in Requests,
         JudgeCode(r) \/ (\E c \in 1 .. MaxCounter : JudgeForBatch(r, c))
  PROVE  IInv'
<1>0. /\ FactorTypeOK /\ enrolment \in Enrolment /\ guesses \in Nat /\ work[r] \in Task
      /\ MaxCounter \in Nat
  BY Bounds DEF IInv, FactorTypeOK
<1>1. CASE JudgeCode(r)
  <2> DEFINE right == DraftLive /\ work[r].given = enrolment.secret /\ work[r].counter > enrolment.lastCounter
  <2>1. CASE ~right
    <3>1. Finish(r) /\ UNCHANGED <<enrolment, codes, accepted>> /\ guesses' \in {guesses, guesses + 1}
      BY <1>1, <2>1 DEF JudgeCode
    <3>2. guesses' \in Nat
      BY <1>0, <3>1
    <3> QED  BY <1>0, <3>1, <3>2, FinishingIsQuiet
  <2>2. CASE right
    <3>1. PICK b \in Batches : FreshBatch(b) /\ work' = [work EXCEPT ![r] = [work[r] EXCEPT !.step = "proven", !.batch = b]]
      BY <1>1, <2>2 DEF JudgeCode, Become
    <3> DEFINE n == [work[r] EXCEPT !.step = "proven", !.batch = b]
    <3>2. n \in Task /\ n.step = "proven" /\ n.batch = b /\ n.counter = work[r].counter
      BY <1>0 DEF Task
    <3>3. n.counter \in 1 .. MaxCounter
      BY <1>0, <2>2, <3>2 DEF Task, Enrolment
    <3>4. UNCHANGED <<enrolment, codes, guesses, accepted>>
      BY <1>1, <2>2 DEF JudgeCode
    <3> HIDE DEF n
    <3>5. Ready(n, codes, accepted) /\ \A q \in Requests \ {r} : Distinct(n, work[q])
      BY <3>1, <3>2, <3>3, FreshIsUntouched DEF Ready, Distinct
    <3>6. work' = [work EXCEPT ![r] = n]
      BY <3>1 DEF n
    <3> QED  BY <1>0, <3>2, <3>4, <3>5, <3>6, QuietStep
  <2> QED  BY <2>1, <2>2
<1>2. ASSUME NEW c \in 1 .. MaxCounter, JudgeForBatch(r, c) PROVE IInv'
  <2>1. PICK b \in Batches : FreshBatch(b) /\ work' = [work EXCEPT ![r] =
             [Idle EXCEPT !.op = "regenerate", !.step = "proven", !.counter = c, !.batch = b]]
    BY <1>2 DEF JudgeForBatch, Become
  <2> DEFINE n == [Idle EXCEPT !.op = "regenerate", !.step = "proven", !.counter = c, !.batch = b]
  <2>2. n \in Task /\ n.step = "proven" /\ n.batch = b /\ n.counter = c
    <3>1. c \in 0 .. MaxCounter
      BY Bounds
    <3>2. Idle \in Task
      BY IdleIsReady
    <3>3. n \in Task
      BY <3>1, <3>2 DEF Task
    <3>4. n.step = "proven" /\ n.batch = b /\ n.counter = c
      BY <3>2 DEF Task
    <3> QED  BY <3>3, <3>4
  <2>4. UNCHANGED <<enrolment, codes, guesses, accepted>>
    BY <1>2 DEF JudgeForBatch
  <2>6. work' = [work EXCEPT ![r] = n]
    BY <2>1
  <2> HIDE DEF n
  <2>5. Ready(n, codes, accepted) /\ \A q \in Requests \ {r} : Distinct(n, work[q])
    BY <2>1, <2>2, FreshIsUntouched DEF Ready, Distinct
  <2> QED  BY <1>0, <2>2, <2>4, <2>5, <2>6, QuietStep
<1> QED  BY <1>1, <1>2

LEMMA MatchingKeepsIt ==
  ASSUME IInv, NEW r \in Requests, NEW row \in Row, MatchCode(r, row)
  PROVE  IInv'
<1> DEFINE n == [Idle EXCEPT !.op = "consume", !.step = "listed", !.given = row]
<1>1. n \in Task /\ n.step = "listed" /\ n.given = row
  BY Bounds DEF Idle, Task
<1>2. work' = [work EXCEPT ![r] = n] /\ UNCHANGED <<enrolment, codes, guesses, accepted>>
  BY DEF MatchCode, Become
<1> HIDE DEF n
<1>3. Ready(n, codes, accepted) /\ \A q \in Requests \ {r} : Distinct(n, work[q])
  BY <1>1 DEF Ready, Distinct
<1> QED  BY <1>1, <1>2, <1>3, QuietStep DEF IInv, FactorTypeOK

\* A batch that another request has minted is not the one that goes into the table, nor
\* is a code of it among those taken.
LEMMA OthersStayReady ==
  ASSUME IInv, NEW r \in Requests, NEW table, NEW taken, work' = [work EXCEPT ![r] = Idle],
         \A q \in Requests \ {r} : Ready(work[q], codes, accepted) => Ready(work[q], table, taken)
  PROVE  /\ work' \in [Requests -> Task]
         /\ \A q \in Requests : Ready(work'[q], table, taken)
         /\ \A p, q \in Requests : p # q => Distinct(work'[p], work'[q])
<1>1. work'[r] = Idle /\ \A q \in Requests \ {r} : work'[q] = work[q]
  BY DEF IInv, FactorTypeOK
<1>2. work' \in [Requests -> Task]
  BY IdleIsReady DEF IInv, FactorTypeOK
<1>3. \A q \in Requests : Ready(work'[q], table, taken)
  BY <1>1, IdleIsReady DEF IInv
<1>4. \A p, q \in Requests : p # q => Distinct(work'[p], work'[q])
  BY <1>1, IdleIsReady DEF IInv, Distinct
<1> QED  BY <1>2, <1>3, <1>4

\* A batch comes into the table: the factor is on, the counter has reached the time step
\* that let it in, and no step taken is beyond that.
LEMMA IssuingKeepsIt ==
  ASSUME IInv, NEW r \in Requests, work[r].step = "proven",
         \/ ~enrolment.on /\ codes' = [row \in Row |-> IF row[1] = work[r].batch THEN "unused" ELSE codes[row]]
         \/ enrolment.on /\ enrolment.lastCounter < work[r].counter /\ codes' = OnlyBatch(work[r].batch),
         enrolment' \in Enrolment, enrolment'.on, enrolment'.lastCounter = work[r].counter,
         accepted' = StepTaken(work[r].counter), guesses' \in Nat,
         Finish(r)
  PROVE  IInv'
<1> DEFINE q == work[r]
           b == q.batch
<1>0. /\ FactorTypeOK /\ UnusedIsUnspent /\ StepsAreBehind /\ ProtectedByOneBatch /\ ProofsAreTakenOnce
      /\ b \in Batches /\ q.counter \in 1 .. MaxCounter /\ Untouched(b, codes, accepted)
      /\ enrolment \in Enrolment
      /\ accepted \in [steps : SUBSET (1 .. MaxCounter), rows : SUBSET Row, twice : BOOLEAN]
      /\ \A p \in Requests \ {r} : Distinct(work[p], q) /\ Ready(work[p], codes, accepted)
  BY DEF IInv, FactorTypeOK, Ready
<1>1. /\ accepted' \in [steps : SUBSET (1 .. MaxCounter), rows : SUBSET Row, twice : BOOLEAN]
      /\ accepted'.steps = accepted.steps \cup {q.counter} /\ accepted'.rows = accepted.rows
      /\ accepted'.twice = (accepted.twice \/ q.counter \in accepted.steps)
  BY <1>0 DEF StepTaken
<1> HIDE DEF q
<1>2. /\ codes' \in [Row -> {"absent", "unused", "used"}]
      /\ \A row \in Row : codes'[row] = IF row[1] = b THEN "unused" ELSE "absent"
  <2>1. CASE ~enrolment.on
    <3>1. \A row \in Row : codes[row] = "absent"
      BY <1>0, <2>1 DEF ProtectedByOneBatch
    <3> QED  BY <2>1, <3>1 DEF q
  <2>2. CASE enrolment.on
    BY <2>2 DEF OnlyBatch, q
  <2> QED  BY <2>1, <2>2
<1>3. \A p \in Requests \ {r} : Ready(work[p], codes', accepted')
  <2> TAKE p \in Requests \ {r}
  <2>1. ASSUME work[p].step = "proven" PROVE Untouched(work[p].batch, codes', accepted')
    <3>1. work[p].batch \in Batches /\ work[p].batch # b /\ Untouched(work[p].batch, codes, accepted)
      BY <1>0, <2>1, work[r].step = "proven" DEF Ready, Distinct, q
    <3>2. \A c \in Codes : <<work[p].batch, c>> \in Row /\ <<work[p].batch, c>>[1] # b
      BY <3>1 DEF Row
    <3> QED  BY <1>1, <1>2, <3>1, <3>2 DEF Untouched
  <2> QED  BY <1>0, <2>1 DEF Ready
<1>4. work' = [work EXCEPT ![r] = Idle]
  BY DEF Finish, Become
<1>5. /\ work' \in [Requests -> Task]
      /\ \A p \in Requests : Ready(work'[p], codes', accepted')
      /\ \A p, x \in Requests : p # x => Distinct(work'[p], work'[x])
  <2>1. PICK table, taken : table = codes' /\ taken = accepted'
    OBVIOUS
  <2>2. \A p \in Requests \ {r} : Ready(work[p], table, taken)
    BY <1>3, <2>1
  <2>3. /\ work' \in [Requests -> Task]
        /\ \A p \in Requests : Ready(work'[p], table, taken)
        /\ \A p, x \in Requests : p # x => Distinct(work'[p], work'[x])
    BY <1>4, <2>2, OthersStayReady
  <2> QED  BY <2>1, <2>3
<1>6. UnusedIsUnspent'
  <2> SUFFICES ASSUME NEW row \in Row, codes'[row] = "unused" PROVE row \notin accepted'.rows
    BY DEF UnusedIsUnspent
  <2>1. row[1] = b /\ row[2] \in Codes /\ row = <<b, row[2]>>
    BY <1>2 DEF Row
  <2> QED  BY <1>0, <1>1, <2>1 DEF Untouched
<1>7. q.counter \notin accepted.steps /\ \A s \in accepted.steps : s <= q.counter
  <2>1. CASE ~enrolment.on
    BY <1>0, <2>1 DEF StepsAreBehind
  <2>2. CASE enrolment.on
    <3>1. /\ \A s \in accepted.steps : s \in Int /\ s <= enrolment.lastCounter
          /\ enrolment.lastCounter \in Int /\ q.counter \in Int /\ enrolment.lastCounter < q.counter
      BY <1>0, <2>2, Bounds DEF StepsAreBehind, Enrolment, q
    <3> QED  BY <3>1
  <2> QED  BY <2>1, <2>2
<1>8. StepsAreBehind'
  <2>1. \A s \in accepted'.steps : s <= q.counter
    BY <1>0, <1>1, <1>7, Bounds
  <2> QED  BY <2>1 DEF StepsAreBehind, q
<1>9. ProofsAreTakenOnce'
  BY <1>0, <1>1, <1>7 DEF ProofsAreTakenOnce
<1>10. ProtectedByOneBatch'
  <2>1. {row \in Row : codes'[row] # "absent"} = {b} \X Codes
    BY <1>0, <1>2 DEF Row
  <2> QED  BY <1>0, <2>1 DEF ProtectedByOneBatch
<1>11. FactorTypeOK'
  BY <1>0, <1>1, <1>2, <1>5 DEF FactorTypeOK
<1> QED  BY <1>5, <1>6, <1>8, <1>9, <1>10, <1>11 DEF IInv

LEMMA CommittingKeepsIt ==
  ASSUME IInv, NEW r \in Requests, CommitEnrolment(r)
  PROVE  IInv'
<1>0. /\ enrolment \in Enrolment /\ guesses \in Nat /\ work[r].step = "proven"
      /\ work[r].counter \in 1 .. MaxCounter /\ guesses' \in Nat /\ Finish(r)
  <2>1. guesses' \in {guesses, 0}
    BY DEF CommitEnrolment
  <2> QED
    BY <2>1 DEF IInv, FactorTypeOK, Ready, CommitEnrolment, Doing
<1>1. CASE ~enrolment.on /\ enrolment.secret # None
  <2>1. /\ enrolment' = [enrolment EXCEPT !.on = TRUE, !.draftLeft = 0, !.lastCounter = work[r].counter]
        /\ codes' = [row \in Row |-> IF row[1] = work[r].batch THEN "unused" ELSE codes[row]]
        /\ accepted' = StepTaken(work[r].counter)
    BY <1>1 DEF CommitEnrolment
  <2>2. work[r].counter \in 0 .. MaxCounter
    BY <1>0, Bounds
  <2>3. enrolment' \in Enrolment /\ enrolment'.on /\ enrolment'.lastCounter = work[r].counter
    BY <1>0, <2>1, <2>2, Bounds DEF Enrolment
  <2> QED  BY <1>0, <1>1, <2>1, <2>3, IssuingKeepsIt
<1>2. CASE ~(~enrolment.on /\ enrolment.secret # None)
  BY <1>0, <1>2, FinishingIsQuiet DEF CommitEnrolment
<1> QED  BY <1>1, <1>2

LEMMA ReplacingKeepsIt ==
  ASSUME IInv, NEW r \in Requests, ReplaceBatch(r)
  PROVE  IInv'
<1>0. /\ enrolment \in Enrolment /\ guesses \in Nat /\ work[r].step = "proven"
      /\ work[r].counter \in 1 .. MaxCounter /\ UNCHANGED guesses /\ Finish(r)
  BY DEF IInv, FactorTypeOK, Ready, ReplaceBatch, Doing
<1>1. CASE enrolment.on /\ enrolment.lastCounter < work[r].counter
  <2>1. /\ enrolment' = [enrolment EXCEPT !.lastCounter = work[r].counter]
        /\ codes' = OnlyBatch(work[r].batch) /\ accepted' = StepTaken(work[r].counter)
    BY <1>1 DEF ReplaceBatch
  <2>2. work[r].counter \in 0 .. MaxCounter
    BY <1>0, Bounds
  <2>3. enrolment' \in Enrolment /\ enrolment'.on /\ enrolment'.lastCounter = work[r].counter
    BY <1>0, <1>1, <2>1, <2>2 DEF Enrolment
  <2> QED  BY <1>0, <1>1, <2>1, <2>3, IssuingKeepsIt
<1>2. CASE ~(enrolment.on /\ enrolment.lastCounter < work[r].counter)
  BY <1>0, <1>2, FinishingIsQuiet DEF ReplaceBatch
<1> QED  BY <1>1, <1>2

LEMMA SpendingKeepsIt ==
  ASSUME IInv, NEW r \in Requests, SpendCode(r)
  PROVE  IInv'
<1> DEFINE row == work[r].given
<1>0. /\ FactorTypeOK /\ UnusedIsUnspent /\ StepsAreBehind /\ ProtectedByOneBatch /\ ProofsAreTakenOnce
      /\ enrolment \in Enrolment /\ guesses \in Nat /\ row \in Row
      /\ codes \in [Row -> {"absent", "unused", "used"}]
      /\ accepted \in [steps : SUBSET (1 .. MaxCounter), rows : SUBSET Row, twice : BOOLEAN]
      /\ UNCHANGED <<enrolment, guesses>> /\ Finish(r)
  BY DEF IInv, FactorTypeOK, Ready, SpendCode, Doing
<1>1. CASE codes[row] # "unused"
  BY <1>0, <1>1, FinishingIsQuiet DEF SpendCode
<1>2. CASE codes[row] = "unused"
  <2>1. codes' = [codes EXCEPT ![row] = "used"] /\ accepted' = RowTaken(row)
    BY <1>2 DEF SpendCode
  <2> HIDE DEF row
  <2>2. /\ accepted' \in [steps : SUBSET (1 .. MaxCounter), rows : SUBSET Row, twice : BOOLEAN]
        /\ accepted'.steps = accepted.steps /\ accepted'.rows = accepted.rows \cup {row}
        /\ accepted'.twice = (accepted.twice \/ row \in accepted.rows)
    BY <1>0, <2>1 DEF RowTaken
  <2>3. row \notin accepted.rows
    BY <1>0, <1>2 DEF UnusedIsUnspent
  <2>4. /\ codes' \in [Row -> {"absent", "unused", "used"}]
        /\ \A k \in Row : codes'[k] = IF k = row THEN "used" ELSE codes[k]
    BY <1>0, <2>1
  <2>5. \A p \in Requests \ {r} : Ready(work[p], codes, accepted) => Ready(work[p], codes', accepted')
    <3> SUFFICES ASSUME NEW p \in Requests \ {r}, Ready(work[p], codes, accepted), work[p].step = "proven"
                 PROVE  Untouched(work[p].batch, codes', accepted')
      BY DEF Ready
    <3>1. work[p].batch \in Batches /\ Untouched(work[p].batch, codes, accepted)
      BY DEF Ready
    <3>2. \A c \in Codes : <<work[p].batch, c>> \in Row /\ <<work[p].batch, c>> # row
      BY <1>2, <3>1 DEF Row, Untouched
    <3> QED  BY <2>2, <2>4, <3>1, <3>2 DEF Untouched
  <2>6. /\ work' \in [Requests -> Task]
        /\ \A p \in Requests : Ready(work'[p], codes', accepted')
        /\ \A p, x \in Requests : p # x => Distinct(work'[p], work'[x])
    <3>1. PICK table, taken : table = codes' /\ taken = accepted'
      OBVIOUS
    <3>2. \A p \in Requests \ {r} : Ready(work[p], codes, accepted) => Ready(work[p], table, taken)
      BY <2>5, <3>1
    <3>3. /\ work' \in [Requests -> Task]
          /\ \A p \in Requests : Ready(work'[p], table, taken)
          /\ \A p, x \in Requests : p # x => Distinct(work'[p], work'[x])
      BY <1>0, <3>2, OthersStayReady DEF Finish, Become
    <3> QED  BY <3>1, <3>3
  <2>7. UnusedIsUnspent'
    BY <1>0, <2>2, <2>4 DEF UnusedIsUnspent
  <2>8. StepsAreBehind' /\ ProofsAreTakenOnce'
    BY <1>0, <2>2, <2>3 DEF StepsAreBehind, ProofsAreTakenOnce
  <2>9. ProtectedByOneBatch'
    <3>1. {k \in Row : codes'[k] # "absent"} = {k \in Row : codes[k] # "absent"}
      BY <1>2, <2>4
    <3> QED  BY <1>0, <3>1 DEF ProtectedByOneBatch
  <2>10. FactorTypeOK'
    BY <1>0, <2>2, <2>4, <2>6 DEF FactorTypeOK
  <2> QED  BY <2>6, <2>7, <2>8, <2>9, <2>10 DEF IInv
<1> QED  BY <1>1, <1>2

\* Time, the limiter and stuttering leave the codes and what was taken alone.
LEMMA TheRestKeepsIt ==
  ASSUME IInv, \/ TickDraft
               \/ UNCHANGED factorVars
  PROVE  IInv'
<1>0. /\ FactorTypeOK /\ enrolment \in Enrolment
      /\ UNCHANGED <<codes, work, guesses, accepted>>
  BY DEF IInv, FactorTypeOK, TickDraft, factorVars
<1>1. enrolment' \in Enrolment /\ enrolment'.on = enrolment.on /\ enrolment'.lastCounter = enrolment.lastCounter
  <2>1. CASE TickDraft
    <3>1. (IF enrolment.draftLeft > 0 THEN enrolment.draftLeft - 1 ELSE 0) \in 0 .. Draft
      BY <1>0, Bounds DEF Enrolment
    <3> QED  BY <1>0, <2>1, <3>1 DEF TickDraft, Enrolment
  <2>2. CASE UNCHANGED factorVars
    BY <1>0, <2>2 DEF factorVars
  <2> QED  BY <2>1, <2>2
<1>2. FactorTypeOK'
  BY <1>0, <1>1 DEF FactorTypeOK
<1>3. UnusedIsUnspent' /\ StepsAreBehind' /\ ProtectedByOneBatch' /\ ProofsAreTakenOnce'
  BY <1>0, <1>1 DEF IInv, UnusedIsUnspent, StepsAreBehind, ProtectedByOneBatch, ProofsAreTakenOnce
<1> QED  BY <1>0, <1>2, <1>3 DEF IInv

-----------------------------------------------------------------------------
LEMMA InitEstablishesIt == Init => IInv
<1> SUFFICES ASSUME Init PROVE IInv
  OBVIOUS
<1>1. FactorTypeOK
  BY Bounds, IdleIsReady DEF Init, FactorTypeOK, Enrolment
<1>2. \A r \in Requests : work[r] = Idle
  BY DEF Init
<1>3. UnusedIsUnspent /\ StepsAreBehind /\ ProtectedByOneBatch /\ ProofsAreTakenOnce
  BY DEF Init, UnusedIsUnspent, StepsAreBehind, ProtectedByOneBatch, ProofsAreTakenOnce
<1> QED  BY <1>1, <1>2, <1>3, IdleIsReady DEF IInv

LEMMA StepsKeepIt == IInv /\ [Next]_vars => IInv'
<1> SUFFICES ASSUME IInv, [Next]_vars PROVE IInv'
  OBVIOUS
<1>1. ASSUME NEW r \in Requests, Ask(r) PROVE IInv'
  BY <1>1, DraftsAreQuiet, ProvingKeepsIt, MatchingKeepsIt DEF Ask
<1>2. ASSUME NEW r \in Requests, Serve(r) PROVE IInv'
  BY <1>2, DraftsAreQuiet, ProvingKeepsIt, CommittingKeepsIt, ReplacingKeepsIt, SpendingKeepsIt DEF Serve
<1> QED  BY <1>1, <1>2, TheRestKeepsIt DEF Next, vars

-----------------------------------------------------------------------------
(* The theorems.                                                           *)

\* Confirming, replacing and spending, however they overlap, leave an account with one
\* whole batch of recovery codes while its factor is on, and with none while it is off.
THEOREM AccountsHoldOneBatch == Spec => []ProtectedByOneBatch
<1>1. IInv => ProtectedByOneBatch
  BY DEF IInv
<1> QED  BY <1>1, InitEstablishesIt, StepsKeepIt, PTL DEF Spec

\* No time step and no recovery code is taken twice: the conditional statements at the
\* end of each request decide between those that found the same proof good.
THEOREM NoProofIsTakenTwice == Spec => []ProofsAreTakenOnce
<1>1. IInv => ProofsAreTakenOnce
  BY DEF IInv
<1> QED  BY <1>1, InitEstablishesIt, StepsKeepIt, PTL DEF Spec

-----------------------------------------------------------------------------
(* The budget.                                                             *)
(*                                                                         *)
(* A draft lives as long as a window.  A key of the attempts that expires  *)
(* before the draft was there when it was drafted, and had counted one     *)
(* attempt then; after it there is time for one more.  What is counted are *)
(* the codes judged wrong and those let through that still may be.         *)

\* The requests that were let through and have not used it yet; of them, those that
\* bring a code sent to the draft there is.
Admitted == {r \in Requests : calls[r] = "admitted"}

Guessing == {r \in Admitted : /\ work[r].op = "confirm" /\ work[r].step # "idle"
                             /\ work[r].aim = enrolment.secret}

\* How much of the budget has been granted.
Granted(key) == Lower(key.count, Points)

KeyLives(key) == key = Fresh \/ (key.count >= 1 /\ key.left >= 1)

\* What has been guessed at a draft with so long to live, and what still may be.
Budgeted(key, left, guessed, admitted) ==
  /\ key = Fresh => guessed + admitted <= Points - 1
  /\ key # Fresh /\ key.left < left => guessed + admitted <= Granted(key) - 1
  /\ key # Fresh /\ key.left >= left => guessed + admitted <= Points - 1 + Granted(key)

\* Nothing is forgotten before the factor is on, and from then on nothing is guessed.
Within(key, account, guessed, admitted) ==
  ~account.on =>
    /\ KeyLives(key)
    /\ account.draftLeft > 0 => Budgeted(key, account.draftLeft, guessed, admitted)

SuccessTurnsOn == \A r \in Requests : calls[r] \in {"succeeded", "cleared"} => enrolment.on

\* The inductive invariant, beside FactorTypeOK.
BudgetInv ==
  /\ LimiterTypeOK /\ IsFiniteSet(Admitted)
  /\ SuccessTurnsOn
  /\ Within(attempts, enrolment, guesses, Cardinality(Guessing))
  /\ GuessesAreBounded

-----------------------------------------------------------------------------
(* The arithmetic of a key, whoever holds it.                              *)

LEMMA Windows ==
  /\ Points \in Nat \ {0} /\ Window \in Nat \ {0} /\ Draft = Window /\ Block \in Nat \ {0}
  /\ Block >= Window /\ MaxBlock \in Nat /\ MaxBlock >= Block /\ Memory \in Nat \ {0}
BY LimiterAssumption, FactorAssumption DEF LimiterAssumption, FactorAssumption

LEMMA KeyFields ==
  ASSUME NEW key \in Counter
  PROVE  /\ key.count \in Nat /\ key.left \in Nat
         /\ key = Fresh <=> key.count = 0 /\ key.left = 0
         /\ Granted(key) = IF key.count < Points THEN key.count ELSE Points
<1>1. key = [count |-> key.count, left |-> key.left] /\ key.count \in Nat /\ key.left \in Nat
  BY DEF Counter
<1> QED
  BY <1>1 DEF Fresh, Granted, Lower

LEMMA CountedFields ==
  ASSUME NEW key \in Counter, NEW duration \in Nat
  PROVE  /\ Counted(key, duration) \in Counter
         /\ Counted(key, duration).count =
              IF key.count + 1 < Points + 2 THEN key.count + 1 ELSE Points + 2
         /\ Counted(key, duration).left = IF key = Fresh THEN duration ELSE key.left
BY Windows, KeyFields DEF Counted, Counter, Lower

\* Whoever was let through leaves, or guesses.
LEMMA UsingKeepsBudget ==
  ASSUME NEW key \in Counter, KeyLives(key), NEW a \in Nat, NEW b \in Nat, b <= a,
         NEW left \in 1 .. Window, NEW g \in Nat, Budgeted(key, left, g, a)
  PROVE  /\ Budgeted(key, left, g, b)
         /\ b < a => Budgeted(key, left, g + 1, b) /\ g + 1 <= 2 * Points - 1
<1>1. Budgeted(key, left, g, b)
  BY KeyFields, Windows DEF Budgeted
<1>2. ASSUME b < a PROVE Budgeted(key, left, g + 1, b) /\ g + 1 <= 2 * Points - 1
  BY <1>2, KeyFields, Windows DEF Budgeted
<1> QED
  BY <1>1, <1>2

\* An attempt is counted, and let through while the budget lasts.
LEMMA CountingKeepsBudget ==
  ASSUME NEW key \in Counter, KeyLives(key), NEW a \in Nat
  PROVE  LET new == Counted(key, Window)
             through == IF new.count <= Points THEN a + 1 ELSE a IN
         /\ KeyLives(new)
         /\ \A left \in 1 .. Window, g \in Nat :
              Budgeted(key, left, g, a) => Budgeted(new, left, g, through)
<1> DEFINE new == Counted(key, Window)
           through == IF new.count <= Points THEN a + 1 ELSE a
<1>1. /\ new \in Counter
      /\ new.count = IF key.count + 1 < Points + 2 THEN key.count + 1 ELSE Points + 2
      /\ new.left = IF key = Fresh THEN Window ELSE key.left
  BY CountedFields, Windows
<1> HIDE DEF new
<1>2. new # Fresh /\ new.count >= 1
  BY <1>1, KeyFields, Windows
<1>3. KeyLives(new)
  BY <1>1, <1>2, KeyFields, Windows DEF KeyLives
<1>4. ASSUME NEW left \in 1 .. Window, NEW g \in Nat, Budgeted(key, left, g, a)
      PROVE  Budgeted(new, left, g, through)
  <2>1. CASE key = Fresh
    BY <1>1, <1>2, <1>4, <2>1, KeyFields, Windows DEF Budgeted
  <2>2. CASE key # Fresh
    BY <1>1, <1>2, <1>4, <2>2, KeyFields, Windows DEF Budgeted
  <2> QED
    BY <2>1, <2>2
<1> QED
  BY <1>3, <1>4 DEF new

\* A block that is no shorter than a window outlasts the draft.
LEMMA BlockingKeepsBudget ==
  ASSUME NEW key \in Counter, KeyLives(key), NEW a \in Nat,
         NEW duration \in Nat, duration >= Window
  PROVE  /\ Blocked(duration) \in Counter /\ KeyLives(Blocked(duration))
         /\ \A left \in 1 .. Window, g \in Nat :
              Budgeted(key, left, g, a) => Budgeted(Blocked(duration), left, g, a)
<1> DEFINE new == Blocked(duration)
<1>1. new \in Counter /\ new.count = Points + 1 /\ new.left = duration
  BY Windows DEF Blocked, Counter
<1> HIDE DEF new
<1>2. new # Fresh /\ Granted(new) = Points
  BY <1>1, KeyFields, Windows
<1>3. KeyLives(new)
  BY <1>1, <1>2, Windows DEF KeyLives
<1>4. ASSUME NEW left \in 1 .. Window, NEW g \in Nat, Budgeted(key, left, g, a)
      PROVE  Budgeted(new, left, g, a)
  <2>1. g + a <= 2 * Points - 1
    BY <1>4, KeyFields, Windows DEF Budgeted
  <2> QED
    BY <1>1, <1>2, <2>1, Windows DEF Budgeted
<1> QED
  BY <1>1, <1>3, <1>4 DEF new

\* A tick brings the key and the draft nearer to their ends, whoever is on the way.
LEMMA AgeingKeepsBudget ==
  ASSUME NEW key \in Counter, KeyLives(key), NEW a \in Nat
  PROVE  /\ Aged(key) \in Counter /\ KeyLives(Aged(key))
         /\ \A left \in 1 .. Window, g \in Nat :
              Budgeted(key, left, g, a) /\ left > 1 => Budgeted(Aged(key), left - 1, g, a)
<1>1. CASE key.left <= 1
  <2>1. Aged(key) = Fresh /\ Fresh \in Counter
    BY <1>1 DEF Aged, Fresh, Counter
  <2>2. ASSUME NEW left \in 1 .. Window, NEW g \in Nat, Budgeted(key, left, g, a), left > 1
        PROVE  Budgeted(Fresh, left - 1, g, a)
    <3>1. g + a <= Points - 1
      BY <1>1, <2>2, KeyFields, Windows DEF Budgeted
    <3> QED
      BY <3>1 DEF Budgeted
  <2> QED
    BY <2>1, <2>2 DEF KeyLives
<1>2. CASE key.left > 1
  <2> DEFINE new == Aged(key)
  <2>1. new \in Counter /\ new.count = key.count /\ new.left = key.left - 1
    BY <1>2 DEF Aged, Counter
  <2> HIDE DEF new
  <2>2. new # Fresh /\ key # Fresh /\ KeyLives(new)
    BY <1>2, <2>1, KeyFields, Windows DEF KeyLives
  <2>3. ASSUME NEW left \in 1 .. Window, NEW g \in Nat, Budgeted(key, left, g, a), left > 1
        PROVE  Budgeted(new, left - 1, g, a)
    BY <1>2, <2>1, <2>2, <2>3, KeyFields, Windows DEF Budgeted
  <2> QED
    BY <2>1, <2>2, <2>3 DEF new
<1> QED
  BY <1>1, <1>2, KeyFields

-----------------------------------------------------------------------------
(* The steps.                                                              *)

\* Powers of two are positive: arithmetic the provers at hand have no rule for.
PowersArePositive == \A n \in Nat : 2 ^ n >= 1

LEMMA BlocksOutlastTheWindow ==
  ASSUME PowersArePositive, NEW times \in Nat
  PROVE  EscalatedBlock(times) \in Nat /\ EscalatedBlock(times) >= Window
<1> DEFINE n == IF times > 1 THEN times - 1 ELSE 0
           longest == Block * 2 ^ n
<1>1. n \in Nat
  OBVIOUS
<1>2. 2 ^ n \in Int /\ 2 ^ n >= 1
  BY <1>1 DEF PowersArePositive
<1>3. \A p \in Int : p >= 1 => Block * p \in Int /\ Block * p >= Block
  BY Windows
<1>4. longest \in Int /\ longest >= Block
  BY <1>2, <1>3
<1>5. EscalatedBlock(times) = IF longest < MaxBlock THEN longest ELSE MaxBlock
  BY DEF EscalatedBlock, Lower
<1> HIDE DEF longest
<1> QED
  BY <1>4, <1>5, Windows

\* How many bring codes, when at most one request has changed.
LEMMA HowManyGuess ==
  ASSUME IsFiniteSet(Admitted)
  PROVE  /\ IsFiniteSet(Guessing) /\ Cardinality(Guessing) \in Nat
         /\ \A S : S \subseteq Guessing =>
              IsFiniteSet(S) /\ Cardinality(S) \in Nat /\ Cardinality(S) <= Cardinality(Guessing)
         /\ \A r \in Guessing : \A S : S \subseteq Guessing \ {r} => Cardinality(S) < Cardinality(Guessing)
         /\ \A r, S : S \subseteq Guessing \cup {r} =>
              Cardinality(S) \in Nat /\ Cardinality(S) <= Cardinality(Guessing) + 1
<1>1. IsFiniteSet(Guessing)
  <2>1. Guessing \subseteq Admitted
    BY DEF Guessing
  <2> QED
    BY <2>1, FS_Subset
<1>2. Cardinality(Guessing) \in Nat
  BY <1>1, FS_CardinalityType
<1>3. \A S : S \subseteq Guessing =>
        IsFiniteSet(S) /\ Cardinality(S) \in Nat /\ Cardinality(S) <= Cardinality(Guessing)
  BY <1>1, FS_Subset, FS_CardinalityType
<1>4. ASSUME NEW r \in Guessing, NEW S, S \subseteq Guessing \ {r}
      PROVE  Cardinality(S) < Cardinality(Guessing)
  <2>1. IsFiniteSet(Guessing \ {r}) /\ Cardinality(Guessing \ {r}) = Cardinality(Guessing) - 1
    BY <1>1, FS_RemoveElement
  <2>2. Cardinality(S) <= Cardinality(Guessing \ {r}) /\ Cardinality(S) \in Nat
    BY <1>4, <2>1, FS_Subset, FS_CardinalityType
  <2> QED
    BY <1>2, <2>1, <2>2
<1>5. ASSUME NEW r, NEW S, S \subseteq Guessing \cup {r}
      PROVE  Cardinality(S) \in Nat /\ Cardinality(S) <= Cardinality(Guessing) + 1
  <2>1. /\ IsFiniteSet(Guessing \cup {r}) /\ Cardinality(Guessing \cup {r}) \in Nat
        /\ Cardinality(Guessing \cup {r}) <= Cardinality(Guessing) + 1
    <3>1. CASE r \in Guessing
      <4> DEFINE n == Cardinality(Guessing)
                 m == Cardinality(Guessing \cup {r})
      <4>1. Guessing \cup {r} = Guessing
        BY <3>1
      <4>2. IsFiniteSet(Guessing \cup {r}) /\ m = n
        BY <1>1, <4>1
      <4> HIDE DEF n, m
      <4>3. m \in Nat /\ m <= n + 1
        BY <1>2, <4>2 DEF n
      <4> QED
        BY <4>2, <4>3 DEF n, m
    <3>2. CASE r \notin Guessing
      BY <1>1, <1>2, <3>2, FS_AddElement
    <3> QED
      BY <3>1, <3>2
  <2>2. Cardinality(S) <= Cardinality(Guessing \cup {r}) /\ Cardinality(S) \in Nat
    BY <1>5, <2>1, FS_Subset, FS_CardinalityType
  <2> QED
    BY <1>2, <2>1, <2>2
<1> QED
  BY <1>1, <1>2, <1>3, <1>4, <1>5

\* What a request that says something leaves as it was, whatever else it does.
LEMMA SayingKeepsTypes ==
  ASSUME BudgetInv, NEW r \in Requests, NEW call \in Call, Say(r, call),
         attempts' \in Counter, penalties' \in Counter, breaches' \in [Requests -> Nat],
         call \in {"succeeded", "cleared"} => enrolment'.on, enrolment.on => enrolment'.on
  PROVE  /\ LimiterTypeOK' /\ IsFiniteSet(Admitted') /\ SuccessTurnsOn'
         /\ calls'[r] = call /\ \A q \in Requests \ {r} : calls'[q] = calls[q]
<1>1. /\ calls' \in [Requests -> Call] /\ calls'[r] = call
      /\ \A q \in Requests \ {r} : calls'[q] = calls[q]
  BY DEF Say, BudgetInv, LimiterTypeOK
<1>2. IsFiniteSet(Admitted')
  <2>1. Admitted' \subseteq Admitted \cup {r}
    BY <1>1 DEF Admitted
  <2>2. IsFiniteSet(Admitted \cup {r})
    BY FS_AddElement DEF BudgetInv
  <2> QED
    BY <2>1, <2>2, FS_Subset
<1> QED
  BY <1>1, <1>2 DEF BudgetInv, LimiterTypeOK, SuccessTurnsOn

\* A request that has done what it was let through for, or was not: the draft stays as
\* it was, or is over.
LEMMA MovingKeepsBudget ==
  ASSUME BudgetInv, FactorTypeOK, NEW r \in Requests, NEW call \in Call \ {"admitted"}, Say(r, call),
         \A q \in Requests \ {r} : work'[q] = work[q],
         attempts' = attempts, penalties' \in Counter, breaches' \in [Requests -> Nat],
         call \in {"succeeded", "cleared"} => enrolment'.on, enrolment.on => enrolment'.on,
         \/ UNCHANGED <<enrolment, guesses>>
         \/ guesses' = 0 /\ (enrolment'.on \/ enrolment'.draftLeft = 0)
  PROVE  BudgetInv'
<1>1. attempts \in Counter /\ guesses \in Nat /\ enrolment.draftLeft \in 0 .. Window
  BY Windows DEF BudgetInv, LimiterTypeOK, FactorTypeOK, Enrolment
<1>2. /\ LimiterTypeOK' /\ IsFiniteSet(Admitted') /\ SuccessTurnsOn'
      /\ calls'[r] = call /\ \A q \in Requests \ {r} : calls'[q] = calls[q]
  BY <1>1, SayingKeepsTypes
<1>3. GuessesAreBounded'
  BY Windows DEF BudgetInv, GuessesAreBounded
<1>4. Within(attempts, enrolment, guesses, Cardinality(Guessing))'
  <2>1. CASE UNCHANGED <<enrolment, guesses>>
    <3>1. Guessing' \subseteq Guessing
      BY <1>2, <2>1 DEF Guessing, Admitted
    <3> DEFINE a == Cardinality(Guessing)
               b == Cardinality(Guessing')
    <3>2. a \in Nat /\ b \in Nat /\ b <= a
      BY <3>1, HowManyGuess DEF BudgetInv
    <3>3. Within(attempts, enrolment, guesses, a)
      BY DEF BudgetInv
    <3> HIDE DEF a, b
    <3>4. Within(attempts, enrolment, guesses, b)
      BY <1>1, <3>2, <3>3, UsingKeepsBudget, Windows DEF Within
    <3>5. Within(attempts', enrolment', guesses', b)
      BY <2>1, <3>4
    <3> QED
      BY <3>5 DEF b
  <2>2. CASE enrolment'.on \/ enrolment'.draftLeft = 0
    BY <2>2 DEF BudgetInv, Within
  <2> QED
    BY <2>1, <2>2
<1> QED
  BY <1>2, <1>3, <1>4 DEF BudgetInv

\* Nobody moves with the limiter, and the draft stays.
LEMMA StandingKeepsBudget ==
  ASSUME BudgetInv, UNCHANGED <<limiterVars, guesses>>, Guessing' = Guessing,
         enrolment'.on = enrolment.on, enrolment'.draftLeft = enrolment.draftLeft
  PROVE  BudgetInv'
<1>1. Admitted' = Admitted /\ LimiterTypeOK' /\ SuccessTurnsOn' /\ GuessesAreBounded'
  BY DEF BudgetInv, Admitted, limiterVars, LimiterTypeOK, SuccessTurnsOn, GuessesAreBounded
<1>2. Within(attempts, enrolment, guesses, Cardinality(Guessing))'
  BY DEF BudgetInv, limiterVars, Within
<1> QED
  BY <1>1, <1>2 DEF BudgetInv

\* The key changes under the feet of those that were let through.
LEMMA KeyingKeepsBudget ==
  ASSUME BudgetInv, FactorTypeOK, NEW r \in Requests, NEW call \in Call, Say(r, call),
         UNCHANGED factorVars, attempts' \in Counter, penalties' \in Counter,
         breaches' \in [Requests -> Nat], call \in {"succeeded", "cleared"} => enrolment.on,
         NEW through \in Nat,
         through = IF call = "admitted" THEN Cardinality(Guessing) + 1 ELSE Cardinality(Guessing),
         Within(attempts', enrolment, guesses, through)
  PROVE  BudgetInv'
<1>0. UNCHANGED <<enrolment, guesses, work>>
  BY DEF factorVars
<1>1. /\ LimiterTypeOK' /\ IsFiniteSet(Admitted') /\ SuccessTurnsOn'
      /\ calls'[r] = call /\ \A q \in Requests \ {r} : calls'[q] = calls[q]
  BY <1>0, SayingKeepsTypes
<1>2. GuessesAreBounded'
  BY <1>0 DEF BudgetInv, GuessesAreBounded
<1>3. /\ Guessing' \subseteq Guessing \cup {r}
      /\ call # "admitted" => Guessing' \subseteq Guessing
  BY <1>0, <1>1 DEF Guessing, Admitted
<1> DEFINE b == Cardinality(Guessing')
<1>4. b \in Nat /\ b <= through
  BY <1>3, HowManyGuess DEF BudgetInv
<1> HIDE DEF b
<1>5. attempts' \in Counter /\ guesses \in Nat /\ enrolment.draftLeft \in 0 .. Window
  BY Windows DEF BudgetInv, LimiterTypeOK, FactorTypeOK, Enrolment
<1>6. Within(attempts', enrolment, guesses, b)
  <2> SUFFICES ASSUME ~enrolment.on
               PROVE  /\ KeyLives(attempts')
                      /\ enrolment.draftLeft > 0 =>
                           Budgeted(attempts', enrolment.draftLeft, guesses, b)
    BY DEF Within
  <2>1. KeyLives(attempts')
    BY DEF Within
  <2>2. ASSUME enrolment.draftLeft > 0
        PROVE  Budgeted(attempts', enrolment.draftLeft, guesses, b)
    <3>1. enrolment.draftLeft \in 1 .. Window /\ Budgeted(attempts', enrolment.draftLeft, guesses, through)
      BY <1>5, <2>2, Windows DEF Within
    <3> QED
      BY <1>4, <1>5, <2>1, <3>1, UsingKeepsBudget
  <2> QED
    BY <2>1, <2>2
<1>7. Within(attempts, enrolment, guesses, Cardinality(Guessing))'
  BY <1>0, <1>6 DEF b
<1> QED
  BY <1>1, <1>2, <1>7 DEF BudgetInv

LEMMA LimitKeepsBudget ==
  ASSUME PowersArePositive, BudgetInv, FactorTypeOK, NEW r \in Requests, Limit(r), UNCHANGED factorVars
  PROVE  BudgetInv'
<1> DEFINE a == Cardinality(Guessing)
<1>1. /\ attempts \in Counter /\ penalties \in Counter /\ guesses \in Nat
      /\ calls \in [Requests -> Call] /\ breaches \in [Requests -> Nat]
      /\ enrolment.draftLeft \in 0 .. Window /\ UNCHANGED <<enrolment, guesses, work>>
  BY Windows DEF BudgetInv, LimiterTypeOK, FactorTypeOK, Enrolment, factorVars
<1>2. a \in Nat
  BY HowManyGuess DEF BudgetInv
<1>3. Within(attempts, enrolment, guesses, a)
  BY DEF BudgetInv
<1> HIDE DEF a
<1>4. CASE CountAttempt(r)
  <2> DEFINE new == Counted(attempts, Window)
             through == IF new.count <= Points THEN a + 1 ELSE a
             call == CASE new.count <= Points -> "admitted"
                       [] new.count = Points + 1 -> "exhausted"
                       [] OTHER -> "refused"
  <2>1. attempts' = new /\ Say(r, call) /\ UNCHANGED <<penalties, breaches>>
    BY <1>4 DEF CountAttempt
  <2>2. new \in Counter /\ new.count \in Nat
    BY <1>1, CountedFields, KeyFields, Windows
  <2>3. Within(new, enrolment, guesses, through)
    <3> SUFFICES ASSUME ~enrolment.on
                 PROVE  /\ KeyLives(new)
                        /\ enrolment.draftLeft > 0 =>
                             Budgeted(new, enrolment.draftLeft, guesses, through)
      BY DEF Within
    <3>1. KeyLives(attempts)
      BY <1>3 DEF Within
    <3>2. ASSUME enrolment.draftLeft > 0
          PROVE  enrolment.draftLeft \in 1 .. Window /\ Budgeted(attempts, enrolment.draftLeft, guesses, a)
      BY <1>1, <1>3, <3>2, Windows DEF Within
    <3> QED
      BY <1>1, <1>2, <3>1, <3>2, CountingKeepsBudget
  <2> HIDE DEF new
  <2>4. /\ call \in Call /\ call \notin {"succeeded", "cleared"}
        /\ call = "admitted" <=> new.count <= Points
    BY <2>2, Windows DEF Call
  <2> HIDE DEF call
  <2>5. through \in Nat /\ through = IF call = "admitted" THEN a + 1 ELSE a
    BY <1>2, <2>4
  <2> HIDE DEF through
  <2> QED
    BY <1>1, <2>1, <2>2, <2>3, <2>4, <2>5, KeyingKeepsBudget DEF a
<1>5. ASSUME NEW duration \in Nat, duration >= Window, attempts' = Blocked(duration),
             NEW call \in {"blocked", "refused"}, Say(r, call),
             penalties' = penalties, breaches' \in [Requests -> Nat]
      PROVE  BudgetInv'
  <2>1. call \in Call /\ call \notin {"succeeded", "cleared", "admitted"}
    BY <1>5 DEF Call
  <2>2. Within(Blocked(duration), enrolment, guesses, a)
    <3> SUFFICES ASSUME ~enrolment.on
                 PROVE  /\ KeyLives(Blocked(duration))
                        /\ enrolment.draftLeft > 0 =>
                             Budgeted(Blocked(duration), enrolment.draftLeft, guesses, a)
      BY DEF Within
    <3>1. KeyLives(attempts)
      BY <1>3 DEF Within
    <3>2. ASSUME enrolment.draftLeft > 0
          PROVE  enrolment.draftLeft \in 1 .. Window /\ Budgeted(attempts, enrolment.draftLeft, guesses, a)
      BY <1>1, <1>3, <3>2, Windows DEF Within
    <3> QED
      BY <1>1, <1>2, <1>5, <3>1, <3>2, BlockingKeepsBudget
  <2>3. Blocked(duration) \in Counter
    BY <1>5, Windows DEF Blocked, Counter
  <2> QED
    BY <1>1, <1>2, <1>5, <2>1, <2>2, <2>3, KeyingKeepsBudget DEF a
<1>6. CASE BlockOnce(r)
  BY <1>1, <1>5, <1>6, Windows DEF BlockOnce
<1>7. CASE LengthenBlock(r)
  <2>1. breaches[r] \in Nat /\ breaches' \in [Requests -> Nat]
    BY <1>1, <1>7 DEF LengthenBlock
  <2>2. EscalatedBlock(breaches[r]) \in Nat /\ EscalatedBlock(breaches[r]) >= Window
    BY <2>1, BlocksOutlastTheWindow
  <2> QED
    BY <1>5, <1>7, <2>1, <2>2 DEF LengthenBlock
<1>8. CASE CountPenalty(r)
  <2>1. penalties' \in Counter /\ penalties'.count \in Nat
    BY <1>1, <1>8, CountedFields, KeyFields, Windows DEF CountPenalty
  <2>2. breaches' \in [Requests -> Nat]
    BY <1>1, <1>8, <2>1 DEF CountPenalty
  <2>3. "penalised" \in Call \ {"admitted"}
    BY DEF Call
  <2> QED
    BY <1>1, <1>8, <2>1, <2>2, <2>3, MovingKeepsBudget DEF CountPenalty
<1>9. CASE LoseStore(r)
  <2>1. PICK call \in {"unavailable", "refused", "none"} : Say(r, call)
    BY <1>9 DEF LoseStore, Unavailable
  <2>2. call \in Call \ {"admitted"} /\ call \notin {"succeeded", "cleared"}
    BY DEF Call
  <2>3. breaches' \in [Requests -> Nat] /\ UNCHANGED <<attempts, penalties>>
    BY <1>1, <1>9 DEF LoseStore
  <2> QED
    BY <1>1, <2>1, <2>2, <2>3, MovingKeepsBudget
<1>10. CASE ClearAttempts(r)
  <2>1. enrolment.on
    BY <1>10 DEF ClearAttempts, BudgetInv, SuccessTurnsOn
  <2>2. /\ "cleared" \in Call \ {"admitted"} /\ Say(r, "cleared") /\ attempts' \in Counter
        /\ UNCHANGED <<penalties, breaches>>
    BY <1>10 DEF ClearAttempts, Call, Counter, Fresh
  <2>3. Within(attempts', enrolment, guesses, a)
    BY <2>1 DEF Within
  <2> QED
    BY <1>1, <1>2, <2>1, <2>2, <2>3, KeyingKeepsBudget DEF a
<1>11. CASE ClearPenalties(r)
  <2>1. "none" \in Call \ {"admitted"} /\ penalties' \in Counter
    BY <1>11 DEF ClearPenalties, Call, Counter, Fresh
  <2> QED
    BY <1>1, <1>11, <2>1, MovingKeepsBudget DEF ClearPenalties
<1> QED
  BY <1>4, <1>6, <1>7, <1>8, <1>9, <1>10, <1>11 DEF Limit

LEMMA AskKeepsBudget ==
  ASSUME BudgetInv, FactorTypeOK, NEW r \in Requests, Ask(r)
  PROVE  BudgetInv'
<1>0. penalties \in Counter /\ breaches \in [Requests -> Nat] /\ "asking" \in Call \ {"admitted"}
  BY DEF BudgetInv, LimiterTypeOK, Call
<1>1. ASSUME NEW n, Become(r, n) PROVE \A q \in Requests \ {r} : work'[q] = work[q]
  BY <1>1 DEF Become, FactorTypeOK
<1>2. CASE AskSetup(r)
  BY <1>0, <1>1, <1>2, MovingKeepsBudget DEF AskSetup
<1>3. ASSUME NEW s, NEW c, AskConfirm(r, s, c) PROVE BudgetInv'
  BY <1>0, <1>1, <1>3, MovingKeepsBudget DEF AskConfirm
<1>4. ASSUME NEW n, Become(r, n), calls[r] = "none", UNCHANGED <<limiterVars, enrolment, guesses>>
      PROVE  BudgetInv'
  <2>1. Guessing' = Guessing
    <3>1. UNCHANGED <<calls, enrolment>>
      BY <1>4 DEF limiterVars
    <3> QED
      BY <1>1, <1>4, <3>1 DEF Guessing, Admitted
  <2> QED
    BY <1>4, <2>1, StandingKeepsBudget
<1>5. ASSUME NEW c, JudgeForBatch(r, c) PROVE BudgetInv'
  BY <1>4, <1>5 DEF JudgeForBatch
<1>6. ASSUME NEW row, MatchCode(r, row) PROVE BudgetInv'
  BY <1>4, <1>6 DEF MatchCode
<1> QED
  BY <1>2, <1>3, <1>5, <1>6 DEF Ask

\* No code was sent to a draft that has just begun.
LEMMA DraftingKeepsBudget ==
  ASSUME BudgetInv, FactorTypeOK, NEW r \in Requests, BeginDraft(r), ~enrolment.on
  PROVE  BudgetInv'
<1>1. /\ Say(r, "none") /\ guesses' = 0 /\ Finish(r) /\ "none" \in Call
      /\ UNCHANGED <<attempts, penalties, breaches>>
  BY DEF BeginDraft, Call
<1>2. PICK s \in Secrets :
        /\ FreshSecret(s)
        /\ enrolment' = [enrolment EXCEPT !.secret = s, !.draftLeft = Draft, !.lastCounter = 0]
  BY DEF BeginDraft
<1>3. enrolment'.secret = s /\ enrolment'.on = enrolment.on /\ enrolment'.draftLeft = Window
  BY <1>2, Windows DEF FactorTypeOK, Enrolment
<1>4. /\ LimiterTypeOK' /\ IsFiniteSet(Admitted') /\ SuccessTurnsOn' /\ calls'[r] = "none"
  BY <1>1, <1>3, SayingKeepsTypes DEF BudgetInv, LimiterTypeOK
<1>5. Guessing' = {} /\ Cardinality(Guessing') = 0
  <2>1. \A q \in Requests \ {r} : work'[q] = work[q] /\ work[q].aim # s
    BY <1>1, <1>2 DEF Finish, Become, FactorTypeOK, FreshSecret
  <2>2. Guessing' = {}
    BY <1>3, <1>4, <2>1 DEF Guessing, Admitted
  <2> QED
    BY <2>2, FS_EmptySet
<1>6. attempts \in Counter /\ KeyLives(attempts)
  BY DEF BudgetInv, LimiterTypeOK, Within
<1>7. Budgeted(attempts, Window, 0, 0)
  BY <1>6, KeyFields, Windows DEF KeyLives, Budgeted
<1>8. Within(attempts, enrolment, guesses, Cardinality(Guessing))'
  BY <1>1, <1>3, <1>5, <1>6, <1>7 DEF Within
<1>9. GuessesAreBounded'
  BY <1>1, Windows DEF GuessesAreBounded
<1> QED
  BY <1>4, <1>8, <1>9 DEF BudgetInv

\* A wrong code is a guess, and was let through.
LEMMA GuessingKeepsBudget ==
  ASSUME BudgetInv, FactorTypeOK, NEW r \in Requests, r \in Guessing, Say(r, "none"), Finish(r),
         DraftLive, guesses' = guesses + 1,
         UNCHANGED <<attempts, penalties, breaches, enrolment>>
  PROVE  BudgetInv'
<1>1. "none" \in Call /\ attempts \in Counter /\ penalties \in Counter /\ breaches \in [Requests -> Nat]
  BY DEF Call, BudgetInv, LimiterTypeOK
<1>2. /\ LimiterTypeOK' /\ IsFiniteSet(Admitted') /\ SuccessTurnsOn'
      /\ calls'[r] = "none" /\ \A q \in Requests \ {r} : calls'[q] = calls[q]
  BY <1>1, SayingKeepsTypes
<1>3. Guessing' \subseteq Guessing \ {r}
  BY <1>2 DEF Guessing, Admitted, Finish, Become, FactorTypeOK
<1> DEFINE a == Cardinality(Guessing)
           b == Cardinality(Guessing')
<1>4. a \in Nat /\ b \in Nat /\ b < a
  BY <1>3, HowManyGuess DEF BudgetInv
<1>5. Within(attempts, enrolment, guesses, a)
  BY DEF BudgetInv
<1> HIDE DEF a, b
<1>6. /\ guesses \in Nat /\ ~enrolment.on /\ enrolment.draftLeft \in 1 .. Window /\ KeyLives(attempts)
      /\ Budgeted(attempts, enrolment.draftLeft, guesses, a)
  BY <1>5, Windows DEF FactorTypeOK, Enrolment, Within, DraftLive
<1>7. Budgeted(attempts, enrolment.draftLeft, guesses + 1, b) /\ guesses + 1 <= 2 * Points - 1
  BY <1>1, <1>4, <1>6, UsingKeepsBudget
<1>8. Within(attempts, enrolment, guesses, Cardinality(Guessing))' /\ GuessesAreBounded'
  BY <1>6, <1>7 DEF Within, GuessesAreBounded, b
<1> QED
  BY <1>2, <1>8 DEF BudgetInv

LEMMA ServeKeepsBudget ==
  ASSUME BudgetInv, FactorTypeOK, NEW r \in Requests, Serve(r)
  PROVE  BudgetInv'
<1>1. /\ "none" \in Call \ {"admitted"} /\ "succeeded" \in Call \ {"admitted"}
      /\ penalties \in Counter /\ breaches \in [Requests -> Nat]
      /\ enrolment \in Enrolment
  BY DEF Call, BudgetInv, LimiterTypeOK, FactorTypeOK
<1>0. ASSUME NEW n, Become(r, n)
      PROVE  \A q \in Requests \ {r} : work'[q] = work[q]
  BY <1>0 DEF Become, FactorTypeOK
<1>2. CASE BeginDraft(r)
  <2>1. CASE enrolment.on
    BY <1>0, <1>1, <1>2, <2>1, MovingKeepsBudget DEF BeginDraft, Finish
  <2>2. CASE ~enrolment.on
    BY <1>2, <2>2, DraftingKeepsBudget
  <2> QED
    BY <2>1, <2>2
<1>3. CASE AbandonDraft(r)
  <2>1. CASE enrolment.on
    BY <1>0, <1>1, <1>3, <2>1, MovingKeepsBudget DEF AbandonDraft, Finish
  <2>2. CASE ~enrolment.on
    <3>1. enrolment'.draftLeft = 0 /\ guesses' = 0 /\ UNCHANGED <<attempts, penalties, breaches>>
      BY <1>1, <1>3, <2>2 DEF AbandonDraft, Enrolment
    <3>2. Say(r, "none") /\ \A q \in Requests \ {r} : work'[q] = work[q]
      BY <1>0, <1>3 DEF AbandonDraft, Finish
    <3> QED
      BY <1>1, <2>2, <3>1, <3>2, MovingKeepsBudget
  <2> QED
    BY <2>1, <2>2
<1>4. CASE JudgeCode(r)
  <2> DEFINE right == DraftLive /\ work[r].given = enrolment.secret /\ work[r].counter > enrolment.lastCounter
             aimed == DraftLive /\ work[r].aim = enrolment.secret
  <2>0. UNCHANGED <<attempts, penalties, breaches, enrolment>>
    BY <1>4 DEF JudgeCode
  <2>1. CASE ~right
    <3>1. Say(r, "none") /\ Finish(r) /\ guesses' = IF aimed THEN guesses + 1 ELSE guesses
      BY <1>4, <2>1 DEF JudgeCode
    <3>2. CASE ~aimed
      BY <1>0, <1>1, <2>0, <3>1, <3>2, MovingKeepsBudget DEF Finish
    <3>3. CASE aimed
      <4>1. r \in Guessing
        BY <1>4, <3>3 DEF JudgeCode, Doing, Guessing, Admitted
      <4> QED
        BY <2>0, <3>1, <3>3, <4>1, GuessingKeepsBudget
    <3> QED
      BY <3>2, <3>3
  <2>2. CASE right
    <3>1. PICK b \in Batches : Become(r, [work[r] EXCEPT !.step = "proven", !.batch = b])
                             /\ UNCHANGED <<calls, guesses>>
      BY <1>4, <2>2 DEF JudgeCode
    <3>2. work[r].step = "limited"
      BY <1>4 DEF JudgeCode, Doing
    <3>3. /\ work'[r].op = work[r].op /\ work'[r].aim = work[r].aim /\ work'[r].step = "proven"
          /\ \A q \in Requests \ {r} : work'[q] = work[q]
      BY <3>1 DEF Become, FactorTypeOK, Task
    <3>4. Guessing' = Guessing
      BY <2>0, <3>1, <3>2, <3>3 DEF Guessing, Admitted
    <3> QED
      BY <2>0, <3>1, <3>4, StandingKeepsBudget DEF limiterVars
  <2> QED
    BY <2>1, <2>2
<1>5. CASE CommitEnrolment(r)
  <2>0. UNCHANGED <<attempts, penalties, breaches>> /\ \A q \in Requests \ {r} : work'[q] = work[q]
    BY <1>0, <1>5 DEF CommitEnrolment, Finish
  <2>1. CASE ~enrolment.on /\ enrolment.secret # None
    <3>1. enrolment'.on /\ guesses' = 0 /\ Say(r, "succeeded")
      BY <1>1, <1>5, <2>1 DEF CommitEnrolment, Enrolment
    <3> QED
      BY <1>1, <2>0, <3>1, MovingKeepsBudget
  <2>2. CASE ~(~enrolment.on /\ enrolment.secret # None)
    BY <1>1, <1>5, <2>0, <2>2, MovingKeepsBudget DEF CommitEnrolment
  <2> QED
    BY <2>1, <2>2
<1>6. ASSUME NEW op, op # "confirm", work[r].op = op, Finish(r), UNCHANGED calls,
             enrolment'.secret = enrolment.secret
      PROVE  Guessing' = Guessing
  <2>1. work'[r].step = "idle" /\ \A q \in Requests \ {r} : work'[q] = work[q]
    BY <1>6 DEF Finish, Become, FactorTypeOK, Idle
  <2> QED
    BY <1>6, <2>1 DEF Guessing, Admitted
<1>7. CASE ReplaceBatch(r)
  <2>1. /\ UNCHANGED <<limiterVars, guesses>> /\ enrolment'.secret = enrolment.secret
        /\ enrolment'.on = enrolment.on /\ enrolment'.draftLeft = enrolment.draftLeft
    BY <1>1, <1>7 DEF ReplaceBatch, Enrolment
  <2>2. Guessing' = Guessing
    BY <1>6, <1>7, <2>1 DEF ReplaceBatch, Doing, limiterVars
  <2> QED
    BY <2>1, <2>2, StandingKeepsBudget
<1>8. CASE SpendCode(r)
  <2>1. Guessing' = Guessing
    BY <1>6, <1>8 DEF SpendCode, Doing, limiterVars
  <2> QED
    BY <1>8, <2>1, StandingKeepsBudget DEF SpendCode
<1>9. CASE Leave(r)
  BY <1>0, <1>1, <1>9, MovingKeepsBudget DEF Leave, Finish
<1> QED
  BY <1>2, <1>3, <1>4, <1>5, <1>7, <1>8, <1>9 DEF Serve

LEMMA TickKeepsBudget ==
  ASSUME BudgetInv, FactorTypeOK, TickDraft
  PROVE  BudgetInv'
<1>1. /\ attempts' = Aged(attempts) /\ penalties' = Aged(penalties)
      /\ UNCHANGED <<calls, breaches, guesses, work>>
  BY DEF TickDraft, Tick
<1>3. /\ attempts \in Counter /\ penalties \in Counter /\ guesses \in Nat
      /\ enrolment \in Enrolment /\ enrolment.draftLeft \in 0 .. Window
  BY Windows DEF BudgetInv, LimiterTypeOK, FactorTypeOK, Enrolment
<1>4. /\ enrolment'.on = enrolment.on /\ enrolment'.secret = enrolment.secret
      /\ enrolment'.draftLeft = IF enrolment.draftLeft > 0 THEN enrolment.draftLeft - 1 ELSE 0
  BY <1>3 DEF TickDraft, Enrolment
<1>2. Admitted' = Admitted /\ Guessing' = Guessing
  BY <1>1, <1>4 DEF Guessing, Admitted
<1>5. ASSUME NEW key \in Counter PROVE Aged(key) \in Counter
  BY <1>5 DEF Aged, Fresh, Counter
<1>6. LimiterTypeOK' /\ SuccessTurnsOn' /\ GuessesAreBounded'
  BY <1>1, <1>3, <1>4, <1>5 DEF BudgetInv, LimiterTypeOK, SuccessTurnsOn, GuessesAreBounded
<1> DEFINE a == Cardinality(Guessing)
<1>7. a \in Nat /\ Within(attempts, enrolment, guesses, a)
  BY HowManyGuess DEF BudgetInv
<1> HIDE DEF a
<1>8. ASSUME ~enrolment.on
      PROVE  /\ KeyLives(Aged(attempts))
             /\ enrolment'.draftLeft > 0 => Budgeted(Aged(attempts), enrolment'.draftLeft, guesses, a)
  <2>1. KeyLives(attempts)
    BY <1>7, <1>8 DEF Within
  <2>2. ASSUME enrolment'.draftLeft > 0
        PROVE  /\ enrolment.draftLeft \in 1 .. Window /\ enrolment.draftLeft > 1
               /\ enrolment'.draftLeft = enrolment.draftLeft - 1
               /\ Budgeted(attempts, enrolment.draftLeft, guesses, a)
    BY <1>3, <1>4, <1>7, <1>8, <2>2, Windows DEF Within
  <2> QED
    BY <1>3, <1>7, <2>1, <2>2, AgeingKeepsBudget
<1>9. Within(attempts, enrolment, guesses, Cardinality(Guessing))'
  BY <1>1, <1>2, <1>4, <1>8 DEF Within, a
<1> QED
  BY <1>2, <1>6, <1>9 DEF BudgetInv

LEMMA BudgetHolds ==
  ASSUME PowersArePositive
  PROVE  Spec => []BudgetInv
<1>1. Init => BudgetInv
  <2> SUFFICES ASSUME Init PROVE BudgetInv
    OBVIOUS
  <2>1. Admitted = {} /\ IsFiniteSet(Admitted)
    BY FS_EmptySet DEF Init, LimiterInit, Admitted
  <2>2. /\ attempts = Fresh /\ Fresh \in Counter /\ enrolment.draftLeft = 0 /\ guesses = 0
        /\ ~enrolment.on
    BY DEF Init, LimiterInit, Fresh, Counter
  <2>3. LimiterTypeOK /\ SuccessTurnsOn
    BY <2>2 DEF Init, LimiterInit, LimiterTypeOK, SuccessTurnsOn, Call
  <2> QED
    BY <2>1, <2>2, <2>3, Windows DEF BudgetInv, Within, KeyLives, GuessesAreBounded
<1>2. IInv /\ BudgetInv /\ [Next]_vars => BudgetInv'
  <2> SUFFICES ASSUME IInv, BudgetInv, [Next]_vars PROVE BudgetInv'
    OBVIOUS
  <2>1. FactorTypeOK
    BY DEF IInv
  <2>2. CASE UNCHANGED vars
    <3>1. UNCHANGED <<limiterVars, guesses, enrolment, work, calls>>
      BY <2>2 DEF vars, factorVars, limiterVars
    <3>2. Guessing' = Guessing
      BY <3>1 DEF Guessing, Admitted
    <3> QED
      BY <3>1, <3>2, StandingKeepsBudget
  <2> QED
    BY <2>1, <2>2, AskKeepsBudget, ServeKeepsBudget, LimitKeepsBudget, TickKeepsBudget DEF Next
<1> QED
  BY <1>1, <1>2, InitEstablishesIt, StepsKeepIt, PTL DEF Spec

\* However long requests take, whatever is drafted, confirmed, refused or lost on the way
\* and whatever the limiter's keys do meanwhile, no more than two budgets less one of the
\* codes sent to a drafted secret are judged against it and found wrong.
THEOREM GuessingMeetsItsBudget ==
  ASSUME PowersArePositive
  PROVE  Spec => []GuessesAreBounded
<1>1. BudgetInv => GuessesAreBounded
  BY DEF BudgetInv
<1> QED
  BY <1>1, BudgetHolds, PTL
=============================================================================
