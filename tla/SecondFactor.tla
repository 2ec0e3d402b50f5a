---------------------------- MODULE SecondFactor ----------------------------
(***************************************************************************)
(* The second factor of one account: drafting a TOTP secret, confirming    *)
(* it, which turns the factor on and issues a batch of recovery codes,     *)
(* replacing the batch, and spending a code of it.  Drafting and           *)
(* confirming share the budget of RateLimiter.                             *)
(*                                                                         *)
(* What decides is the conditional statement at the end of each request;   *)
(* what it decides about was read earlier, before slow hashing, and time   *)
(* may pass in between.  A transaction here locks one row of the account   *)
(* and at most rows nobody else waits for while holding another, so its    *)
(* writes are one step.                                                    *)
(***************************************************************************)
EXTENDS RateLimiter, FiniteSets

CONSTANTS
  Secrets,    \* secrets, drafted or yet to be
  Draft,      \* ticks a draft may be confirmed, a window
  Batches,    \* batches of recovery codes, minted or yet to be
  Codes,      \* the places of a batch
  MaxCounter  \* bound: the time steps a code can be of

ASSUME FactorAssumption ==
  /\ None \notin Secrets \cup Batches
  /\ Draft = Window /\ Block >= Window  \* fifteen minutes each, for mfa_setup_attempt
  /\ Codes # {} /\ MaxCounter \in Nat

VARIABLES
  enrolment,  \* the TOTP columns of the account
  codes,      \* mfa_recovery_codes: which code of which batch, and whether it is used
  work,       \* what each request was given and has read
  guesses,    \* history: wrong codes sent to the draft there is, and judged against it
  accepted    \* history: the proofs that have been taken, and how often a second time

factorVars == <<enrolment, codes, work, guesses, accepted>>
vars == <<limiterVars, factorVars>>

-----------------------------------------------------------------------------
Enrolment == [secret : Secrets \cup {None}, draftLeft : 0 .. Draft,
              on : BOOLEAN, lastCounter : 0 .. MaxCounter]

Row == Batches \X Codes

Task == [op : {"setup", "confirm", "regenerate", "consume", None},
         step : {"idle", "limited", "proven", "listed"},
         given : Secrets \cup Row \cup {None}, counter : 0 .. MaxCounter,
         batch : Batches \cup {None},
         aim : Secrets \cup {None}]  \* history: the draft a code was sent to

Idle == [op |-> None, step |-> "idle", given |-> None, counter |-> 0,
         batch |-> None, aim |-> None]

TypeOK ==
  /\ LimiterTypeOK
  /\ enrolment \in Enrolment
  /\ codes \in [Row -> {"absent", "unused", "used"}]
  /\ work \in [Requests -> Task]
  /\ guesses \in Nat
  /\ accepted \in [steps : SUBSET (1 .. MaxCounter), rows : SUBSET Row, twice : BOOLEAN]

Init ==
  /\ LimiterInit
  /\ enrolment = [secret |-> None, draftLeft |-> 0, on |-> FALSE, lastCounter |-> 0]
  /\ codes = [row \in Row |-> "absent"]
  /\ work = [r \in Requests |-> Idle]
  /\ guesses = 0
  /\ accepted = [steps |-> {}, rows |-> {}, twice |-> FALSE]

\* A secret is fresh from the generator, a batch is minted before its transaction.
FreshSecret(s) == enrolment.secret # s /\ \A r \in Requests : s \notin {work[r].given, work[r].aim}

FreshBatch(b) == /\ \A c \in Codes : codes[<<b, c>>] = "absent" /\ <<b, c>> \notin accepted.rows
                 /\ \A r \in Requests : work[r].batch # b

Doing(r, op, step) == work[r].op = op /\ work[r].step = step

Become(r, q) == work' = [work EXCEPT ![r] = q]

Finish(r) == Become(r, Idle)

\* History: a time step, or a code, has been taken for a proof.
StepTaken(counter) == [accepted EXCEPT !.steps = accepted.steps \cup {counter},
                                       !.twice = accepted.twice \/ counter \in accepted.steps]

RowTaken(row) == [accepted EXCEPT !.rows = accepted.rows \cup {row},
                                  !.twice = accepted.twice \/ row \in accepted.rows]

DraftLive == /\ enrolment.secret # None /\ ~enrolment.on
             /\ enrolment.draftLeft > 0

\* The table with this batch and nothing else in it.
OnlyBatch(b) == [row \in Row |-> IF row[1] = b THEN "unused" ELSE "absent"]

-----------------------------------------------------------------------------
(* Drafting.                                                               *)

AskSetup(r) ==
  /\ work[r] = Idle /\ calls[r] = "none"
  /\ Say(r, "asking")
  /\ Become(r, [Idle EXCEPT !.op = "setup", !.step = "limited"])
  /\ UNCHANGED <<attempts, penalties, breaches, enrolment, codes, guesses, accepted>>

\* Mutant: a new draft starts with a new budget.
BeginDraftAfresh(r) ==
  /\ Doing(r, "setup", "limited") /\ calls[r] = "admitted"
  /\ IF enrolment.on THEN UNCHANGED <<enrolment, guesses>>
     ELSE /\ \E s \in Secrets : /\ FreshSecret(s)
                                /\ enrolment' = [enrolment EXCEPT !.secret = s, !.draftLeft = Draft,
                                                                 !.lastCounter = 0]
          /\ guesses' = 0
  /\ Say(r, "succeeded") /\ Finish(r)
  /\ UNCHANGED <<attempts, penalties, breaches, codes, accepted>>

\* UPDATE ... WHERE totp_enabled_at IS NULL: an earlier draft is replaced.
BeginDraft(r) ==
  /\ Doing(r, "setup", "limited") /\ calls[r] = "admitted"
  /\ IF enrolment.on THEN UNCHANGED <<enrolment, guesses>>
     ELSE /\ \E s \in Secrets : /\ FreshSecret(s)
                                /\ enrolment' = [enrolment EXCEPT !.secret = s, !.draftLeft = Draft,
                                                                 !.lastCounter = 0]
          /\ guesses' = 0
  /\ Say(r, "none") /\ Finish(r)
  /\ UNCHANGED <<attempts, penalties, breaches, codes, accepted>>

-----------------------------------------------------------------------------
(* Confirming.                                                             *)

\* A code of the secret drafted by now for some time step, or any other code.
AskConfirm(r, secret, counter) ==
  /\ secret \in {enrolment.secret, None} /\ (secret = None <=> counter = 0)
  /\ work[r] = Idle /\ calls[r] = "none"
  /\ Say(r, "asking")
  /\ Become(r, [Idle EXCEPT !.op = "confirm", !.step = "limited",
                            !.given = secret, !.counter = counter,
                            !.aim = IF enrolment.on THEN None ELSE enrolment.secret])
  /\ UNCHANGED <<attempts, penalties, breaches, enrolment, codes, guesses, accepted>>

\* The request that finds the budget spent discards the draft.
AbandonDraft(r) ==
  /\ Doing(r, "confirm", "limited") /\ calls[r] = "refused"
  /\ IF enrolment.on THEN UNCHANGED <<enrolment, guesses>>
     ELSE /\ enrolment' = [enrolment EXCEPT !.secret = None, !.draftLeft = 0, !.lastCounter = 0]
          /\ guesses' = 0
  /\ Say(r, "none") /\ Finish(r)
  /\ UNCHANGED <<attempts, penalties, breaches, codes, accepted>>

\* The state as the transaction reads it, after the batch was minted and hashed.
JudgeCode(r) ==
  LET q == work[r]
      right == DraftLive /\ q.given = enrolment.secret /\ q.counter > enrolment.lastCounter IN
  /\ Doing(r, "confirm", "limited") /\ calls[r] = "admitted"
  /\ IF right
     THEN \E b \in Batches : /\ FreshBatch(b)
                             /\ Become(r, [q EXCEPT !.step = "proven", !.batch = b])
                             /\ UNCHANGED <<calls, guesses>>
     ELSE /\ guesses' = IF DraftLive /\ q.aim = enrolment.secret THEN guesses + 1 ELSE guesses
          /\ Say(r, "none") /\ Finish(r)
  /\ UNCHANGED <<attempts, penalties, breaches, enrolment, codes, accepted>>

\* Mutant: what was read decides, the update names the account only.
CommitAsRead(r) ==
  LET q == work[r] IN
  /\ Doing(r, "confirm", "proven")
  /\ enrolment' = [enrolment EXCEPT !.on = TRUE, !.draftLeft = 0, !.lastCounter = q.counter]
  /\ codes' = [row \in Row |-> IF row[1] = q.batch THEN "unused" ELSE codes[row]]
  /\ accepted' = StepTaken(q.counter)
  /\ Say(r, "succeeded") /\ Finish(r)
  /\ UNCHANGED <<attempts, penalties, breaches, guesses>>

\* UPDATE ... WHERE totp_enabled_at IS NULL AND totp_draft_expires_at > now, and the
\* batch with it.  The statement does not name the secret that was verified, and now is
\* when the code was judged, so no draft that is still there has expired by it.
CommitEnrolment(r) ==
  LET q == work[r] IN
  /\ Doing(r, "confirm", "proven")
  /\ IF ~enrolment.on /\ enrolment.secret # None
     THEN /\ enrolment' = [enrolment EXCEPT !.on = TRUE, !.draftLeft = 0, !.lastCounter = q.counter]
          /\ codes' = [row \in Row |-> IF row[1] = q.batch THEN "unused" ELSE codes[row]]
          /\ accepted' = StepTaken(q.counter) /\ guesses' = 0
          /\ Say(r, "succeeded")
     ELSE Say(r, "none") /\ UNCHANGED <<enrolment, codes, accepted, guesses>>
  /\ Finish(r)
  /\ UNCHANGED <<attempts, penalties, breaches>>

-----------------------------------------------------------------------------
(* Replacing the batch, and spending a code of it.                         *)

\* The password and the code are judged; the counter is not moved yet.
JudgeForBatch(r, counter) ==
  /\ work[r] = Idle /\ calls[r] = "none"
  /\ enrolment.on /\ counter > enrolment.lastCounter
  /\ \E b \in Batches : /\ FreshBatch(b)
                        /\ Become(r, [Idle EXCEPT !.op = "regenerate", !.step = "proven",
                                                  !.counter = counter, !.batch = b])
  /\ UNCHANGED <<limiterVars, enrolment, codes, guesses, accepted>>

\* Mutant: the result of the statement that moves the counter is not looked at.
ReplaceBatchAnyway(r) ==
  LET q == work[r] IN
  /\ Doing(r, "regenerate", "proven")
  /\ enrolment' = [enrolment EXCEPT !.lastCounter =
                      IF enrolment.lastCounter < q.counter THEN q.counter ELSE enrolment.lastCounter]
  /\ codes' = OnlyBatch(q.batch)
  /\ accepted' = StepTaken(q.counter)
  /\ Finish(r)
  /\ UNCHANGED <<limiterVars, guesses>>

\* UPDATE ... WHERE totp_last_counter < counter, then every code out and the new ones in.
ReplaceBatch(r) ==
  LET q == work[r] IN
  /\ Doing(r, "regenerate", "proven")
  /\ IF enrolment.on /\ enrolment.lastCounter < q.counter
     THEN /\ enrolment' = [enrolment EXCEPT !.lastCounter = q.counter]
          /\ codes' = OnlyBatch(q.batch)
          /\ accepted' = StepTaken(q.counter)
     ELSE UNCHANGED <<enrolment, codes, accepted>>
  /\ Finish(r)
  /\ UNCHANGED <<limiterVars, guesses>>

\* The unused codes are listed and the right one found among them.
MatchCode(r, row) ==
  /\ work[r] = Idle /\ calls[r] = "none"
  /\ codes[row] = "unused"
  /\ Become(r, [Idle EXCEPT !.op = "consume", !.step = "listed", !.given = row])
  /\ UNCHANGED <<limiterVars, enrolment, codes, guesses, accepted>>

\* UPDATE ... WHERE used_at IS NULL, of a row that may be gone.
SpendCode(r) ==
  LET row == work[r].given IN
  /\ Doing(r, "consume", "listed")
  /\ IF codes[row] = "unused"
     THEN codes' = [codes EXCEPT ![row] = "used"] /\ accepted' = RowTaken(row)
     ELSE UNCHANGED <<codes, accepted>>
  /\ Finish(r)
  /\ UNCHANGED <<limiterVars, enrolment, guesses>>

-----------------------------------------------------------------------------
\* 429 to a setup, 503 to either, or a request that dies on the way.
Leave(r) ==
  /\ work[r] # Idle
  /\ calls[r] \in {"none", "admitted", "refused", "unavailable"}
  /\ Say(r, "none") /\ Finish(r)
  /\ UNCHANGED <<attempts, penalties, breaches, enrolment, codes, guesses, accepted>>

Ask(r) ==
  \/ AskSetup(r)
  \/ \E s \in Secrets \cup {None}, c \in 0 .. MaxCounter : AskConfirm(r, s, c)
  \/ \E c \in 1 .. MaxCounter : JudgeForBatch(r, c)
  \/ \E row \in Row : MatchCode(r, row)

Serve(r) ==
  \/ BeginDraft(r) \/ AbandonDraft(r) \/ JudgeCode(r) \/ CommitEnrolment(r)
  \/ ReplaceBatch(r) \/ SpendCode(r) \/ Leave(r)

TickDraft ==
  /\ Tick
  /\ enrolment' = [enrolment EXCEPT !.draftLeft = IF @ > 0 THEN @ - 1 ELSE 0]
  /\ UNCHANGED <<codes, work, guesses, accepted>>

Next ==
  \/ \E r \in Requests : Ask(r) \/ Serve(r)
  \/ (\E r \in Requests : Limit(r)) /\ UNCHANGED factorVars
  \/ TickDraft

Spec == Init /\ [][Next]_vars

-----------------------------------------------------------------------------
(* What must hold.                                                         *)

\* However long a request takes, no more than two budgets less one of the codes sent to
\* a drafted secret are judged against it and found wrong: a draft lives as long as a
\* window and so meets two, of which the earlier one has been drawn on before.  (A code sent
\* before the drafting and judged after it is not counted: it was sent to another secret.)
GuessesAreBounded == guesses <= 2 * Points - 1

\* The secret that absorbed a budget of wrong guesses is never confirmed, which
\* confirm-totp.use-case.ts says of the request after them.  The draft is discarded by the
\* request that is refused, and a window that turns over before it refuses nobody.
SpentSecretsAreNotConfirmed ==
  [][\A r \in Requests : CommitEnrolment(r) /\ ~enrolment.on /\ enrolment'.on =>
        guesses < Points]_vars

\* An account has recovery codes exactly when its factor is on, and they are one
\* whole batch, whatever has overlapped.
ProtectedByOneBatch ==
  LET kept == {row \in Row : codes[row] # "absent"} IN
  IF enrolment.on THEN \E b \in Batches : kept = {b} \X Codes ELSE kept = {}

\* A time step opens one door and so does a recovery code: two requests that both
\* found the proof good do not both get what they asked for.
ProofsAreTakenOnce == ~accepted.twice

\* What was turned on is the secret that was verified.
OnIsWhatWasVerified ==
  [][\A r \in Requests : CommitEnrolment(r) /\ ~enrolment.on /\ enrolment'.on =>
        enrolment.secret = work[r].given]_vars
=============================================================================
