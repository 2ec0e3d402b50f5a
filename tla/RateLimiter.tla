---------------------------- MODULE RateLimiter ----------------------------
(***************************************************************************)
(* One budget of one subject: how an attempt is counted in Redis, refused  *)
(* when the budget is spent, blocked for longer each time, and forgotten   *)
(* after a success.  Every replica speaks to the same store, command by    *)
(* command, and refuses while the store is out of reach.                   *)
(*                                                                         *)
(* Time moves in ticks and waits for nobody: a key may expire between any  *)
(* two commands of a request.  A key of the store is its value and the     *)
(* ticks it has left.                                                      *)
(***************************************************************************)
EXTENDS Integers

CONSTANTS
  Requests,  \* requests served at the same time, by any replica
  Points,    \* attempts granted in a window
  Window,    \* ticks a window lasts
  Block,     \* ticks of the first block
  MaxBlock,  \* the longest block
  Memory,    \* ticks a lock-out is remembered
  None       \* no request, no value

ASSUME LimiterAssumption ==
  /\ Points \in Nat \ {0} /\ Window \in Nat \ {0}
  /\ Block \in Nat \ {0} /\ MaxBlock \in Nat /\ MaxBlock >= Block
  /\ Memory \in Nat \ {0}

VARIABLES
  attempts,   \* the counter of attempts, and for how long it is kept
  penalties,  \* the counter of lock-outs
  calls,      \* where each request is with the limiter
  breaches    \* the lock-outs each request was told of

limiterVars == <<attempts, penalties, calls, breaches>>

-----------------------------------------------------------------------------
Counter == [count : Nat, left : Nat]

Fresh == [count |-> 0, left |-> 0]

Call == {"none", "asking", "exhausted", "blocked", "penalised", "admitted", "refused",
         "unavailable", "succeeded", "cleared"}

LimiterTypeOK ==
  /\ attempts \in Counter /\ penalties \in Counter
  /\ calls \in [Requests -> Call] /\ breaches \in [Requests -> Nat]

LimiterInit ==
  /\ attempts = Fresh /\ penalties = Fresh
  /\ calls = [r \in Requests |-> "none"] /\ breaches = [r \in Requests |-> 0]

Lower(a, b) == IF a < b THEN a ELSE b

\* SET NX with the duration, then INCR: the duration is that of the first.  Beyond two
\* over the budget every count is refused alike, and counting stops there.
Counted(counter, duration) ==
  [count |-> Lower(counter.count + 1, Points + 2), left |-> IF counter = Fresh THEN duration ELSE counter.left]

\* A tick brings a key nearer to its expiry.
Aged(counter) == IF counter.left <= 1 THEN Fresh ELSE [counter EXCEPT !.left = counter.left - 1]

Blocked(duration) == [count |-> Points + 1, left |-> duration]

\* The block doubles with every lock-out still remembered, up to the ceiling.
EscalatedBlock(times) == Lower(Block * 2 ^ (IF times > 1 THEN times - 1 ELSE 0), MaxBlock)

Say(r, call) == calls' = [calls EXCEPT ![r] = call]

\* A driver error before the verdict is a 503.
Unavailable(r) == calls[r] = "asking" /\ Say(r, "unavailable")

CountAttempt(r) ==
  LET counted == Counted(attempts, Window) IN
  /\ calls[r] = "asking"
  /\ attempts' = counted
  /\ Say(r, CASE counted.count <= Points -> "admitted"
              [] counted.count = Points + 1 -> "exhausted"
              [] OTHER -> "refused")
  /\ UNCHANGED <<penalties, breaches>>

\* The library's own block, once in a window, forces the expiry.
BlockOnce(r) ==
  /\ calls[r] = "exhausted"
  /\ attempts' = Blocked(Block)
  /\ Say(r, "blocked")
  /\ UNCHANGED <<penalties, breaches>>

CountPenalty(r) ==
  /\ calls[r] = "blocked"
  /\ penalties' = Counted(penalties, Memory)
  /\ breaches' = [breaches EXCEPT ![r] = penalties'.count]
  /\ Say(r, "penalised")
  /\ UNCHANGED <<attempts>>

LengthenBlock(r) ==
  /\ calls[r] = "penalised"
  /\ attempts' = Blocked(EscalatedBlock(breaches[r]))
  /\ breaches' = [breaches EXCEPT ![r] = 0]
  /\ Say(r, "refused")
  /\ UNCHANGED <<penalties>>

\* The store is out of reach for a command, any command: no verdict is a 503, a refusal
\* stays a refusal, and a counter that could not be cleared is left to expire.
LoseStore(r) ==
  /\ \/ Unavailable(r)
     \/ calls[r] = "exhausted" /\ Say(r, "unavailable")
     \/ calls[r] \in {"blocked", "penalised"} /\ Say(r, "refused")
     \/ calls[r] \in {"succeeded", "cleared"} /\ Say(r, "none")
  /\ breaches' = [breaches EXCEPT ![r] = 0]
  /\ UNCHANGED <<attempts, penalties>>

\* After a success the two counters are deleted, one after the other.
ClearAttempts(r) ==
  /\ calls[r] = "succeeded"
  /\ attempts' = Fresh
  /\ Say(r, "cleared")
  /\ UNCHANGED <<penalties, breaches>>

ClearPenalties(r) ==
  /\ calls[r] = "cleared"
  /\ penalties' = Fresh
  /\ Say(r, "none")
  /\ UNCHANGED <<attempts, breaches>>

Tick ==
  /\ attempts' = Aged(attempts) /\ penalties' = Aged(penalties)
  /\ UNCHANGED <<calls, breaches>>

Limit(r) ==
  \/ CountAttempt(r) \/ BlockOnce(r) \/ CountPenalty(r) \/ LengthenBlock(r)
  \/ LoseStore(r) \/ ClearAttempts(r) \/ ClearPenalties(r)
=============================================================================
