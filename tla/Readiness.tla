----------------------------- MODULE Readiness ------------------------------
(***************************************************************************)
(* The answer to "may this instance receive traffic right now": the probes *)
(* of the dependencies, each with a deadline, the verdict that is kept for *)
(* a while, and the checks that overlap, each with probes of its own.      *)
(*                                                                         *)
(* Time moves in ticks and is kept as ages.  A timer that is due fires     *)
(* before time goes on.                                                    *)
(***************************************************************************)
EXTENDS Naturals

CONSTANTS
  Checks,       \* requests to the readiness endpoint, served at the same time
  Dependencies, \* what is probed live
  Ttl,          \* ticks a verdict stays fresh
  ProbeTimeout  \* ticks a probe is waited for

ASSUME ReadinessAssumption == Ttl \in Nat \ {0} /\ ProbeTimeout \in Nat \ {0}

VARIABLES
  accepting, \* whether the process still takes requests
  draining,  \* the flag of ProcessLifecycleAdapter
  up,        \* the dependencies that answer
  sinceUp,   \* history: ticks since each dependency last did
  cached,    \* the verdict kept, and how long ago its check began
  checks,    \* the checks under way
  said       \* what each check has answered

readinessVars == <<up, sinceUp, cached, checks, said>>

-----------------------------------------------------------------------------
\* The oldest a verdict is when it is given, and one tick more.
Recent == IF Ttl > ProbeTimeout THEN Ttl - 1 ELSE ProbeTimeout

Stale == Recent + 1

Idle == [probing |-> FALSE, age |-> 0, found |-> [d \in Dependencies |-> "pending"]]

ReadinessTypeOK ==
  /\ accepting \in BOOLEAN /\ draining \in BOOLEAN
  /\ up \subseteq Dependencies
  /\ sinceUp \in [Dependencies -> 0 .. Stale]
  /\ cached \in [healthy : BOOLEAN, age : 0 .. Ttl]
  /\ checks \in [Checks -> [probing : BOOLEAN, age : 0 .. ProbeTimeout,
                            found : [Dependencies -> {"pending", "up", "down"}]]]
  /\ said \in [Checks -> {"nothing", "ready", "not_ready"}]

\* Nothing is cached: a verdict as old as Ttl is no longer one.
ReadinessInit ==
  /\ accepting = FALSE /\ draining = FALSE
  /\ up = Dependencies /\ sinceUp = [d \in Dependencies |-> 0]
  /\ cached = [healthy |-> FALSE, age |-> Ttl]
  /\ checks = [c \in Checks |-> Idle]
  /\ said = [c \in Checks |-> "nothing"]

\* The flag is read when the answer is made, whether the verdict was cached or not.
Tell(c, healthy) ==
  said' = [said EXCEPT ![c] = IF healthy /\ ~draining THEN "ready" ELSE "not_ready"]

BeginCheck(c) ==
  /\ accepting
  /\ ~checks[c].probing /\ said[c] = "nothing"
  /\ IF cached.age < Ttl
     THEN Tell(c, cached.healthy) /\ UNCHANGED checks
     ELSE /\ checks' = [checks EXCEPT ![c] = [Idle EXCEPT !.probing = TRUE]]
          /\ UNCHANGED said
  /\ UNCHANGED <<up, sinceUp, cached>>

Find(c, d, status) ==
  /\ checks[c].probing /\ checks[c].found[d] = "pending"
  /\ checks' = [checks EXCEPT ![c].found[d] = status]
  /\ UNCHANGED <<up, sinceUp, cached, said>>

\* A dependency that is down refuses, or says nothing until the deadline.
Probe(c, d) == Find(c, d, IF d \in up THEN "up" ELSE "down")

TimeoutProbe(c, d) == checks[c].age = ProbeTimeout /\ Find(c, d, "down")

Healthy(c) == \A d \in Dependencies : checks[c].found[d] = "up"

AllFound(c) == checks[c].probing /\ \A d \in Dependencies : checks[c].found[d] # "pending"

\* Mutant: a verdict is as old as its answer, not as its question.
ConcludeNow(c) ==
  /\ AllFound(c)
  /\ cached' = [healthy |-> Healthy(c), age |-> 0]
  /\ Tell(c, Healthy(c))
  /\ checks' = [checks EXCEPT ![c] = Idle]
  /\ UNCHANGED <<up, sinceUp>>

\* The verdict is kept with the moment its check began; a check that began earlier and
\* ends later replaces it all the same.
Conclude(c) ==
  /\ AllFound(c)
  /\ cached' = [healthy |-> Healthy(c), age |-> IF checks[c].age < Ttl THEN checks[c].age ELSE Ttl]
  /\ Tell(c, Healthy(c))
  /\ checks' = [checks EXCEPT ![c] = Idle]
  /\ UNCHANGED <<up, sinceUp>>

\* The poller has its answer.
EndCheck(c) ==
  /\ said[c] # "nothing"
  /\ said' = [said EXCEPT ![c] = "nothing"]
  /\ UNCHANGED <<up, sinceUp, cached, checks>>

\* A dependency fails, or comes back.
SwitchDependency(d) ==
  /\ up' = IF d \in up THEN up \ {d} ELSE up \cup {d}
  /\ sinceUp' = [sinceUp EXCEPT ![d] = 0]
  /\ UNCHANGED <<cached, checks, said>>

\* No probe is waited for longer than its deadline.
NoProbeIsDue == \A c \in Checks : ~(checks[c].probing /\ checks[c].age = ProbeTimeout)

AgeReadiness ==
  /\ NoProbeIsDue
  /\ sinceUp' = [d \in Dependencies |->
       IF d \in up THEN 0 ELSE IF sinceUp[d] < Stale THEN sinceUp[d] + 1 ELSE Stale]
  /\ cached' = [cached EXCEPT !.age = IF @ < Ttl THEN @ + 1 ELSE Ttl]
  /\ checks' = [c \in Checks |-> IF checks[c].probing THEN [checks[c] EXCEPT !.age = @ + 1] ELSE checks[c]]
  /\ UNCHANGED <<up, said>>

Check(c) ==
  \/ BeginCheck(c)
  \/ \E d \in Dependencies : Probe(c, d) \/ TimeoutProbe(c, d)
  \/ Conclude(c)
  \/ EndCheck(c)

\* What the event loop does for a check by itself.
Expire(c) == (\E d \in Dependencies : TimeoutProbe(c, d)) \/ Conclude(c)
=============================================================================
