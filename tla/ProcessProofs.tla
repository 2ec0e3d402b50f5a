--------------------------- MODULE ProcessProofs ---------------------------
(***************************************************************************)
(* What is proved of Process and Readiness, for any number of requests,    *)
(* checks and dependencies, any deadline and any lifetime of a verdict.    *)
(*                                                                         *)
(* Two arguments that meet in the phase of the process: every resource is  *)
(* open while requests are taken, the mail goes first and only once it is  *)
(* empty; and a verdict is never younger than what it was made of.         *)
(***************************************************************************)
EXTENDS Process, TLAPS

-----------------------------------------------------------------------------
Phases == {"starting", "serving", "closing", "releasing", "stopped", "forced", "failed", "killed"}

\* The part of TypeOK these arguments need.
Typed ==
  /\ phase \in Phases /\ progress \in Nat \ {0} /\ open \subseteq Resources
  /\ handlers \in [Requests -> {"none", "working", "abandoned"}]
  /\ mails \in [Requests -> {"none", "flying", "late"}]

\* What is open at each step of the start.
Starting ==
  phase = "starting" =>
    /\ progress \in 1 .. 8
    /\ progress > 3 => "database" \in open
    /\ progress > 4 => "redis" \in open
    /\ progress > 6 => "mail" \in open /\ "auth-database" \in open
    /\ \A r \in Requests : handlers[r] = "none" /\ mails[r] = "none"

Running ==
  /\ phase = "closing" => progress = 1
  /\ phase \in {"serving", "closing"} => open = Resources

Flagged ==
  /\ phase = "serving" => accepting = TRUE
  /\ phase # "serving" => accepting = FALSE
  /\ phase \in {"closing", "releasing", "stopped", "forced"} => draining = TRUE
  /\ phase \notin {"closing", "releasing", "stopped", "forced"} => draining = FALSE

Releasing ==
  phase = "releasing" =>
    /\ \A r \in Requests : handlers[r] # "working"
    /\ progress = 1 => open = Resources
    /\ progress > 1 => "mail" \notin open /\ \A r \in Requests : mails[r] # "flying"

WorkInv == Typed /\ Starting /\ Running /\ Flagged /\ Releasing

-----------------------------------------------------------------------------
LEMMA StartupSteps ==
  /\ Len(Startup) = 8
  /\ \A n \in 1 .. 8 : Opened(Startup[n]) \subseteq Resources
  /\ Opened(Startup[3]) = {"database"} /\ Opened(Startup[4]) = {"redis"}
  /\ Opened(Startup[6]) = {"mail", "auth-database"}
<1>1. Len(Startup) = 8
  BY DEF Startup
<1>2. /\ Startup[3] = "database" /\ Startup[4] = "redis" /\ Startup[6] = "container"
  BY DEF Startup
<1>3. Opened("database") = {"database"} /\ Opened("redis") = {"redis"} /\ Opened("container") = {"mail", "auth-database"}
  BY DEF Opened
<1>4. \A step : Opened(step) \subseteq Resources
  BY DEF Opened, Resources
<1> QED  BY <1>1, <1>2, <1>3, <1>4

LEMMA ShutdownBegins == ShutdownSteps[1] = "mail" /\ Len(ShutdownSteps) = 4
BY DEF ShutdownSteps

LEMMA StartingKeepsIt ==
  ASSUME WorkInv, StartStep
  PROVE  WorkInv'
<1>0. /\ phase = "starting" /\ progress \in 1 .. 8 /\ open' = open \cup Opened(Startup[progress])
      /\ UNCHANGED <<draining, handlers, mails>>
      /\ \A r \in Requests : handlers[r] = "none" /\ mails[r] = "none"
      /\ Typed /\ Starting
  BY DEF WorkInv, Starting, StartStep
<1>1. open' \subseteq Resources
  BY <1>0, StartupSteps DEF Typed
<1>2. /\ progress > 2 => "database" \in open'
      /\ progress > 3 => "redis" \in open'
      /\ progress > 5 => "mail" \in open' /\ "auth-database" \in open'
  BY <1>0, StartupSteps DEF Starting
<1>3. CASE progress = Len(Startup)
  <2>1. phase' = "serving" /\ accepting' = TRUE /\ progress' = 1
    BY <1>3 DEF StartStep
  <2>2. open' = Resources
    <3>1. progress = 8
      BY <1>3, StartupSteps
    <3>2. {"database", "redis", "mail", "auth-database"} \subseteq open'
      BY <1>2, <3>1
    <3> QED  BY <1>1, <3>2 DEF Resources
  <2>3. Flagged'
    BY <1>0, <2>1 DEF WorkInv, Flagged
  <2> QED  BY <1>0, <2>1, <2>2, <2>3 DEF WorkInv, Typed, Phases, Starting, Running, Releasing
<1>4. CASE progress # Len(Startup)
  <2>1. progress' = progress + 1 /\ UNCHANGED <<phase, accepting>>
    BY <1>4 DEF StartStep
  <2>2. progress' \in 1 .. 8
    BY <1>0, <1>4, <2>1, StartupSteps
  <2>3. Starting'
    BY <1>0, <1>2, <2>1, <2>2 DEF Starting
  <2>4. Flagged'
    BY <1>0, <2>1 DEF WorkInv, Flagged
  <2> QED  BY <1>0, <1>1, <2>1, <2>2, <2>3, <2>4 DEF WorkInv, Typed, Running, Releasing
<1> QED  BY <1>3, <1>4

LEMMA ServingKeepsIt ==
  ASSUME WorkInv, NEW r \in Requests, Serve(r)
  PROVE  WorkInv'
<1>0. Typed /\ Starting /\ Running /\ Flagged /\ Releasing
  BY DEF WorkInv
<1>1. CASE Accept(r)
  <2>1. Flagged'
    BY <1>0, <1>1 DEF Accept, Flagged
  <2>2. phase = "serving"
    BY <1>0, <1>1, Zenon DEF Accept, Flagged
  <2>3. /\ handlers' = [handlers EXCEPT ![r] = "working"]
        /\ UNCHANGED <<phase, progress, left, open, mails>>
    BY <1>1 DEF Accept
  <2> QED  BY <1>0, <2>1, <2>2, <2>3 DEF WorkInv, Typed, Starting, Running, Releasing
<1>2. CASE HangUp(r)
  <2>1. Flagged'
    BY <1>0, <1>2 DEF HangUp, Flagged
  <2> QED  BY <1>0, <1>2, <2>1 DEF HangUp, WorkInv, Typed, Starting, Running, Releasing
<1>3. CASE Dispatch(r)
  <2>1. Flagged'
    BY <1>0, <1>3 DEF Dispatch, Flagged
  <2> QED  BY <1>0, <1>3, <2>1 DEF Dispatch, WorkInv, Typed, Starting, Running, Releasing
<1>4. CASE Finish(r)
  <2>1. Flagged'
    BY <1>0, <1>4 DEF Finish, Flagged
  <2> QED  BY <1>0, <1>4, <2>1 DEF Finish, WorkInv, Typed, Starting, Running, Releasing
<1>5. CASE Deliver(r)
  <2>1. Flagged'
    BY <1>0, <1>5 DEF Deliver, Flagged
  <2> QED  BY <1>0, <1>5, <2>1 DEF Deliver, WorkInv, Typed, Starting, Running, Releasing
<1> QED  BY <1>1, <1>2, <1>3, <1>4, <1>5 DEF Serve

LEMMA StoppingKeepsIt ==
  ASSUME WorkInv,
         \/ FailToStart \/ KillEarly \/ Signal \/ ServerClosed \/ CloseStep \/ ExitClean \/ ForceExit
  PROVE  WorkInv'
<1>0. Typed /\ Starting /\ Running /\ Flagged /\ Releasing
  BY DEF WorkInv
<1>1. CASE FailToStart \/ KillEarly
  <2>1. Flagged'
    BY <1>0, <1>1 DEF FailToStart, KillEarly, Flagged
  <2> QED  BY <1>0, <1>1, <2>1 DEF FailToStart, KillEarly, WorkInv, Typed, Phases, Starting, Running, Releasing
<1>2. CASE Signal
  <2>1. Flagged'
    BY <1>0, <1>2 DEF Signal, Flagged
  <2> QED  BY <1>0, <1>2, <2>1 DEF Signal, WorkInv, Typed, Phases, Starting, Running, Releasing
<1>3. CASE ServerClosed
  <2>1. progress = 1 /\ progress' = 1
    BY <1>0, <1>3 DEF ServerClosed, Running
  <2>2. Flagged'
    BY <1>0, <1>3 DEF ServerClosed, Flagged
  <2> QED  BY <1>0, <1>3, <2>1, <2>2 DEF ServerClosed, WorkInv, Typed, Phases, Starting, Running, Releasing
<1>4. CASE CloseStep
  <2>1. /\ phase = "releasing" /\ progress' = progress + 1 /\ open' = open \ {ShutdownSteps[progress]}
        /\ ShutdownSteps[progress] = "mail" => \A r \in Requests : mails[r] = "none"
        /\ UNCHANGED <<accepting, draining, phase, handlers, mails>>
    BY <1>4 DEF CloseStep
  <2>2. progress' \in Nat \ {0} /\ progress' # 1 /\ open' \subseteq Resources
    BY <1>0, <2>1 DEF Typed
  <2>3. "mail" \notin open' /\ \A r \in Requests : mails[r] # "flying"
    <3>1. CASE progress = 1
      BY <2>1, <3>1, ShutdownBegins
    <3>2. CASE progress # 1
      BY <1>0, <2>1, <3>2 DEF Releasing, Typed
    <3> QED  BY <3>1, <3>2
  <2>4. Flagged'
    BY <1>0, <2>1 DEF Flagged
  <2> QED  BY <1>0, <2>1, <2>2, <2>3, <2>4 DEF WorkInv, Typed, Starting, Running, Releasing
<1>5. CASE ExitClean
  <2>1. Flagged'
    BY <1>0, <1>5 DEF ExitClean, Flagged
  <2> QED  BY <1>0, <1>5, <2>1 DEF ExitClean, WorkInv, Typed, Phases, Starting, Running, Releasing
<1>6. CASE ForceExit
  <2>1. Flagged'
    BY <1>0, <1>6 DEF ForceExit, Stopping, Flagged
  <2> QED  BY <1>0, <1>6, <2>1 DEF ForceExit, Stopping, WorkInv, Typed, Phases, Starting, Running, Releasing
<1> QED  BY <1>1, <1>2, <1>3, <1>4, <1>5, <1>6

LEMMA TimeKeepsIt ==
  ASSUME WorkInv,
         \/ Tick \/ UNCHANGED vars
         \/ UNCHANGED <<accepting, draining, processVars>>
  PROVE  WorkInv'
<1>1. UNCHANGED <<accepting, draining, phase, progress, open, handlers, mails>>
  BY DEF Tick, vars, processVars
<1> QED  BY <1>1 DEF WorkInv, Typed, Starting, Running, Flagged, Releasing

LEMMA InitEstablishesWork == Init => WorkInv
<1> SUFFICES ASSUME Init PROVE WorkInv
  OBVIOUS
<1>1. Flagged
  BY DEF Init, ReadinessInit, Flagged
<1>2. Typed
  BY DEF Init, ReadinessInit, Typed, Phases
<1>3. Starting /\ Running /\ Releasing
  BY DEF Init, Starting, Running, Releasing
<1> QED  BY <1>1, <1>2, <1>3 DEF WorkInv

LEMMA StepsKeepWork == WorkInv /\ [Next]_vars => WorkInv'
<1> SUFFICES ASSUME WorkInv, [Next]_vars PROVE WorkInv'
  OBVIOUS
<1> QED  BY StartingKeepsIt, ServingKeepsIt, StoppingKeepsIt, TimeKeepsIt DEF Next

\* A shutdown closes no pool under a request whose client is waiting, and neither the
\* transport nor a pool under a message handed over in time.
THEOREM ShutdownSparesTheWork == Spec => []WorkKeepsWhatItUses
<1>1. WorkInv => WorkKeepsWhatItUses
  <2> SUFFICES ASSUME WorkInv, NEW r \in Requests, phase \notin Ended,
                      handlers[r] = "working" \/ mails[r] = "flying"
               PROVE  open = Resources
    BY DEF WorkKeepsWhatItUses
  <2>1. phase \in {"starting", "serving", "closing", "releasing"}
    BY DEF WorkInv, Typed, Phases, Ended
  <2>2. CASE phase = "starting"
    BY <2>2 DEF WorkInv, Starting
  <2>3. CASE phase \in {"serving", "closing"}
    BY <2>3 DEF WorkInv, Running
  <2>4. CASE phase = "releasing"
    BY <2>4 DEF WorkInv, Typed, Releasing
  <2> QED  BY <2>1, <2>2, <2>3, <2>4
<1> QED  BY <1>1, InitEstablishesWork, StepsKeepWork, PTL DEF Spec

-----------------------------------------------------------------------------
(* Readiness.                                                              *)

\* A dependency that answers has been doing so for no time at all; a probe that found it
\* up began no later than it last answered, and so did the verdict that is kept.
AgesAreTrue ==
  /\ \A d \in up : sinceUp[d] = 0
  /\ \A c \in Checks : checks[c].probing =>
       \A d \in Dependencies : checks[c].found[d] = "up" => sinceUp[d] <= checks[c].age
  /\ cached.healthy /\ cached.age < Ttl => \A d \in Dependencies : sinceUp[d] <= cached.age

Probing == [probing : BOOLEAN, age : 0 .. ProbeTimeout, found : [Dependencies -> {"pending", "up", "down"}]]

Shaped ==
  /\ up \subseteq Dependencies
  /\ sinceUp \in [Dependencies -> 0 .. Stale]
  /\ cached \in [healthy : BOOLEAN, age : 0 .. Ttl]
  /\ checks \in [Checks -> Probing]
  /\ said \in [Checks -> {"nothing", "ready", "not_ready"}]

ReadyInv == Shaped /\ AgesAreTrue

LEMMA Durations ==
  /\ Ttl \in Nat \ {0} /\ ProbeTimeout \in Nat \ {0}
  /\ Recent \in Nat /\ Stale \in Nat /\ ProbeTimeout <= Recent /\ Ttl - 1 <= Recent /\ Recent < Stale
<1>1. Ttl \in Nat \ {0} /\ ProbeTimeout \in Nat \ {0}
  BY ReadinessAssumption
<1> QED  BY <1>1 DEF Recent, Stale

LEMMA IdleIsShaped ==
  /\ Idle \in Probing /\ Idle.probing = FALSE
  /\ [Idle EXCEPT !.probing = TRUE] \in Probing
  /\ \A d \in Dependencies : [Idle EXCEPT !.probing = TRUE].found[d] = "pending"
<1>1. 0 \in 0 .. ProbeTimeout
  BY Durations
<1> QED  BY <1>1 DEF Probing, Idle

\* An answer is given; nothing else changes.
LEMMA TellingIsShaped ==
  ASSUME Shaped, NEW c \in Checks, NEW healthy, Tell(c, healthy)
  PROVE  said' \in [Checks -> {"nothing", "ready", "not_ready"}]
BY DEF Tell, Shaped

LEMMA BeginningKeepsIt ==
  ASSUME ReadyInv, NEW c \in Checks, BeginCheck(c)
  PROVE  ReadyInv'
<1>0. Shaped /\ AgesAreTrue /\ UNCHANGED <<up, sinceUp, cached>>
  BY DEF ReadyInv, BeginCheck
<1>1. CASE cached.age < Ttl
  <2>1. UNCHANGED checks /\ said' \in [Checks -> {"nothing", "ready", "not_ready"}]
    BY <1>0, <1>1, TellingIsShaped DEF BeginCheck
  <2> QED  BY <1>0, <2>1 DEF ReadyInv, Shaped, AgesAreTrue
<1>2. CASE ~(cached.age < Ttl)
  <2> DEFINE n == [Idle EXCEPT !.probing = TRUE]
  <2>1. checks' = [checks EXCEPT ![c] = n] /\ UNCHANGED said
    BY <1>2 DEF BeginCheck
  <2>2. n \in Probing /\ \A d \in Dependencies : n.found[d] = "pending"
    BY IdleIsShaped
  <2> HIDE DEF n
  <2>3. Shaped'
    BY <1>0, <2>1, <2>2 DEF Shaped
  <2>4. AgesAreTrue'
    BY <1>0, <2>1, <2>2 DEF Shaped, AgesAreTrue
  <2> QED  BY <2>3, <2>4 DEF ReadyInv
<1> QED  BY <1>1, <1>2

LEMMA FindingKeepsIt ==
  ASSUME ReadyInv, NEW c \in Checks, NEW d \in Dependencies, Probe(c, d) \/ TimeoutProbe(c, d)
  PROVE  ReadyInv'
<1>0. Shaped /\ AgesAreTrue
  BY DEF ReadyInv
<1>1. PICK status \in {"up", "down"} : Find(c, d, status) /\ (status = "up" => d \in up)
  BY DEF Probe, TimeoutProbe
<1> DEFINE n == [checks[c] EXCEPT !.found = [checks[c].found EXCEPT ![d] = status]]
<1>2. checks' = [checks EXCEPT ![c] = n] /\ UNCHANGED <<up, sinceUp, cached, said>>
  BY <1>1 DEF Find
<1>3. /\ n \in Probing /\ n.probing = checks[c].probing /\ n.age = checks[c].age
      /\ n.found = [checks[c].found EXCEPT ![d] = status]
  <2>1. checks[c] \in Probing
    BY <1>0 DEF Shaped
  <2> QED  BY <2>1 DEF Probing
<1>4. checks[c].age \in Nat /\ checks[c].found \in [Dependencies -> {"pending", "up", "down"}]
  BY <1>0 DEF Shaped, Probing
<1> HIDE DEF n
<1>5. Shaped'
  BY <1>0, <1>2, <1>3 DEF Shaped
<1>6. n.probing => \A e \in Dependencies : n.found[e] = "up" => sinceUp[e] <= n.age
  <2> SUFFICES ASSUME n.probing, NEW e \in Dependencies, n.found[e] = "up" PROVE sinceUp[e] <= n.age
    OBVIOUS
  <2>1. CASE e = d
    <3>1. d \in up
      BY <1>1, <1>3, <1>4, <2>1
    <3>2. sinceUp[e] = 0
      BY <1>0, <2>1, <3>1 DEF AgesAreTrue
    <3> QED  BY <1>3, <1>4, <3>2
  <2>2. CASE e # d
    BY <1>0, <1>3, <1>4, <2>2 DEF AgesAreTrue
  <2> QED  BY <2>1, <2>2
<1>7. AgesAreTrue'
  BY <1>0, <1>2, <1>6 DEF AgesAreTrue, Shaped
<1> QED  BY <1>5, <1>7 DEF ReadyInv

\* What a check concludes holds of its own age, and that is recent.
LEMMA HealthIsRecent ==
  ASSUME ReadyInv, NEW c \in Checks, AllFound(c), Healthy(c), NEW d \in Dependencies
  PROVE  sinceUp[d] <= checks[c].age /\ sinceUp[d] <= Recent
<1>1. checks[c].age \in 0 .. ProbeTimeout /\ sinceUp[d] \in Nat
  BY Durations DEF ReadyInv, Shaped, Probing
<1>2. sinceUp[d] <= checks[c].age
  BY DEF ReadyInv, AgesAreTrue, AllFound, Healthy
<1> QED  BY <1>1, <1>2, Durations

LEMMA ConcludingKeepsIt ==
  ASSUME ReadyInv, NEW c \in Checks, Conclude(c)
  PROVE  ReadyInv'
<1>0. Shaped /\ AgesAreTrue /\ AllFound(c) /\ UNCHANGED <<up, sinceUp>>
  BY DEF ReadyInv, Conclude
<1>1. checks' = [checks EXCEPT ![c] = Idle] /\ said' \in [Checks -> {"nothing", "ready", "not_ready"}]
  BY <1>0, TellingIsShaped DEF Conclude
<1>2. checks[c].age \in 0 .. ProbeTimeout
  BY <1>0 DEF Shaped, Probing
<1>3. /\ cached' \in [healthy : BOOLEAN, age : 0 .. Ttl]
      /\ cached'.healthy => Healthy(c)
      /\ cached'.age < Ttl => cached'.age = checks[c].age
  <2>1. cached' = [healthy |-> Healthy(c), age |-> IF checks[c].age < Ttl THEN checks[c].age ELSE Ttl]
    BY DEF Conclude
  <2>2. Healthy(c) \in BOOLEAN
    BY DEF Healthy
  <2> QED  BY <1>2, <2>1, <2>2, Durations
<1>4. Shaped'
  BY <1>0, <1>1, <1>3, IdleIsShaped DEF Shaped
<1>5. AgesAreTrue'
  <2>1. \A e \in Checks : checks'[e].probing => checks'[e] = checks[e]
    BY <1>0, <1>1, IdleIsShaped DEF Shaped
  <2>2. cached'.healthy /\ cached'.age < Ttl => \A d \in Dependencies : sinceUp[d] <= cached'.age
    BY <1>0, <1>3, HealthIsRecent
  <2>3. \A e \in Checks : checks'[e].probing =>
          \A d \in Dependencies : checks'[e].found[d] = "up" => sinceUp[d] <= checks'[e].age
    BY <1>0, <2>1 DEF AgesAreTrue
  <2> QED  BY <1>0, <2>2, <2>3 DEF AgesAreTrue
<1> QED  BY <1>4, <1>5 DEF ReadyInv

LEMMA EndingKeepsIt ==
  ASSUME ReadyInv, NEW c \in Checks, EndCheck(c)
  PROVE  ReadyInv'
BY DEF EndCheck, ReadyInv, Shaped, AgesAreTrue

LEMMA SwitchingKeepsIt ==
  ASSUME ReadyInv, NEW d \in Dependencies, SwitchDependency(d)
  PROVE  ReadyInv'
<1>0. /\ Shaped /\ AgesAreTrue /\ UNCHANGED <<cached, checks, said>>
      /\ up' \subseteq up \cup {d} /\ sinceUp' = [sinceUp EXCEPT ![d] = 0]
  BY DEF ReadyInv, SwitchDependency
<1>1. \A e \in Dependencies : sinceUp[e] \in Nat /\ sinceUp'[e] = IF e = d THEN 0 ELSE sinceUp[e]
  BY <1>0, Durations DEF Shaped
<1>2. /\ \A c \in Checks : checks[c].age \in Nat
      /\ cached.age \in Nat
  BY <1>0 DEF Shaped, Probing
<1>3. Shaped'
  BY <1>0, Durations DEF Shaped
<1>4. AgesAreTrue'
  <2>1. \A e \in up' : sinceUp'[e] = 0
    BY <1>0, <1>1 DEF AgesAreTrue, Shaped
  <2>2. \A c \in Checks : checks[c].probing =>
          \A e \in Dependencies : checks[c].found[e] = "up" => sinceUp'[e] <= checks[c].age
    BY <1>0, <1>1, <1>2 DEF AgesAreTrue
  <2>3. cached.healthy /\ cached.age < Ttl => \A e \in Dependencies : sinceUp'[e] <= cached.age
    BY <1>0, <1>1, <1>2 DEF AgesAreTrue
  <2> QED  BY <1>0, <2>1, <2>2, <2>3 DEF AgesAreTrue
<1> QED  BY <1>3, <1>4 DEF ReadyInv

\* Whatever the age of what is measured against, the dependency has aged by no more.
LEMMA AgeingKeepsIt ==
  ASSUME ReadyInv, AgeReadiness
  PROVE  ReadyInv'
<1>0. /\ Shaped /\ AgesAreTrue /\ NoProbeIsDue /\ UNCHANGED <<up, said>>
  BY DEF ReadyInv, AgeReadiness
<1>1. \A d \in Dependencies : /\ sinceUp[d] \in Nat /\ sinceUp'[d] \in 0 .. Stale
                              /\ sinceUp'[d] <= sinceUp[d] + 1 /\ (d \in up => sinceUp'[d] = 0)
  <2>1. \A d \in Dependencies : sinceUp[d] \in 0 .. Stale
    BY <1>0 DEF Shaped
  <2>2. \A d \in Dependencies : sinceUp'[d] =
          IF d \in up THEN 0 ELSE IF sinceUp[d] < Stale THEN sinceUp[d] + 1 ELSE Stale
    BY DEF AgeReadiness
  <2>3. ASSUME NEW d \in Dependencies
        PROVE  /\ sinceUp[d] \in Nat /\ sinceUp'[d] \in 0 .. Stale
               /\ sinceUp'[d] <= sinceUp[d] + 1 /\ (d \in up => sinceUp'[d] = 0)
    BY <2>1, <2>2, Durations
  <2> QED  BY <2>3
<1>2. sinceUp' \in [Dependencies -> 0 .. Stale]
  BY <1>1 DEF AgeReadiness
<1>3. \A c \in Checks : /\ checks'[c] \in Probing /\ checks'[c].probing = checks[c].probing
                       /\ checks'[c].found = checks[c].found /\ checks[c].age \in Nat
                       /\ (checks[c].probing => checks'[c].age = checks[c].age + 1)
  <2> TAKE c \in Checks
  <2>0. checks[c] \in Probing
    BY <1>0 DEF Shaped
  <2>1. CASE checks[c].probing
    <3>1. checks'[c] = [checks[c] EXCEPT !.age = checks[c].age + 1]
      BY <2>1 DEF AgeReadiness
    <3>2. checks[c].age + 1 \in 0 .. ProbeTimeout
      BY <1>0, <2>0, <2>1, Durations DEF NoProbeIsDue, Probing
    <3> QED  BY <2>0, <3>1, <3>2 DEF Probing
  <2>2. CASE ~checks[c].probing
    <3>1. checks'[c] = checks[c]
      BY <2>2 DEF AgeReadiness
    <3> QED  BY <2>0, <2>2, <3>1 DEF Probing
  <2> QED  BY <2>1, <2>2
<1>4. checks' \in [Checks -> Probing]
  BY <1>3 DEF AgeReadiness
<1>5. /\ cached' \in [healthy : BOOLEAN, age : 0 .. Ttl] /\ cached'.healthy = cached.healthy
      /\ cached.age \in Nat /\ (cached'.age < Ttl => cached.age < Ttl /\ cached'.age = cached.age + 1)
  <2>1. cached' = [cached EXCEPT !.age = IF cached.age < Ttl THEN cached.age + 1 ELSE Ttl]
    BY DEF AgeReadiness
  <2>2. cached \in [healthy : BOOLEAN, age : 0 .. Ttl]
    BY <1>0 DEF Shaped
  <2>3. (IF cached.age < Ttl THEN cached.age + 1 ELSE Ttl) \in 0 .. Ttl
    BY <2>2, Durations
  <2> QED  BY <2>1, <2>2, <2>3, Durations
<1>6. Shaped'
  BY <1>0, <1>2, <1>4, <1>5 DEF Shaped
<1>7. AgesAreTrue'
  <2>1. \A d \in up' : sinceUp'[d] = 0
    BY <1>0, <1>1 DEF Shaped
  <2>2. ASSUME NEW c \in Checks, checks'[c].probing, NEW d \in Dependencies, checks'[c].found[d] = "up"
        PROVE  sinceUp'[d] <= checks'[c].age
    <3>1. sinceUp[d] <= checks[c].age
      BY <1>0, <1>3, <2>2 DEF AgesAreTrue
    <3> QED  BY <1>1, <1>3, <2>2, <3>1
  <2>3. ASSUME cached'.healthy, cached'.age < Ttl, NEW d \in Dependencies
        PROVE  sinceUp'[d] <= cached'.age
    <3>1. sinceUp[d] <= cached.age
      BY <1>0, <1>5, <2>3 DEF AgesAreTrue
    <3> QED  BY <1>1, <1>5, <2>3, <3>1
  <2> QED  BY <2>1, <2>2, <2>3 DEF AgesAreTrue
<1> QED  BY <1>6, <1>7 DEF ReadyInv

LEMMA InitEstablishesReady == Init => ReadyInv
<1> SUFFICES ASSUME Init PROVE ReadyInv
  OBVIOUS
<1>1. /\ up = Dependencies /\ sinceUp = [d \in Dependencies |-> 0]
      /\ cached = [healthy |-> FALSE, age |-> Ttl]
      /\ checks = [c \in Checks |-> Idle] /\ said = [c \in Checks |-> "nothing"]
  BY DEF Init, ReadinessInit
<1>2. Shaped
  BY <1>1, IdleIsShaped, Durations DEF Shaped
<1>3. AgesAreTrue
  BY <1>1, IdleIsShaped DEF AgesAreTrue
<1> QED  BY <1>2, <1>3 DEF ReadyInv

LEMMA StepsKeepReady == ReadyInv /\ [Next]_vars => ReadyInv'
<1> SUFFICES ASSUME ReadyInv, [Next]_vars PROVE ReadyInv'
  OBVIOUS
<1>1. ASSUME UNCHANGED readinessVars PROVE ReadyInv'
  BY <1>1 DEF readinessVars, ReadyInv, Shaped, AgesAreTrue
<1>2. ASSUME NEW c \in Checks, Check(c) PROVE ReadyInv'
  BY <1>2, BeginningKeepsIt, FindingKeepsIt, ConcludingKeepsIt, EndingKeepsIt DEF Check
<1>3. CASE Tick
  BY <1>3, AgeingKeepsIt DEF Tick
<1>4. CASE \/ StartStep \/ FailToStart \/ KillEarly
           \/ Signal \/ ServerClosed \/ CloseStep \/ ExitClean \/ ForceExit
  BY <1>1, <1>4 DEF StartStep, FailToStart, KillEarly, Signal, ServerClosed, CloseStep, ExitClean, ForceExit
<1>5. ASSUME NEW r \in Requests, Serve(r) PROVE ReadyInv'
  BY <1>1, <1>5 DEF Serve, Accept, HangUp, Dispatch, Finish, Deliver
<1> QED  BY <1>1, <1>2, <1>3, <1>4, <1>5, SwitchingKeepsIt DEF Next, vars

\* Who says ready has looked, or has a verdict that is still one; and has not been told to stop.
LEMMA SayingReady ==
  ASSUME ReadyInv, NEW c \in Checks, NEW e \in Checks, Check(e),
         said[c] = "nothing", said'[c] = "ready"
  PROVE  ~draining /\ \A d \in Dependencies : sinceUp[d] <= Recent
<1>0. Shaped /\ AgesAreTrue /\ UNCHANGED sinceUp
  BY DEF ReadyInv, Check, BeginCheck, Probe, TimeoutProbe, Find, Conclude, EndCheck
<1>1. ASSUME NEW healthy, Tell(e, healthy) PROVE healthy /\ ~draining
  BY <1>0, <1>1 DEF Tell, Shaped
<1>2. CASE BeginCheck(e)
  <2>1. cached.age < Ttl /\ Tell(e, cached.healthy)
    BY <1>2 DEF BeginCheck
  <2>2. cached.healthy /\ ~draining
    BY <1>1, <2>1
  <2>3. cached.age \in Nat /\ cached.age <= Recent
    BY <1>0, <2>1, Durations DEF Shaped
  <2>4. ASSUME NEW d \in Dependencies PROVE sinceUp[d] <= Recent
    <3>1. sinceUp[d] \in Nat /\ sinceUp[d] <= cached.age
      BY <1>0, <2>1, <2>2, Durations DEF Shaped, AgesAreTrue
    <3> QED  BY <2>3, <3>1, Durations
  <2> QED  BY <2>2, <2>4
<1>3. CASE Conclude(e)
  <2>1. AllFound(e) /\ Tell(e, Healthy(e))
    BY <1>3 DEF Conclude
  <2>2. Healthy(e) /\ ~draining
    BY <1>1, <2>1
  <2> QED  BY <2>1, <2>2, HealthIsRecent
<1>4. ASSUME NEW x \in Dependencies, Probe(e, x) \/ TimeoutProbe(e, x) PROVE FALSE
  BY <1>4 DEF Probe, TimeoutProbe, Find
<1>5. CASE EndCheck(e)
  BY <1>0, <1>5 DEF EndCheck, Shaped
<1> QED  BY <1>2, <1>3, <1>4, <1>5 DEF Check

\* Ready is only said by a process that takes requests, of dependencies each of which has
\* answered within the life of a verdict.
THEOREM ReadyMeansReady == Spec => ReadyIsTrue
<1> DEFINE Says == \A c \in Checks :
             said[c] = "nothing" /\ said'[c] = "ready" =>
               accepting' /\ \A d \in Dependencies : sinceUp[d] <= Recent
<1>1. ASSUME WorkInv, ReadyInv, Next PROVE Says
  <2> SUFFICES ASSUME NEW c \in Checks, said[c] = "nothing", said'[c] = "ready"
               PROVE  accepting' /\ \A d \in Dependencies : sinceUp[d] <= Recent
    OBVIOUS
  <2>1. ASSUME UNCHANGED said PROVE FALSE
    BY <2>1
  <2>2. PICK e \in Checks : Check(e) /\ phase \notin Ended \cup {"starting"} /\ UNCHANGED <<accepting, draining, processVars>>
    <3>1. ~Tick
      BY <2>1 DEF Tick, AgeReadiness
    <3>2. ~(\/ StartStep \/ FailToStart \/ KillEarly
            \/ Signal \/ ServerClosed \/ CloseStep \/ ExitClean \/ ForceExit)
      BY <2>1 DEF StartStep, FailToStart, KillEarly, Signal, ServerClosed, CloseStep, ExitClean, ForceExit, readinessVars
    <3>3. \A r \in Requests : ~Serve(r)
      BY <2>1 DEF Serve, Accept, HangUp, Dispatch, Finish, Deliver, readinessVars
    <3>4. \A d \in Dependencies : ~SwitchDependency(d)
      BY <2>1 DEF SwitchDependency
    <3> QED  BY <1>1, <3>1, <3>2, <3>3, <3>4 DEF Next
  <2>3. ~draining /\ \A d \in Dependencies : sinceUp[d] <= Recent
    BY <1>1, <2>2, SayingReady
  <2>4. phase = "serving"
    <3>1. phase \notin {"closing", "releasing", "stopped", "forced"}
      BY <1>1, <2>3, Zenon DEF WorkInv, Flagged
    <3> QED  BY <1>1, <2>2, <3>1 DEF WorkInv, Typed, Phases, Ended
  <2>5. accepting' = TRUE
    BY <1>1, <2>2, <2>4 DEF WorkInv, Flagged
  <2> QED  BY <2>3, <2>5
<1>2. WorkInv /\ ReadyInv /\ [Next]_vars => [Says]_vars
  BY <1>1
<1> QED
  BY <1>2, InitEstablishesWork, StepsKeepWork, InitEstablishesReady, StepsKeepReady, PTL
     DEF Spec, ReadyIsTrue
=============================================================================
