------------------------------ MODULE Process -------------------------------
(***************************************************************************)
(* The API process from its start to its end: the steps before the port,   *)
(* the requests and the mail they hand over, the signal, the listener that *)
(* closes when its connections have, the resources closed one by one, and  *)
(* the deadline over all of it.  Readiness answers meanwhile.              *)
(*                                                                         *)
(* The listener counts connections, not handlers: a client that hangs up   *)
(* leaves its handler running, and nobody waits for it.                    *)
(***************************************************************************)
EXTENDS Readiness, Sequences

CONSTANTS
  Requests, \* requests served at the same time
  Deadline  \* ticks a shutdown may take

ASSUME ProcessAssumption == Deadline \in Nat \ {0}

VARIABLES
  phase,    \* where the process is
  progress, \* the step of the start, or of the shutdown, that comes next
  left,     \* ticks until the deadline
  open,     \* resources open
  handlers, \* the requests being served, and those whose client has gone
  mails     \* the message each has handed over

processVars == <<phase, progress, left, open, handlers, mails>>
vars == <<accepting, draining, readinessVars, processVars>>

-----------------------------------------------------------------------------
Startup == <<"environment", "logger", "database", "redis", "role", "container", "checks", "listen">>

\* Mail before the pools, as the container orders them.
ShutdownSteps == <<"mail", "database", "auth-database", "redis">>

Resources == {"mail", "database", "auth-database", "redis"}

\* The resources that are there after each step of the start.
Opened(step) ==
  CASE step = "database" -> {"database"}
    [] step = "redis" -> {"redis"}
    [] step = "container" -> {"mail", "auth-database"}
    [] OTHER -> {}

TypeOK ==
  /\ ReadinessTypeOK
  /\ phase \in {"starting", "serving", "closing", "releasing", "stopped", "forced", "failed", "killed"}
  /\ progress \in 1 .. Len(Startup) + 1
  /\ left \in 0 .. Deadline
  /\ open \subseteq Resources
  /\ handlers \in [Requests -> {"none", "working", "abandoned"}]
  /\ mails \in [Requests -> {"none", "flying", "late"}]

Init ==
  /\ ReadinessInit
  /\ phase = "starting" /\ progress = 1 /\ left = Deadline
  /\ open = {}
  /\ handlers = [r \in Requests |-> "none"]
  /\ mails = [r \in Requests |-> "none"]

Ended == {"stopped", "forced", "failed", "killed"}

Stopping == phase \in {"closing", "releasing"}

-----------------------------------------------------------------------------
(* The start.                                                              *)

\* After the last step the port is open and the signals are handled.
StartStep ==
  /\ phase = "starting"
  /\ open' = open \cup Opened(Startup[progress])
  /\ IF progress = Len(Startup)
     THEN phase' = "serving" /\ accepting' = TRUE /\ progress' = 1
     ELSE progress' = progress + 1 /\ UNCHANGED <<phase, accepting>>
  /\ UNCHANGED <<draining, readinessVars, left, handlers, mails>>

FailToStart ==
  /\ phase = "starting"
  /\ phase' = "failed"
  /\ UNCHANGED <<accepting, draining, readinessVars, progress, left, open, handlers, mails>>

\* A signal nobody handles yet.
KillEarly ==
  /\ phase = "starting"
  /\ phase' = "killed"
  /\ UNCHANGED <<accepting, draining, readinessVars, progress, left, open, handlers, mails>>

-----------------------------------------------------------------------------
(* The requests, and the mail they leave behind.                           *)

Accept(r) ==
  /\ accepting /\ handlers[r] = "none" /\ mails[r] = "none"
  /\ handlers' = [handlers EXCEPT ![r] = "working"]
  /\ UNCHANGED <<accepting, draining, readinessVars, phase, progress, left, open, mails>>

HangUp(r) ==
  /\ handlers[r] = "working"
  /\ handlers' = [handlers EXCEPT ![r] = "abandoned"]
  /\ UNCHANGED <<accepting, draining, readinessVars, phase, progress, left, open, mails>>

\* The message is being sent before the answer is; a transport already closed loses it.
Dispatch(r) ==
  /\ phase \notin Ended
  /\ handlers[r] # "none" /\ mails[r] = "none"
  /\ mails' = [mails EXCEPT ![r] = IF "mail" \in open THEN "flying" ELSE "late"]
  /\ UNCHANGED <<accepting, draining, readinessVars, phase, progress, left, open, handlers>>

Finish(r) ==
  /\ phase \notin Ended
  /\ handlers[r] # "none"
  /\ handlers' = [handlers EXCEPT ![r] = "none"]
  /\ UNCHANGED <<accepting, draining, readinessVars, phase, progress, left, open, mails>>

\* Sent, refused by the relay, or given up: the message is out of the set either way.
Deliver(r) ==
  /\ phase \notin Ended
  /\ mails[r] # "none"
  /\ mails' = [mails EXCEPT ![r] = "none"]
  /\ UNCHANGED <<accepting, draining, readinessVars, phase, progress, left, open, handlers>>

-----------------------------------------------------------------------------
(* The shutdown.                                                           *)

\* Mutant: a second signal begins the shutdown again, deadline and all.
SignalAgain ==
  /\ phase \in {"serving", "closing", "releasing"}
  /\ phase' = "closing" /\ accepting' = FALSE /\ draining' = TRUE
  /\ progress' = 1 /\ left' = Deadline
  /\ UNCHANGED <<readinessVars, open, handlers, mails>>

\* The flag, the deadline and server.close() in one turn of the event loop; a second
\* signal finds the first under way.
Signal ==
  /\ phase = "serving"
  /\ phase' = "closing" /\ accepting' = FALSE /\ draining' = TRUE
  /\ progress' = 1 /\ left' = Deadline
  /\ UNCHANGED <<readinessVars, open, handlers, mails>>

\* Nobody is connected any more.
ServerClosed ==
  /\ phase = "closing"
  /\ \A r \in Requests : handlers[r] # "working"
  /\ \A c \in Checks : ~checks[c].probing
  /\ phase' = "releasing"
  /\ UNCHANGED <<accepting, draining, readinessVars, progress, left, open, handlers, mails>>

\* Mutant: the transport is closed over the messages it is sending.
CloseWithoutDraining ==
  LET step == ShutdownSteps[progress] IN
  /\ phase = "releasing" /\ progress <= Len(ShutdownSteps)
  /\ open' = open \ {step}
  /\ progress' = progress + 1
  /\ UNCHANGED <<accepting, draining, readinessVars, phase, left, handlers, mails>>

\* The next resource, closed or refusing to close; the mail is drained before.
CloseStep ==
  LET step == ShutdownSteps[progress] IN
  /\ phase = "releasing" /\ progress <= Len(ShutdownSteps)
  /\ step = "mail" => \A r \in Requests : mails[r] = "none"
  /\ open' = open \ {step}
  /\ progress' = progress + 1
  /\ UNCHANGED <<accepting, draining, readinessVars, phase, left, handlers, mails>>

ExitClean ==
  /\ phase = "releasing" /\ progress > Len(ShutdownSteps)
  /\ phase' = "stopped"
  /\ UNCHANGED <<accepting, draining, readinessVars, progress, left, open, handlers, mails>>

ForceExit ==
  /\ Stopping /\ left = 0
  /\ phase' = "forced"
  /\ UNCHANGED <<accepting, draining, readinessVars, progress, left, open, handlers, mails>>

Tick ==
  /\ phase \notin Ended
  /\ Stopping => left > 0
  /\ left' = IF Stopping THEN left - 1 ELSE left
  /\ AgeReadiness
  /\ UNCHANGED <<accepting, draining, phase, progress, open, handlers, mails>>

-----------------------------------------------------------------------------
Serve(r) == Accept(r) \/ HangUp(r) \/ Dispatch(r) \/ Finish(r) \/ Deliver(r)

Next ==
  \/ StartStep \/ FailToStart \/ KillEarly
  \/ Signal \/ ServerClosed \/ CloseStep \/ ExitClean \/ ForceExit \/ Tick
  \/ \E r \in Requests : Serve(r)
  \/ /\ phase \notin Ended \cup {"starting"}
     /\ \/ \E c \in Checks : Check(c)
        \/ \E d \in Dependencies : SwitchDependency(d)
     /\ UNCHANGED <<accepting, draining, processVars>>

\* Timers fire, time passes, and a check whose probes are in concludes.  No handler, no
\* message and no resource is promised to come to an end.
Fairness ==
  /\ WF_vars(Tick) /\ WF_vars(ForceExit)
  /\ \A c \in Checks : WF_vars(Expire(c) /\ UNCHANGED <<accepting, draining, processVars>>)

Spec == Init /\ [][Next]_vars /\ Fairness

-----------------------------------------------------------------------------
(* What must hold.                                                         *)

\* No pool is closed under a request whose client is waiting, and neither the transport
\* nor a pool under a message handed over in time.
WorkKeepsWhatItUses ==
  \A r \in Requests :
    phase \notin Ended /\ (handlers[r] = "working" \/ mails[r] = "flying") => open = Resources

\* Not even of a request whose client has gone: this one the code does not promise.
NobodyWorksOnAClosedPool ==
  \A r \in Requests : phase \notin Ended /\ handlers[r] # "none" => open = Resources

\* Ready is said by a process that takes requests, of dependencies that have all
\* answered within the life of a verdict, however checks, failures and the signal overlap.
ReadyIsTrue ==
  [][\A c \in Checks :
       said[c] = "nothing" /\ said'[c] = "ready" =>
         accepting' /\ \A d \in Dependencies : sinceUp[d] <= Recent]_vars

\* A process that was told to stop stops, whatever hangs and however often it is told.
EveryStopEnds == Stopping ~> phase \in Ended
=============================================================================
