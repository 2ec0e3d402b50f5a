--------------------------- MODULE BrowserSession ---------------------------
(***************************************************************************)
(* One browser: tabs that keep an access token in memory, the cookie jar   *)
(* they share, and the API behind them.                                    *)
(*                                                                         *)
(* An exchange with the API is three moments: the tab sends it, with the   *)
(* bearer it holds and the cookie the jar holds then; the server answers;  *)
(* the answer reaches the browser, which applies Set-Cookie to whatever    *)
(* the jar holds by then and hands the rest to the tab.  Every promise     *)
(* that waits for the answer continues in the same task, so nothing comes  *)
(* between them.  A 401 sends a request to wait for the rotation of its    *)
(* tab, of which there is one at a time, and be sent once more.            *)
(*                                                                         *)
(* The server side is the family of Sessions, one commit per exchange.     *)
(***************************************************************************)
EXTENDS Naturals, Sequences

CONSTANTS
  Tabs,
  Calls,      \* the requests a signed-in screen makes, besides sign-in and sign-out
  Offers,     \* bound: which of its slots each tab uses
  MaxTokens,  \* bound: refresh tokens the server issues; then it answers 5xx
  Outages,    \* bound: exchanges that fail before the server has acted on them
  Slow,       \* whether an answer may take longer than the grace of a lost race
  None

Slots == {"refresh", "login", "logout"} \cup Calls

ASSUME ParamAssumption ==
  /\ Calls \cap {"refresh", "login", "logout"} = {}
  /\ Offers \in [Tabs -> SUBSET (Slots \ {"refresh"})]
  /\ MaxTokens \in Nat \ {0} /\ Outages \in Nat
  /\ Slow \in BOOLEAN
  /\ None \notin Nat /\ None \notin Tabs

VARIABLES
  tokens,   \* the refresh tokens issued, with the state of their session row
  jar,      \* the refresh cookie, shared by the tabs
  tabs,     \* the module state of each tab
  wire,     \* the exchange each tab has in flight in each slot
  outages   \* how many exchanges have failed on the way

vars == <<tokens, jar, tabs, wire, outages>>

-----------------------------------------------------------------------------
Token == 1 .. MaxTokens

\* recent: spent within the grace of a lost race.  stale: the access token minted
\* with a live row has had its fifteen minutes.
TokenRow == [family : Token, state : {"live", "rotated", "closed"}, recent : BOOLEAN,
             stale : BOOLEAN, spentBy : Tabs \cup {None}]

Statuses == {"closed", "unknown", "anonymous", "authenticated"}

Tab == [status : Statuses, rendered : Statuses, memory : Token \cup {None},
        bootstrapped : {"released", "pending", "settled"}, sessionLost : BOOLEAN]

Answers == {"none", "session", "done", "refused", "failed"}

Exchange == [stage : {"none", "sent", "answered", "waiting"}, bearer : Token \cup {None},
             cookie : Token \cup {None}, retry : BOOLEAN, answer : Answers,
             token : Token \cup {None}]

TypeOK ==
  /\ tokens \in Seq(TokenRow) /\ Len(tokens) <= MaxTokens
  /\ jar \in 1 .. Len(tokens) \cup {None}
  /\ tabs \in [Tabs -> Tab]
  /\ wire \in [Tabs -> [Slots -> Exchange]]
  /\ outages \in 0 .. Outages

Quiet == [stage |-> "none", bearer |-> None, cookie |-> None, retry |-> FALSE,
          answer |-> "none", token |-> None]

Live(family) == [family |-> family, state |-> "live", recent |-> FALSE, stale |-> FALSE,
                 spentBy |-> None]

\* Somebody who signed in before, or somebody who never did.
Init ==
  /\ \/ tokens = <<>> /\ jar = None
     \/ tokens = <<Live(1)>> /\ jar = 1
  /\ tabs = [t \in Tabs |-> [status |-> "closed", rendered |-> "closed", memory |-> None,
                             bootstrapped |-> "released", sessionLost |-> FALSE]]
  /\ wire = [t \in Tabs |-> [s \in Slots |-> Quiet]]
  /\ outages = 0

-----------------------------------------------------------------------------
(* Sending.                                                                *)

\* The cookie is scoped to the authentication endpoints, and two of them read it;
\* the sign-in reads no credential but the form.
Sent(s, bearer, cookie, retry) ==
  [Quiet EXCEPT !.stage = "sent", !.retry = retry,
                !.bearer = IF s = "login" THEN None ELSE bearer,
                !.cookie = IF s \in {"refresh", "logout"} THEN cookie ELSE None]

\* Mutant: the gate opens as soon as the server has answered.
JoinRefreshUngated(t, w) ==
  IF w["refresh"].stage = "sent" THEN w
  ELSE [w EXCEPT !["refresh"] = Sent("refresh", None, jar, FALSE)]

\* One rotation at a time for the whole tab: whoever comes second waits for it.
JoinRefresh(t, w) ==
  IF w["refresh"].stage # "none" THEN w
  ELSE [w EXCEPT !["refresh"] = Sent("refresh", None, jar, FALSE)]

\* The composition root renders for the first time, and asks who this is.
Open(t) ==
  /\ tabs[t].status = "closed"
  /\ tabs' = [tabs EXCEPT ![t].status = "unknown", ![t].rendered = "unknown",
                          ![t].bootstrapped = "pending"]
  /\ wire' = [wire EXCEPT ![t] = JoinRefresh(t, @)]
  /\ UNCHANGED <<tokens, jar, outages>>

\* Mutant: every render asks again.
RenderAsking(t) ==
  /\ tabs[t].status # tabs[t].rendered
  /\ tabs[t].bootstrapped # "pending"
  /\ tabs' = [tabs EXCEPT ![t].rendered = tabs[t].status, ![t].bootstrapped = "pending"]
  /\ wire' = [wire EXCEPT ![t] = JoinRefresh(t, @)]
  /\ UNCHANGED <<tokens, jar, outages>>

\* The root renders again because the session changed, and for no other reason.
\* It asks again only if the memo was released.
Render(t) ==
  /\ tabs[t].status # tabs[t].rendered
  /\ IF tabs[t].bootstrapped = "released"
     THEN /\ tabs' = [tabs EXCEPT ![t].rendered = tabs[t].status,
                                  ![t].bootstrapped = "pending"]
          /\ wire' = [wire EXCEPT ![t] = JoinRefresh(t, @)]
     ELSE /\ tabs' = [tabs EXCEPT ![t].rendered = tabs[t].status]
          /\ UNCHANGED wire
  /\ UNCHANGED <<tokens, jar, outages>>

\* Screens behind the guard call the API and offer the sign-out; the sign-in form
\* is for whoever is not signed in.  Nothing is on screen while nobody knows.
Send(t, s) ==
  /\ wire[t][s].stage = "none"
  /\ s \in Calls \cup {"logout"} => tabs[t].status = "authenticated"
  /\ s = "login" => tabs[t].status = "anonymous"
  /\ s \in Offers[t]
  /\ wire' = [wire EXCEPT ![t][s] = Sent(s, tabs[t].memory, jar, FALSE)]
  /\ UNCHANGED <<tokens, jar, tabs, outages>>

-----------------------------------------------------------------------------
(* The server.                                                             *)

Answer(t, s, answer, token) ==
  wire' = [wire EXCEPT ![t][s].stage = "answered", ![t][s].bearer = None,
                       ![t][s].answer = answer, ![t][s].token = token]

Accepted(token) ==
  token # None /\ tokens[token].state = "live" /\ ~tokens[token].stale

\* Mutant: every spent token is theft.
LostRaceNever(token) == FALSE

LostRace(token) == token # None /\ tokens[token].state = "rotated" /\ tokens[token].recent

Closed(family) ==
  [i \in DOMAIN tokens |->
     IF tokens[i].family = family /\ tokens[i].state = "live"
     THEN [tokens[i] EXCEPT !.state = "closed", !.stale = FALSE] ELSE tokens[i]]

Room == Len(tokens) < MaxTokens

NextToken == Len(tokens) + 1

Rotate(t) ==
  LET c == wire[t]["refresh"].cookie IN
  /\ wire[t]["refresh"].stage = "sent"
  /\ c # None /\ tokens[c].state = "live" /\ Room
  /\ tokens' = Append([tokens EXCEPT ![c].state = "rotated", ![c].stale = FALSE,
                                     ![c].recent = TRUE, ![c].spentBy = t], Live(tokens[c].family))
  /\ Answer(t, "refresh", "session", NextToken)
  /\ UNCHANGED <<jar, tabs, outages>>

\* No cookie, or a race lost to somebody else: a plain refusal.
RefuseRefresh(t) ==
  LET c == wire[t]["refresh"].cookie IN
  /\ wire[t]["refresh"].stage = "sent"
  /\ c # None => LostRace(c)
  /\ Answer(t, "refresh", "refused", None)
  /\ UNCHANGED <<tokens, jar, tabs, outages>>

\* A spent token that no race explains: the family is closed.
DetectReuse(t) ==
  LET c == wire[t]["refresh"].cookie IN
  /\ wire[t]["refresh"].stage = "sent"
  /\ c # None /\ tokens[c].state # "live" /\ ~LostRace(c)
  /\ tokens' = Closed(tokens[c].family)
  /\ Answer(t, "refresh", "refused", None)
  /\ UNCHANGED <<jar, tabs, outages>>

\* A replay carries the password that has just been refused.
SignIn(t) ==
  /\ wire[t]["login"].stage = "sent" /\ ~wire[t]["login"].retry /\ Room
  /\ tokens' = Append(tokens, Live(NextToken))
  /\ Answer(t, "login", "session", NextToken)
  /\ UNCHANGED <<jar, tabs, outages>>

WrongPassword(t) ==
  /\ wire[t]["login"].stage = "sent"
  /\ Answer(t, "login", "refused", None)
  /\ UNCHANGED <<tokens, jar, tabs, outages>>

\* Bearer first, cookie second; a spent cookie still names its session.
SignOut(t) ==
  LET q == wire[t]["logout"]
      names == IF Accepted(q.bearer) THEN q.bearer ELSE q.cookie IN
  /\ q.stage = "sent"
  /\ IF names = None
     THEN Answer(t, "logout", "refused", None) /\ UNCHANGED tokens
     ELSE Answer(t, "logout", "done", None) /\ tokens' = Closed(tokens[names].family)
  /\ UNCHANGED <<jar, tabs, outages>>

Serve(t, s) ==
  /\ s \in Calls
  /\ wire[t][s].stage = "sent"
  /\ Answer(t, s, IF Accepted(wire[t][s].bearer) THEN "done" ELSE "refused", None)
  /\ UNCHANGED <<tokens, jar, tabs, outages>>

\* No connection, or a 5xx before anything was written.
Fail(t, s) ==
  /\ wire[t][s].stage = "sent" /\ outages < Outages
  /\ outages' = outages + 1
  /\ Answer(t, s, "failed", None)
  /\ UNCHANGED <<tokens, jar, tabs>>

\* The bound on tokens, seen from the browser.
Exhausted(t, s) ==
  /\ wire[t][s].stage = "sent" /\ s \in {"refresh", "login"} /\ ~Room
  /\ Answer(t, s, "failed", None)
  /\ UNCHANGED <<tokens, jar, tabs, outages>>

-----------------------------------------------------------------------------
(* The answer reaches the browser.                                         *)

Waiting(t) == {s \in Slots : wire[t][s].stage = "waiting"}

\* What is left of a sign-out that was asked for, whatever the server said.
Ended(tab) == [tab EXCEPT !.memory = None, !.status = "anonymous"]

\* The requests that waited are over; a sign-out among them ends the tab's session.
EndWaiting(t, tab) == IF "logout" \in Waiting(t) THEN Ended(tab) ELSE tab

Released(t) ==
  [s \in Slots |-> IF s = "refresh" \/ s \in Waiting(t) THEN Quiet ELSE wire[t][s]]

Pending(t) == tabs[t].bootstrapped = "pending"

\* The new token goes to memory; whoever asked who this is learns it, and the
\* requests that waited are sent once more.
Adopt(t) ==
  LET new == wire[t]["refresh"].token IN
  /\ wire[t]["refresh"].stage = "answered" /\ wire[t]["refresh"].answer = "session"
  /\ jar' = new
  /\ tabs' = [tabs EXCEPT
       ![t].memory = new,
       ![t].status = IF Pending(t) THEN "authenticated" ELSE @,
       ![t].bootstrapped = IF Pending(t) THEN "settled" ELSE @,
       ![t].sessionLost = IF Waiting(t) # {} THEN FALSE ELSE @]
  /\ wire' = [wire EXCEPT ![t] =
       [s \in Slots |-> IF s \in Waiting(t) THEN Sent(s, new, new, TRUE)
                        ELSE IF s = "refresh" THEN Quiet ELSE wire[t][s]]]
  /\ UNCHANGED <<tokens, outages>>

\* Mutant: nobody ends the session when the rotation was refused to a request.
LoseQuietly(t) ==
  /\ wire[t]["refresh"].stage = "answered" /\ wire[t]["refresh"].answer = "refused"
  /\ jar' = None
  /\ tabs' = [tabs EXCEPT
       ![t].memory = None,
       ![t].status = IF Pending(t) THEN "anonymous" ELSE @,
       ![t].bootstrapped = IF Pending(t) THEN "settled" ELSE @,
       ![t].sessionLost = @ \/ Waiting(t) # {}]
  /\ wire' = [wire EXCEPT ![t] = Released(t)]
  /\ UNCHANGED <<tokens, outages>>

\* Every refusal clears the cookie, whichever it is by now.  Whoever waited learns
\* that the session is over.
Lose(t) ==
  /\ wire[t]["refresh"].stage = "answered" /\ wire[t]["refresh"].answer = "refused"
  /\ jar' = None
  /\ tabs' = [tabs EXCEPT
       ![t].memory = None,
       ![t].status = IF Pending(t) \/ Waiting(t) # {} THEN "anonymous" ELSE @,
       ![t].bootstrapped = IF Pending(t) THEN "settled" ELSE @,
       ![t].sessionLost = @ \/ Waiting(t) # {}]
  /\ wire' = [wire EXCEPT ![t] = Released(t)]
  /\ UNCHANGED <<tokens, outages>>

\* Mutant: the promise of those who waited is forgotten.
PostponeForgetting(t) ==
  /\ wire[t]["refresh"].stage = "answered" /\ wire[t]["refresh"].answer = "failed"
  /\ wire' = [wire EXCEPT ![t]["refresh"] = Quiet]
  /\ UNCHANGED <<tokens, jar, outages, tabs>>

\* Nothing was learned: the requests that waited fail, the memo is released.
Postpone(t) ==
  /\ wire[t]["refresh"].stage = "answered" /\ wire[t]["refresh"].answer = "failed"
  /\ tabs' = [tabs EXCEPT
       ![t] = [EndWaiting(t, tabs[t]) EXCEPT
                 !.bootstrapped = IF Pending(t) THEN "released" ELSE tabs[t].bootstrapped]]
  /\ wire' = [wire EXCEPT ![t] = Released(t)]
  /\ UNCHANGED <<tokens, jar, outages>>

\* The form's answer: a session, adopted and started at once.
Start(t) ==
  LET q == wire[t]["login"] IN
  /\ q.stage = "answered" /\ q.answer = "session"
  /\ jar' = q.token
  /\ tabs' = [tabs EXCEPT ![t].memory = q.token, ![t].status = "authenticated"]
  /\ wire' = [wire EXCEPT ![t]["login"] = Quiet]
  /\ UNCHANGED <<tokens, outages>>

\* A request that cannot be helped: a replay, or a tab whose session is known lost.
Hopeless(t, s) ==
  wire[t][s].retry \/ (tabs[t].sessionLost /\ tabs[t].memory = None)

\* A 401 waits for the rotation, starting it if need be.
AwaitRefresh(t, s) ==
  /\ s # "refresh"
  /\ wire[t][s].stage = "answered" /\ wire[t][s].answer = "refused" /\ ~Hopeless(t, s)
  /\ wire' = [wire EXCEPT ![t] = JoinRefresh(t, [@ EXCEPT ![s] = [Quiet EXCEPT !.stage = "waiting"]])]
  /\ UNCHANGED <<tokens, jar, tabs, outages>>

\* The request is over.  A sign-out ends the session of the tab however it went, and
\* the cookie with it if the server agreed.
Settle(t, s) ==
  LET q == wire[t][s] IN
  /\ s # "refresh" /\ q.stage = "answered"
  /\ \/ q.answer \in {"done", "failed"}
     \/ q.answer = "refused" /\ Hopeless(t, s)
  /\ jar' = IF s = "logout" /\ q.answer = "done" THEN None ELSE jar
  /\ tabs' = IF s = "logout" THEN [tabs EXCEPT ![t] = Ended(@)] ELSE tabs
  /\ wire' = [wire EXCEPT ![t][s] = Quiet]
  /\ UNCHANGED <<tokens, outages>>

-----------------------------------------------------------------------------
(* Time, and other devices.                                                *)

\* The fifteen minutes of the access token minted with this row.
AccessExpires(i) ==
  /\ tokens[i].state = "live" /\ ~tokens[i].stale
  /\ tokens' = [tokens EXCEPT ![i].stale = TRUE]
  /\ UNCHANGED <<jar, tabs, wire, outages>>

Presented(i) ==
  \E t \in Tabs, s \in {"refresh", "logout"} : wire[t][s].stage # "none" /\ wire[t][s].cookie = i

\* The ten seconds in which a spent token is a lost race.  Unless Slow, no exchange
\* that presented it is on the way for that long.
GraceEnds(i) ==
  /\ tokens[i].state = "rotated" /\ tokens[i].recent
  /\ Slow \/ ~Presented(i)
  /\ tokens' = [tokens EXCEPT ![i].recent = FALSE]
  /\ UNCHANGED <<jar, tabs, wire, outages>>

\* A reset, an administrator, "sign out everywhere else" on another device.
EndedElsewhere(i) ==
  /\ tokens[i].state = "live"
  /\ tokens' = Closed(tokens[i].family)
  /\ UNCHANGED <<jar, tabs, wire, outages>>

-----------------------------------------------------------------------------
ServerStep(t, s) ==
  \/ s = "refresh" /\ (Rotate(t) \/ RefuseRefresh(t) \/ DetectReuse(t))
  \/ s = "login" /\ (SignIn(t) \/ WrongPassword(t))
  \/ s = "logout" /\ SignOut(t)
  \/ Serve(t, s) \/ Fail(t, s) \/ Exhausted(t, s)

BrowserStep(t, s) ==
  \/ s = "refresh" /\ (Adopt(t) \/ Lose(t) \/ Postpone(t))
  \/ s = "login" /\ Start(t)
  \/ AwaitRefresh(t, s) \/ Settle(t, s)

Next ==
  \/ \E t \in Tabs : Open(t) \/ Render(t)
  \/ \E t \in Tabs, s \in Slots : Send(t, s) \/ ServerStep(t, s) \/ BrowserStep(t, s)
  \/ \E i \in DOMAIN tokens : AccessExpires(i) \/ GraceEnds(i) \/ EndedElsewhere(i)

Spec == Init /\ [][Next]_vars

\* An exchange is answered or broken off, and the event loop of a tab runs.  Nobody
\* has to open a tab, to send anything, or to let a token grow old.
Fairness ==
  \A t \in Tabs : /\ WF_vars(Render(t))
                  /\ \A s \in Offers[t] \cup {"refresh"} :
                       WF_vars(ServerStep(t, s)) /\ WF_vars(BrowserStep(t, s))

FairSpec == Spec /\ Fairness

-----------------------------------------------------------------------------
(* What must hold.                                                         *)

\* A tab that shows a signed-in screen has a token to send.
ShellHoldsItsToken ==
  \A t \in Tabs : tabs[t].status = "authenticated" => tabs[t].memory # None

\* However many requests of a tab are refused at once, the tab never presents a
\* refresh token it has itself spent.
NeverRacesItself ==
  [][\A t \in Tabs :
       LET c == wire[t]["refresh"].cookie IN
       RefuseRefresh(t) \/ DetectReuse(t) => c = None \/ tokens[c].spentBy # t]_vars

\* While answers arrive within the grace, the detection of reuse never closes a
\* session that is in use: tabs that race each other are not taken for a thief.
DetectionSparesTheLive == [][\A t \in Tabs : DetectReuse(t) => tokens' = tokens]_vars

\* A tab that was signed out shows a signed-in screen again only when somebody signs
\* in there: no render and no late answer does it.
SignedOutStaysOut ==
  [][\A t \in Tabs :
       tabs[t].status = "anonymous" /\ tabs'[t].status = "authenticated" => Start(t)]_vars

\* Every request of a screen ends, whether it waited for a rotation or not.
EveryRequestEnds ==
  \A t \in Tabs : \A s \in Offers[t] : wire[t][s].stage # "none" ~> wire[t][s].stage = "none"

\* A tab that has been opened finds out who it is.
TabsLeaveUnknown ==
  \A t \in Tabs : tabs[t].status = "unknown" ~> tabs[t].status # "unknown"

\* A tab that was signed out keeps no token.
SignedOutHoldsNothing ==
  \A t \in Tabs : tabs[t].status = "anonymous" => tabs[t].memory = None

\* A cookie that would still be accepted is dropped by a sign-out and by nothing else.
LiveCookieIsKept ==
  [][jar # None /\ jar' = None /\ tokens[jar].state = "live" =>
       \E t \in Tabs : Settle(t, "logout")]_vars
=============================================================================
