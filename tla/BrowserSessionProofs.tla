------------------------ MODULE BrowserSessionProofs -------------------------
(***************************************************************************)
(* Theorems about BrowserSession, for any number of tabs, requests, tokens *)
(* and outages.                                                            *)
(***************************************************************************)
EXTENDS BrowserSession, TLAPS, SequenceTheorems

\* The refresh tokens the server has issued, and none.
Issued == (1 .. Len(tokens)) \cup {None}

\* Nobody holds or presents a token that was never issued, and a family is named
\* after its first token.
NamesAreIssued ==
  /\ \A t \in Tabs : tabs[t].memory \in Issued
  /\ \A t \in Tabs, s \in Slots :
       wire[t][s].bearer \in Issued /\ wire[t][s].cookie \in Issued /\ wire[t][s].token \in Issued
  /\ \A i \in 1 .. Len(tokens) : tokens[i].family \in 1 .. Len(tokens)

\* What an exchange carries at each of its stages.
ExchangesAreShaped ==
  \A t \in Tabs, s \in Slots :
    /\ wire[t][s].stage # "answered" => wire[t][s].answer = "none"
    /\ wire[t][s].answer = "session" => s \in {"refresh", "login"} /\ wire[t][s].token # None
    /\ wire[t][s].stage = "waiting" => s # "refresh" /\ wire[t][s].cookie = None
    /\ wire[t][s].cookie # None => s \in {"refresh", "logout"}

TypeInv == TypeOK /\ NamesAreIssued /\ ExchangesAreShaped

-----------------------------------------------------------------------------
(* Types.                                                                  *)

LEMMA SlotsType ==
  /\ "refresh" \in Slots /\ "login" \in Slots /\ "logout" \in Slots
  /\ Calls \subseteq Slots /\ "refresh" \notin Calls /\ "login" \notin Calls /\ "logout" \notin Calls
BY ParamAssumption DEF Slots

LEMMA TokensType ==
  ASSUME TypeOK
  PROVE  /\ Len(tokens) \in Nat /\ DOMAIN tokens = 1 .. Len(tokens)
         /\ tokens \in [1 .. Len(tokens) -> TokenRow]
         /\ Issued \subseteq Token \cup {None}
         /\ None \notin 1 .. Len(tokens)
<1>1. tokens \in Seq(TokenRow) /\ Len(tokens) <= MaxTokens
  BY DEF TypeOK
<1>2. Len(tokens) \in Nat /\ DOMAIN tokens = 1 .. Len(tokens) /\ tokens \in [1 .. Len(tokens) -> TokenRow]
  BY <1>1, LenProperties
<1> QED
  BY <1>1, <1>2, ParamAssumption DEF Issued, Token

LEMMA SentType ==
  ASSUME NEW s \in Slots, NEW bearer \in Token \cup {None}, NEW cookie \in Token \cup {None},
         NEW retry \in BOOLEAN
  PROVE  LET q == Sent(s, bearer, cookie, retry) IN
         /\ q \in Exchange /\ q.stage = "sent" /\ q.answer = "none" /\ q.token = None
         /\ q.bearer \in {bearer, None} /\ q.retry = retry
         /\ q.cookie = IF s \in {"refresh", "logout"} THEN cookie ELSE None
BY DEF Sent, Quiet, Exchange, Answers

\* A request that waits for the rotation of its tab.
Awaiting == [Quiet EXCEPT !.stage = "waiting"]

LEMMA QuietType ==
  /\ Quiet \in Exchange /\ Quiet.stage = "none" /\ Quiet.answer = "none"
  /\ Quiet.bearer = None /\ Quiet.cookie = None /\ Quiet.token = None
  /\ Awaiting \in Exchange /\ Awaiting.stage = "waiting" /\ Awaiting.answer = "none"
  /\ Awaiting.bearer = None /\ Awaiting.cookie = None /\ Awaiting.token = None
BY DEF Quiet, Awaiting, Exchange, Answers

\* One exchange replaced by another.
LEMMA ChangedType ==
  ASSUME NEW w \in [Tabs -> [Slots -> Exchange]], NEW t \in Tabs, NEW s \in Slots,
         NEW q \in Exchange
  PROVE  LET c == [w EXCEPT ![t][s] = q] IN
         /\ c \in [Tabs -> [Slots -> Exchange]]
         /\ c[t][s] = q
         /\ \A v \in Tabs, x \in Slots : v # t \/ x # s => c[v][x] = w[v][x]
OBVIOUS

LEMMA AnswerType ==
  ASSUME TypeOK, NEW t \in Tabs, NEW s \in Slots, NEW answer \in Answers,
         NEW token \in Token \cup {None}, Answer(t, s, answer, token)
  PROVE  /\ wire' \in [Tabs -> [Slots -> Exchange]]
         /\ \A v \in Tabs, x \in Slots : v # t \/ x # s => wire'[v][x] = wire[v][x]
         /\ LET q == wire'[t][s] IN
            /\ q.stage = "answered" /\ q.answer = answer /\ q.token = token
            /\ q.bearer = None /\ q.cookie = wire[t][s].cookie /\ q.retry = wire[t][s].retry
<1> DEFINE q == [wire[t][s] EXCEPT !.stage = "answered", !.bearer = None,
                                    !.answer = answer, !.token = token]
<1>1. wire \in [Tabs -> [Slots -> Exchange]]
  BY DEF TypeOK
<1>2. wire' = [wire EXCEPT ![t][s] = q]
  BY <1>1 DEF Answer
<1>3. /\ q \in Exchange
      /\ q.stage = "answered" /\ q.answer = answer /\ q.token = token
      /\ q.bearer = None /\ q.cookie = wire[t][s].cookie /\ q.retry = wire[t][s].retry
  <2>1. wire[t][s] \in Exchange
    BY <1>1
  <2> QED
    BY <2>1 DEF Exchange
<1> HIDE DEF q
<1> QED
  BY <1>1, <1>2, <1>3, ChangedType

\* The rotation of a tab, started or joined.
LEMMA JoinRefreshType ==
  ASSUME TypeOK, NEW t \in Tabs, NEW w \in [Slots -> Exchange]
  PROVE  LET j == JoinRefresh(t, w) IN
         /\ j \in [Slots -> Exchange]
         /\ \A x \in Slots \ {"refresh"} : j[x] = w[x]
         /\ \/ w["refresh"].stage # "none" /\ j["refresh"] = w["refresh"]
            \/ w["refresh"].stage = "none" /\ j["refresh"] = Sent("refresh", None, jar, FALSE)
         /\ Sent("refresh", None, jar, FALSE) \in Exchange
<1>1. jar \in Token \cup {None}
  BY TokensType DEF TypeOK, Issued
<1>2. Sent("refresh", None, jar, FALSE) \in Exchange
  BY <1>1, SentType, SlotsType
<1> QED
  BY <1>2, SlotsType DEF JoinRefresh

LEMMA ClosedType ==
  ASSUME TypeOK, NEW family
  PROVE  /\ Closed(family) \in Seq(TokenRow) /\ Len(Closed(family)) = Len(tokens)
         /\ \A i \in 1 .. Len(tokens) :
              LET a == tokens[i]
                  b == Closed(family)[i] IN
              /\ b.family = a.family /\ b.recent = a.recent /\ b.spentBy = a.spentBy
              /\ b.state = IF a.family = family /\ a.state = "live" THEN "closed" ELSE a.state
              /\ b.state # "closed" \/ a.state = "closed" => b = a
<1>1. /\ Len(tokens) \in Nat /\ DOMAIN tokens = 1 .. Len(tokens)
      /\ tokens \in [1 .. Len(tokens) -> TokenRow]
  BY TokensType
<1>2. Closed(family) \in [1 .. Len(tokens) -> TokenRow]
  BY <1>1 DEF Closed, TokenRow
<1>3. Closed(family) \in Seq(TokenRow)
  BY <1>1, <1>2, SeqDef
<1>4. Len(Closed(family)) = Len(tokens)
  <2>1. Len(Closed(family)) \in Nat /\ 1 .. Len(Closed(family)) = 1 .. Len(tokens)
    BY <1>2, <1>3, LenProperties
  <2> QED
    BY <1>1, <2>1
<1>5. ASSUME NEW i \in 1 .. Len(tokens)
      PROVE  Closed(family)[i] = IF tokens[i].family = family /\ tokens[i].state = "live"
                                 THEN [tokens[i] EXCEPT !.state = "closed", !.stale = FALSE] ELSE tokens[i]
  BY <1>1 DEF Closed
<1> QED
  BY <1>1, <1>3, <1>4, <1>5 DEF TokenRow

-----------------------------------------------------------------------------
(* What the steps have in common.                                          *)

\* No token is issued or spent; a family that is closed is closed as a whole.
TokensKept ==
  /\ tokens' \in Seq(TokenRow) /\ Len(tokens') = Len(tokens)
  /\ \A i \in 1 .. Len(tokens) :
       /\ tokens'[i].family = tokens[i].family /\ tokens'[i].spentBy = tokens[i].spentBy
       /\ tokens'[i].recent = tokens[i].recent
       /\ \/ tokens'[i].state = tokens[i].state
          \/ tokens[i].state = "live" /\ tokens'[i].state = "closed"
  /\ \A i, j \in 1 .. Len(tokens) :
       /\ tokens[i].state = "live" /\ tokens'[i].state = "closed"
       /\ tokens[i].family = tokens[j].family
       => tokens'[j].state # "live"

\* What may become of an exchange in a step that hands out no session: nothing, it is
\* over or waits, it is answered, or it is sent with the cookie of now.
Over(t, s) ==
  LET old == wire[t][s]
      new == wire'[t][s] IN
  \/ new = old
  \/ /\ old.answer # "session" /\ new.answer = "none"
     /\ new.stage \in {"none", "waiting"} /\ new.cookie = None
  \/ /\ old.stage = "sent" /\ new.stage = "answered"
     /\ new.cookie = old.cookie /\ new.answer # "session"
  \/ /\ old.answer # "session" /\ new.answer = "none" /\ new.stage = "sent"
     /\ new.cookie \in {jar, None} /\ (s = "refresh" => old.stage = "none")

Gentle ==
  /\ TokensKept
  /\ jar' \in {jar, None}
  /\ \A t \in Tabs, s \in Slots : Over(t, s)

LEMMA UnchangedTokensKept ==
  ASSUME TypeOK, tokens' = tokens
  PROVE  TokensKept
BY TokensType DEF TokensKept, TypeOK

LEMMA ClosedTokensKept ==
  ASSUME TypeOK, NEW family, tokens' = Closed(family)
  PROVE  TokensKept
<1> DEFINE c == Closed(family)
<1>1. Len(tokens) \in Nat /\ tokens \in [1 .. Len(tokens) -> TokenRow]
  BY TokensType
<1>2. /\ c \in Seq(TokenRow) /\ Len(c) = Len(tokens)
      /\ \A i \in 1 .. Len(tokens) :
           /\ c[i].family = tokens[i].family /\ c[i].recent = tokens[i].recent
           /\ c[i].spentBy = tokens[i].spentBy
           /\ c[i].state = IF tokens[i].family = family /\ tokens[i].state = "live"
                           THEN "closed" ELSE tokens[i].state
  BY ClosedType
<1>3. tokens' = c
  OBVIOUS
<1> HIDE DEF c
<1> QED
  BY <1>1, <1>2, <1>3 DEF TokensKept

\* The server says something other than a session.
LEMMA PlainAnswer ==
  ASSUME TypeInv, NEW t \in Tabs, NEW s \in Slots, wire[t][s].stage = "sent",
         NEW answer \in {"done", "refused", "failed"}, Answer(t, s, answer, None),
         TokensKept, jar' = jar, tabs' = tabs, outages' \in 0 .. Outages
  PROVE  TypeInv' /\ Gentle
<1>1. answer \in Answers /\ answer # "none" /\ answer # "session"
  BY DEF Answers
<1>2. /\ wire' \in [Tabs -> [Slots -> Exchange]]
      /\ \A v \in Tabs, x \in Slots : v # t \/ x # s => wire'[v][x] = wire[v][x]
      /\ LET q == wire'[t][s] IN
         /\ q.stage = "answered" /\ q.answer = answer /\ q.token = None
         /\ q.bearer = None /\ q.cookie = wire[t][s].cookie
  BY <1>1, AnswerType DEF TypeInv
<1>3. TypeOK'
  BY <1>2 DEF TypeInv, TypeOK, TokensKept
<1>4. Issued' = Issued
  BY DEF Issued, TokensKept
<1>5. NamesAreIssued'
  BY <1>2, <1>4 DEF TypeInv, NamesAreIssued, TokensKept, Issued
<1>6. ExchangesAreShaped'
  BY <1>1, <1>2 DEF TypeInv, ExchangesAreShaped
<1>7. \A v \in Tabs, x \in Slots : Over(v, x)
  BY <1>1, <1>2 DEF Over
<1> QED
  BY <1>3, <1>5, <1>6, <1>7 DEF TypeInv, Gentle

LEMMA RefusalsAreGentle ==
  ASSUME TypeInv, NEW t \in Tabs,
         RefuseRefresh(t) \/ DetectReuse(t) \/ WrongPassword(t)
  PROVE  TypeInv' /\ Gentle
<1>1. CASE RefuseRefresh(t)
  BY <1>1, PlainAnswer, SlotsType, UnchangedTokensKept DEF RefuseRefresh, TypeInv, TypeOK
<1>2. CASE DetectReuse(t)
  BY <1>2, PlainAnswer, SlotsType, ClosedTokensKept DEF DetectReuse, TypeInv, TypeOK
<1>3. CASE WrongPassword(t)
  BY <1>3, PlainAnswer, SlotsType, UnchangedTokensKept DEF WrongPassword, TypeInv, TypeOK
<1> QED
  BY <1>1, <1>2, <1>3

LEMMA SignOutIsGentle ==
  ASSUME TypeInv, NEW t \in Tabs, SignOut(t)
  PROVE  TypeInv' /\ Gentle
<1> DEFINE q == wire[t]["logout"]
           names == IF Accepted(q.bearer) THEN q.bearer ELSE q.cookie
<1>1. CASE names = None
  BY <1>1, PlainAnswer, SlotsType, UnchangedTokensKept DEF SignOut, TypeInv, TypeOK
<1>2. CASE names # None
  BY <1>2, PlainAnswer, SlotsType, ClosedTokensKept DEF SignOut, TypeInv, TypeOK
<1> QED
  BY <1>1, <1>2

LEMMA ServeIsGentle ==
  ASSUME TypeInv, NEW t \in Tabs, NEW s \in Slots,
         Serve(t, s) \/ Fail(t, s) \/ Exhausted(t, s)
  PROVE  TypeInv' /\ Gentle
<1>1. CASE Serve(t, s)
  BY <1>1, PlainAnswer, UnchangedTokensKept DEF Serve, TypeInv, TypeOK
<1>2. CASE Fail(t, s)
  <2>1. outages' \in 0 .. Outages
    BY <1>2, ParamAssumption DEF Fail, TypeInv, TypeOK
  <2> QED
    BY <1>2, <2>1, PlainAnswer, UnchangedTokensKept DEF Fail, TypeInv
<1>3. CASE Exhausted(t, s)
  BY <1>3, PlainAnswer, UnchangedTokensKept DEF Exhausted, TypeInv, TypeOK
<1> QED
  BY <1>1, <1>2, <1>3

\* A tab sends or joins its rotation; whatever it waits for waits with it.
LEMMA JoiningIsGentle ==
  ASSUME TypeInv, NEW t \in Tabs, NEW w \in [Slots -> Exchange],
         wire' = [wire EXCEPT ![t] = JoinRefresh(t, w)],
         \A s \in Slots :
           \/ w[s] = wire[t][s]
           \/ /\ s # "refresh" /\ wire[t][s].answer # "session"
              /\ w[s] = Awaiting,
         tabs' \in [Tabs -> Tab], \A v \in Tabs : tabs'[v].memory = tabs[v].memory,
         UNCHANGED <<tokens, jar, outages>>
  PROVE  TypeInv' /\ Gentle
<1> DEFINE j == JoinRefresh(t, w)
           q == Sent("refresh", None, jar, FALSE)
<1>1. /\ j \in [Slots -> Exchange]
      /\ \A x \in Slots \ {"refresh"} : j[x] = w[x]
      /\ \/ w["refresh"].stage # "none" /\ j["refresh"] = w["refresh"]
         \/ w["refresh"].stage = "none" /\ j["refresh"] = q
  BY JoinRefreshType DEF TypeInv
<1>2. jar \in Issued /\ Issued \subseteq Token \cup {None} /\ Issued' = Issued /\ None \in Issued
  BY TokensType DEF TypeInv, TypeOK, Issued
<1>3. /\ q \in Exchange /\ q.stage = "sent" /\ q.answer = "none" /\ q.token = None
      /\ q.bearer = None /\ q.cookie = jar
  BY <1>2 DEF Sent, Quiet, Exchange, Answers
<1>4. wire \in [Tabs -> [Slots -> Exchange]]
  BY DEF TypeInv, TypeOK
<1> HIDE DEF j, q
<1>5. /\ wire' \in [Tabs -> [Slots -> Exchange]]
      /\ wire'[t] = j /\ \A v \in Tabs \ {t} : wire'[v] = wire[v]
  BY <1>1, <1>4 DEF j
<1>6. w["refresh"] = wire[t]["refresh"]
  BY SlotsType
<1>7. ASSUME NEW s \in Slots
      PROVE  \/ j[s] = wire[t][s]
             \/ s = "refresh" /\ wire[t][s].stage = "none" /\ j[s] = q
             \/ /\ s # "refresh" /\ wire[t][s].answer # "session"
                /\ j[s] = Awaiting
  BY <1>1, <1>6
<1>8. TypeOK'
  BY <1>5 DEF TypeInv, TypeOK
<1>9. NamesAreIssued'
  <2>1. \A s \in Slots : j[s].bearer \in Issued /\ j[s].cookie \in Issued /\ j[s].token \in Issued
    BY <1>2, <1>3, <1>7, QuietType DEF TypeInv, NamesAreIssued
  <2> QED
    BY <1>2, <1>5, <2>1 DEF TypeInv, NamesAreIssued
<1>10. ExchangesAreShaped'
  <2>1. ASSUME NEW s \in Slots
        PROVE  /\ j[s].stage # "answered" => j[s].answer = "none"
               /\ j[s].answer = "session" => s \in {"refresh", "login"} /\ j[s].token # None
               /\ j[s].stage = "waiting" => s # "refresh" /\ j[s].cookie = None
               /\ j[s].cookie # None => s \in {"refresh", "logout"}
    <3>1. CASE j[s] = wire[t][s]
      BY <3>1 DEF TypeInv, ExchangesAreShaped
    <3>2. CASE s = "refresh" /\ j[s] = q
      BY <1>3, <3>2
    <3>3. CASE s # "refresh" /\ j[s] = Awaiting
      BY <3>3, QuietType
    <3> QED
      BY <1>7, <3>1, <3>2, <3>3
  <2> QED
    BY <1>5, <2>1 DEF TypeInv, ExchangesAreShaped
<1>11. ASSUME NEW v \in Tabs, NEW s \in Slots
       PROVE  Over(v, s)
  <2>1. CASE v # t
    BY <1>5, <2>1 DEF Over
  <2>2. CASE v = t
    <3>1. wire[t][s].stage = "none" => wire[t][s].answer # "session"
      BY DEF TypeInv, ExchangesAreShaped
    <3> QED
      BY <1>3, <1>5, <1>7, <2>2, <3>1, QuietType DEF Over
  <2> QED
    BY <2>1, <2>2
<1> QED
  BY <1>8, <1>9, <1>10, <1>11, UnchangedTokensKept DEF TypeInv, Gentle

LEMMA RendersAreGentle ==
  ASSUME TypeInv, NEW t \in Tabs, Open(t) \/ Render(t)
  PROVE  TypeInv' /\ Gentle
<1> DEFINE Joins == /\ wire' = [wire EXCEPT ![t] = JoinRefresh(t, wire[t])]
                    /\ UNCHANGED <<tokens, jar, outages>>
<1>1. tabs' \in [Tabs -> Tab] /\ \A v \in Tabs : tabs'[v].memory = tabs[v].memory
  <2>1. tabs[t] \in Tab
    BY DEF TypeInv, TypeOK
  <2>2. ASSUME NEW x \in Tab, x.memory = tabs[t].memory, tabs' = [tabs EXCEPT ![t] = x]
        PROVE  tabs' \in [Tabs -> Tab] /\ \A v \in Tabs : tabs'[v].memory = tabs[v].memory
    BY <2>2 DEF TypeInv, TypeOK
  <2>3. CASE Open(t)
    <3> DEFINE x == [tabs[t] EXCEPT !.status = "unknown", !.rendered = "unknown",
                                    !.bootstrapped = "pending"]
    <3>1. x \in Tab /\ x.memory = tabs[t].memory
      BY <2>1 DEF Tab, Statuses
    <3>2. tabs' = [tabs EXCEPT ![t] = x]
      BY <2>3 DEF Open, TypeInv, TypeOK
    <3> HIDE DEF x
    <3> QED
      BY <2>2, <3>1, <3>2
  <2>4. CASE Render(t)
    <3> DEFINE x == IF tabs[t].bootstrapped = "released"
                    THEN [tabs[t] EXCEPT !.rendered = tabs[t].status, !.bootstrapped = "pending"]
                    ELSE [tabs[t] EXCEPT !.rendered = tabs[t].status]
    <3>1. x \in Tab /\ x.memory = tabs[t].memory
      BY <2>1 DEF Tab, Statuses
    <3>2. tabs' = [tabs EXCEPT ![t] = x]
      BY <2>4 DEF Render, TypeInv, TypeOK
    <3> HIDE DEF x
    <3> QED
      BY <2>2, <3>1, <3>2
  <2> QED
    BY <2>3, <2>4
<1>2. CASE Joins
  BY <1>1, <1>2, JoiningIsGentle DEF TypeInv, TypeOK
<1>3. CASE UNCHANGED <<tokens, jar, wire, outages>>
  BY <1>1, <1>3, UnchangedTokensKept
     DEF TypeInv, TypeOK, NamesAreIssued, Issued, ExchangesAreShaped, Gentle, Over
<1> QED
  BY <1>2, <1>3 DEF Open, Render

LEMMA AwaitRefreshIsGentle ==
  ASSUME TypeInv, NEW t \in Tabs, NEW s \in Slots, AwaitRefresh(t, s)
  PROVE  TypeInv' /\ Gentle
<1> DEFINE w == [wire[t] EXCEPT ![s] = Awaiting]
<1>1. w \in [Slots -> Exchange]
  BY QuietType DEF TypeInv, TypeOK
<1>3. ASSUME NEW x \in Slots
      PROVE  \/ w[x] = wire[t][x]
             \/ /\ x # "refresh" /\ wire[t][x].answer # "session"
                /\ w[x] = Awaiting
  BY DEF AwaitRefresh, TypeInv, TypeOK
<1>4. wire' = [wire EXCEPT ![t] = JoinRefresh(t, w)]
  BY DEF AwaitRefresh, TypeInv, TypeOK, Awaiting
<1>5. UNCHANGED <<tokens, jar, outages>>
  BY DEF AwaitRefresh
<1>6. tabs' \in [Tabs -> Tab] /\ \A v \in Tabs : tabs'[v].memory = tabs[v].memory
  BY DEF AwaitRefresh, TypeInv, TypeOK
<1> HIDE DEF w
<1> QED
  BY <1>1, <1>3, <1>4, <1>5, <1>6, JoiningIsGentle

LEMMA SendIsGentle ==
  ASSUME TypeInv, NEW t \in Tabs, NEW s \in Slots, Send(t, s)
  PROVE  TypeInv' /\ Gentle
<1> DEFINE q == Sent(s, tabs[t].memory, jar, FALSE)
<1>1. /\ jar \in Issued /\ tabs[t].memory \in Issued /\ None \in Issued
      /\ Issued \subseteq Token \cup {None}
  BY TokensType DEF TypeInv, TypeOK, NamesAreIssued, Issued
<1>2. /\ q \in Exchange /\ q.stage = "sent" /\ q.answer = "none" /\ q.token = None
      /\ q.bearer \in Issued /\ q.cookie \in {jar, None} /\ (q.cookie # None => s \in {"refresh", "logout"})
  BY <1>1 DEF Sent, Quiet, Exchange, Answers
<1>3. wire' = [wire EXCEPT ![t][s] = q] /\ UNCHANGED <<tokens, jar, tabs, outages>>
  BY DEF Send
<1>4. wire \in [Tabs -> [Slots -> Exchange]] /\ wire[t][s].stage = "none"
  BY DEF Send, TypeInv, TypeOK
<1> HIDE DEF q
<1>5. /\ wire' \in [Tabs -> [Slots -> Exchange]] /\ wire'[t][s] = q
      /\ \A v \in Tabs, x \in Slots : v # t \/ x # s => wire'[v][x] = wire[v][x]
  BY <1>2, <1>3, <1>4, ChangedType
<1>6. Issued' = Issued
  BY <1>3 DEF Issued
<1>7. TypeOK'
  BY <1>3, <1>5 DEF TypeInv, TypeOK
<1>8. NamesAreIssued'
  BY <1>1, <1>2, <1>3, <1>5, <1>6 DEF TypeInv, NamesAreIssued
<1>9. ExchangesAreShaped'
  BY <1>2, <1>5 DEF TypeInv, ExchangesAreShaped
<1>10. \A v \in Tabs, x \in Slots : Over(v, x)
  BY <1>2, <1>4, <1>5 DEF Over, TypeInv, ExchangesAreShaped
<1> QED
  BY <1>3, <1>7, <1>8, <1>9, <1>10, UnchangedTokensKept DEF TypeInv, Gentle

\* The browser puts away what is over.
LEMMA EndingIsGentle ==
  ASSUME TypeInv, NEW t \in Tabs,
         wire' \in [Tabs -> [Slots -> Exchange]],
         \A v \in Tabs, s \in Slots :
           \/ wire'[v][s] = wire[v][s]
           \/ wire'[v][s] = Quiet /\ wire[v][s].answer # "session",
         tabs' \in [Tabs -> Tab],
         \A v \in Tabs : tabs'[v].memory \in {tabs[v].memory, None},
         jar' \in {jar, None}, UNCHANGED <<tokens, outages>>
  PROVE  TypeInv' /\ Gentle
<1>1. Issued' = Issued /\ None \in Issued
  BY DEF Issued
<1>2. TypeOK'
  BY DEF TypeInv, TypeOK
<1>3. NamesAreIssued'
  BY <1>1, QuietType DEF TypeInv, NamesAreIssued
<1>4. ExchangesAreShaped'
  BY QuietType DEF TypeInv, ExchangesAreShaped
<1>5. \A v \in Tabs, s \in Slots : Over(v, s)
  BY QuietType DEF Over
<1> QED
  BY <1>2, <1>3, <1>4, <1>5, UnchangedTokensKept DEF TypeInv, Gentle

LEMMA ReleasedType ==
  ASSUME TypeInv, NEW t \in Tabs, wire' = [wire EXCEPT ![t] = Released(t)],
         wire[t]["refresh"].answer # "session"
  PROVE  /\ wire' \in [Tabs -> [Slots -> Exchange]]
         /\ \A v \in Tabs, s \in Slots :
              \/ wire'[v][s] = wire[v][s]
              \/ wire'[v][s] = Quiet /\ wire[v][s].answer # "session"
<1>1. Released(t) \in [Slots -> Exchange]
  BY QuietType DEF Released, TypeInv, TypeOK
<1>2. ASSUME NEW s \in Slots
      PROVE  \/ Released(t)[s] = wire[t][s]
             \/ Released(t)[s] = Quiet /\ wire[t][s].answer # "session"
  <2>1. s \in Waiting(t) => wire[t][s].answer # "session"
    BY DEF Waiting, TypeInv, ExchangesAreShaped
  <2> QED
    BY <2>1 DEF Released
<1> QED
  BY <1>1, <1>2 DEF TypeInv, TypeOK

LEMMA LosingIsGentle ==
  ASSUME TypeInv, NEW t \in Tabs, Lose(t) \/ Postpone(t)
  PROVE  TypeInv' /\ Gentle
<1>1. wire' = [wire EXCEPT ![t] = Released(t)] /\ wire[t]["refresh"].answer # "session"
  BY DEF Lose, Postpone
<1>2. tabs' \in [Tabs -> Tab] /\ \A v \in Tabs : tabs'[v].memory \in {tabs[v].memory, None}
  <2>1. tabs[t] \in Tab
    BY DEF TypeInv, TypeOK
  <2>2. ASSUME NEW x \in Tab, x.memory \in {tabs[t].memory, None}, tabs' = [tabs EXCEPT ![t] = x]
        PROVE  tabs' \in [Tabs -> Tab] /\ \A v \in Tabs : tabs'[v].memory \in {tabs[v].memory, None}
    BY <2>2 DEF TypeInv, TypeOK
  <2>3. CASE Lose(t)
    <3> DEFINE x == [tabs[t] EXCEPT
                       !.memory = None,
                       !.status = IF Pending(t) \/ Waiting(t) # {} THEN "anonymous" ELSE @,
                       !.bootstrapped = IF Pending(t) THEN "settled" ELSE @,
                       !.sessionLost = @ \/ Waiting(t) # {}]
    <3>1. x \in Tab /\ x.memory = None
      BY <2>1 DEF Tab, Statuses
    <3>2. tabs' = [tabs EXCEPT ![t] = x]
      BY <2>3 DEF Lose, TypeInv, TypeOK
    <3> HIDE DEF x
    <3> QED
      BY <2>2, <3>1, <3>2
  <2>4. CASE Postpone(t)
    <3> DEFINE x == [EndWaiting(t, tabs[t]) EXCEPT
                       !.bootstrapped = IF Pending(t) THEN "released" ELSE tabs[t].bootstrapped]
    <3>1. x \in Tab /\ x.memory \in {tabs[t].memory, None}
      BY <2>1 DEF EndWaiting, Ended, Tab, Statuses
    <3>2. tabs' = [tabs EXCEPT ![t] = x]
      BY <2>4 DEF Postpone, TypeInv, TypeOK
    <3> HIDE DEF x
    <3> QED
      BY <2>2, <3>1, <3>2
  <2> QED
    BY <2>3, <2>4
<1>3. jar' \in {jar, None} /\ UNCHANGED <<tokens, outages>>
  BY DEF Lose, Postpone
<1> QED
  BY <1>1, <1>2, <1>3, ReleasedType, EndingIsGentle

LEMMA SettleIsGentle ==
  ASSUME TypeInv, NEW t \in Tabs, NEW s \in Slots, Settle(t, s)
  PROVE  TypeInv' /\ Gentle
<1>1. wire' = [wire EXCEPT ![t][s] = Quiet] /\ wire[t][s].answer # "session"
  BY DEF Settle
<1>2. /\ wire' \in [Tabs -> [Slots -> Exchange]]
      /\ \A v \in Tabs, x \in Slots :
           \/ wire'[v][x] = wire[v][x]
           \/ wire'[v][x] = Quiet /\ wire[v][x].answer # "session"
  BY <1>1, ChangedType, QuietType DEF TypeInv, TypeOK
<1>3. tabs' \in [Tabs -> Tab] /\ \A v \in Tabs : tabs'[v].memory \in {tabs[v].memory, None}
  BY DEF Settle, Ended, TypeInv, TypeOK, Tab, Statuses
<1>4. jar' \in {jar, None} /\ UNCHANGED <<tokens, outages>>
  BY DEF Settle
<1> QED
  BY <1>2, <1>3, <1>4, EndingIsGentle

\* A step that touches the rows of the server alone.
LEMMA RowsAloneAreGentle ==
  ASSUME TypeInv, TokensKept, UNCHANGED <<jar, tabs, wire, outages>>
  PROVE  TypeInv' /\ Gentle
<1>1. tokens' \in Seq(TokenRow) /\ Len(tokens') = Len(tokens) /\ Issued' = Issued
  BY DEF TokensKept, Issued
<1>2. TypeOK'
  BY <1>1 DEF TypeInv, TypeOK
<1>3. NamesAreIssued'
  BY <1>1 DEF TypeInv, NamesAreIssued, TokensKept
<1>4. ExchangesAreShaped'
  BY DEF TypeInv, ExchangesAreShaped
<1>5. Gentle
  BY DEF Gentle, Over
<1> QED
  BY <1>2, <1>3, <1>4, <1>5 DEF TypeInv

LEMMA ClosingIsGentle ==
  ASSUME TypeInv, NEW i \in DOMAIN tokens, AccessExpires(i) \/ EndedElsewhere(i)
  PROVE  TypeInv' /\ Gentle
<1>1. TokensKept
  <2>1. CASE EndedElsewhere(i)
    BY <2>1, ClosedTokensKept DEF EndedElsewhere, TypeInv
  <2>2. CASE AccessExpires(i)
    <3>1. /\ tokens' \in Seq(TokenRow) /\ Len(tokens') = Len(tokens)
          /\ \A j \in 1 .. Len(tokens) :
               tokens'[j] = IF j = i THEN [tokens[i] EXCEPT !.stale = TRUE] ELSE tokens[j]
      <4>1. tokens \in Seq(TokenRow) /\ i \in 1 .. Len(tokens) /\ tokens[i] \in TokenRow
        BY TokensType DEF TypeInv, TypeOK
      <4>2. [tokens[i] EXCEPT !.stale = TRUE] \in TokenRow
        BY <4>1 DEF TokenRow
      <4>3. tokens' = [tokens EXCEPT ![i] = [tokens[i] EXCEPT !.stale = TRUE]]
        BY <2>2 DEF AccessExpires
      <4> QED
        BY <4>1, <4>2, <4>3, ExceptSeq
    <3>2. \A j \in 1 .. Len(tokens) : tokens[j] \in TokenRow
      BY TokensType DEF TypeInv
    <3> QED
      BY <3>1, <3>2 DEF TokensKept, TokenRow
  <2> QED
    BY <2>1, <2>2
<1>2. UNCHANGED <<jar, tabs, wire, outages>>
  BY DEF AccessExpires, EndedElsewhere
<1> QED
  BY <1>1, <1>2, RowsAloneAreGentle

LEMMA StutterIsGentle ==
  ASSUME TypeInv, UNCHANGED vars
  PROVE  TypeInv' /\ Gentle
BY UnchangedTokensKept, RowsAloneAreGentle DEF vars, TypeInv

-----------------------------------------------------------------------------
(* The steps that hand out a session, or let the grace of a token end.     *)

\* The server issues a token, and says so.
LEMMA IssuingType ==
  ASSUME TypeInv, Room, NEW t \in Tabs, NEW s \in {"refresh", "login"}, wire[t][s].stage = "sent",
         NEW spent \in Seq(TokenRow), Len(spent) = Len(tokens),
         \A i \in 1 .. Len(tokens) : spent[i].family = tokens[i].family,
         NEW family \in 1 .. NextToken, tokens' = Append(spent, Live(family)),
         Answer(t, s, "session", NextToken), UNCHANGED <<jar, tabs, outages>>
  PROVE  /\ TypeInv'
         /\ Len(tokens') = NextToken /\ tokens'[NextToken] = Live(family)
         /\ \A i \in 1 .. Len(tokens) : tokens'[i] = spent[i]
         /\ \A v \in Tabs, x \in Slots : v # t \/ x # s => wire'[v][x] = wire[v][x]
         /\ LET q == wire'[t][s] IN
            /\ q.stage = "answered" /\ q.answer = "session" /\ q.token = NextToken
            /\ q.cookie = wire[t][s].cookie
<1>1. /\ Len(tokens) \in Nat /\ Len(tokens) + 1 <= MaxTokens /\ NextToken = Len(tokens) + 1
      /\ None \notin 1 .. NextToken /\ NextToken \in Token
  BY TokensType, ParamAssumption DEF TypeInv, TypeOK, Room, NextToken, Token
<1>2. Live(family) \in TokenRow /\ Live(family).family = family
  <2>1. family \in Token
    BY <1>1, ParamAssumption DEF Token
  <2> QED
    BY <2>1 DEF Live, TokenRow
<1>3. /\ tokens' \in Seq(TokenRow) /\ Len(tokens') = NextToken
      /\ \A i \in 1 .. Len(tokens) : tokens'[i] = spent[i]
      /\ tokens'[NextToken] = Live(family)
  BY <1>1, <1>2, AppendProperties
<1>4. s \in Slots /\ "session" \in Answers
  BY SlotsType DEF Answers
<1>5. /\ wire' \in [Tabs -> [Slots -> Exchange]]
      /\ \A v \in Tabs, x \in Slots : v # t \/ x # s => wire'[v][x] = wire[v][x]
      /\ LET q == wire'[t][s] IN
         /\ q.stage = "answered" /\ q.answer = "session" /\ q.token = NextToken
         /\ q.bearer = None /\ q.cookie = wire[t][s].cookie
  BY <1>1, <1>4, AnswerType DEF TypeInv
<1>6. Issued' = Issued \cup {NextToken}
  BY <1>1, <1>3 DEF Issued
<1>7. TypeOK'
  <2>1. jar' \in 1 .. Len(tokens') \cup {None}
    BY <1>1, <1>3 DEF TypeInv, TypeOK
  <2> QED
    BY <1>1, <1>3, <1>5, <2>1 DEF TypeInv, TypeOK
<1>8. NamesAreIssued'
  <2>1. \A i \in 1 .. Len(tokens') : tokens'[i].family \in 1 .. Len(tokens')
    <3>1. \A i \in 1 .. Len(tokens') : i \in 1 .. Len(tokens) \/ i = NextToken
      BY <1>1, <1>3
    <3> QED
      BY <1>1, <1>2, <1>3, <3>1 DEF TypeInv, NamesAreIssued
  <2>2. \A v \in Tabs, x \in Slots :
          /\ wire'[v][x].bearer \in Issued' /\ wire'[v][x].cookie \in Issued'
          /\ wire'[v][x].token \in Issued'
    <3>1. None \in Issued
      BY DEF Issued
    <3> QED
      BY <1>4, <1>5, <1>6, <3>1 DEF TypeInv, NamesAreIssued
  <2>3. \A v \in Tabs : tabs'[v].memory \in Issued'
    BY <1>6 DEF TypeInv, NamesAreIssued
  <2> QED
    BY <2>1, <2>2, <2>3 DEF NamesAreIssued
<1>9. ExchangesAreShaped'
  BY <1>1, <1>4, <1>5 DEF TypeInv, ExchangesAreShaped
<1> QED
  BY <1>3, <1>5, <1>7, <1>8, <1>9 DEF TypeInv

LEMMA RotateEffect ==
  ASSUME TypeInv, NEW t \in Tabs, Rotate(t)
  PROVE  LET c == wire[t]["refresh"].cookie IN
         /\ TypeInv'
         /\ c \in 1 .. Len(tokens) /\ tokens[c].state = "live"
         /\ Len(tokens') = NextToken /\ tokens'[NextToken] = Live(tokens[c].family)
         /\ \A i \in 1 .. Len(tokens) : i # c => tokens'[i] = tokens[i]
         /\ tokens'[c].state = "rotated" /\ tokens'[c].recent /\ tokens'[c].spentBy = t
         /\ tokens'[c].family = tokens[c].family
         /\ \A v \in Tabs, x \in Slots : v # t \/ x # "refresh" => wire'[v][x] = wire[v][x]
         /\ LET q == wire'[t]["refresh"] IN
            /\ q.stage = "answered" /\ q.answer = "session" /\ q.token = NextToken
            /\ q.cookie = c
         /\ UNCHANGED <<jar, tabs, outages>>
<1> DEFINE c == wire[t]["refresh"].cookie
           row == [tokens[c] EXCEPT !.state = "rotated", !.stale = FALSE, !.recent = TRUE, !.spentBy = t]
           spent == [tokens EXCEPT ![c] = row]
<1>1. /\ Len(tokens) \in Nat /\ c \in 1 .. Len(tokens) /\ tokens[c].state = "live"
      /\ tokens \in Seq(TokenRow) /\ tokens[c] \in TokenRow /\ Room
      /\ wire[t]["refresh"].stage = "sent"
  BY TokensType, SlotsType DEF Rotate, TypeInv, TypeOK, NamesAreIssued, Issued
<1>2. /\ row \in TokenRow /\ row.state = "rotated" /\ row.recent /\ row.spentBy = t
      /\ row.family = tokens[c].family
  BY <1>1 DEF TokenRow
<1>3. tokens' = Append(spent, Live(tokens[c].family)) /\ Answer(t, "refresh", "session", NextToken)
  BY DEF Rotate
<1>4. UNCHANGED <<jar, tabs, outages>>
  BY DEF Rotate
<1> HIDE DEF row
<1>5. /\ spent \in Seq(TokenRow) /\ Len(spent) = Len(tokens)
      /\ spent[c] = row /\ \A i \in 1 .. Len(tokens) : i # c => spent[i] = tokens[i]
  BY <1>1, <1>2, ExceptSeq
<1>6. tokens[c].family \in 1 .. NextToken
  BY <1>1 DEF TypeInv, NamesAreIssued, NextToken
<1> HIDE DEF spent
<1>7. \A i \in 1 .. Len(tokens) : spent[i].family = tokens[i].family
  BY <1>2, <1>5
<1> HIDE DEF c
<1>8. /\ TypeInv'
      /\ Len(tokens') = NextToken /\ tokens'[NextToken] = Live(tokens[c].family)
      /\ \A i \in 1 .. Len(tokens) : tokens'[i] = spent[i]
      /\ \A v \in Tabs, x \in Slots : v # t \/ x # "refresh" => wire'[v][x] = wire[v][x]
      /\ LET q == wire'[t]["refresh"] IN
         /\ q.stage = "answered" /\ q.answer = "session" /\ q.token = NextToken
         /\ q.cookie = wire[t]["refresh"].cookie
  BY <1>1, <1>3, <1>4, <1>5, <1>6, <1>7, IssuingType
<1> QED
  BY <1>1, <1>2, <1>4, <1>5, <1>8 DEF c

LEMMA SignInEffect ==
  ASSUME TypeInv, NEW t \in Tabs, SignIn(t)
  PROVE  /\ TypeInv'
         /\ Len(tokens') = NextToken /\ tokens'[NextToken] = Live(NextToken)
         /\ \A i \in 1 .. Len(tokens) : tokens'[i] = tokens[i]
         /\ \A v \in Tabs, x \in Slots : v # t \/ x # "login" => wire'[v][x] = wire[v][x]
         /\ LET q == wire'[t]["login"] IN
            /\ q.stage = "answered" /\ q.answer = "session" /\ q.token = NextToken
            /\ q.cookie = wire[t]["login"].cookie
         /\ UNCHANGED <<jar, tabs, outages>>
<1>1. tokens \in Seq(TokenRow) /\ NextToken \in 1 .. NextToken
  BY TokensType DEF TypeInv, TypeOK, NextToken
<1>2. /\ Room /\ wire[t]["login"].stage = "sent" /\ tokens' = Append(tokens, Live(NextToken))
      /\ Answer(t, "login", "session", NextToken) /\ UNCHANGED <<jar, tabs, outages>>
  BY DEF SignIn
<1> QED
  BY <1>1, <1>2, IssuingType

LEMMA AdoptEffect ==
  ASSUME TypeInv, NEW t \in Tabs, Adopt(t)
  PROVE  LET new == wire[t]["refresh"].token IN
         /\ TypeInv'
         /\ new \in 1 .. Len(tokens) /\ jar' = new /\ wire[t]["refresh"].answer = "session"
         /\ UNCHANGED <<tokens, outages>>
         /\ \A v \in Tabs : v # t => wire'[v] = wire[v] /\ tabs'[v] = tabs[v]
         /\ wire'[t]["refresh"] = Quiet
         /\ \A s \in Slots \ {"refresh"} :
              \/ s \notin Waiting(t) /\ wire'[t][s] = wire[t][s]
              \/ /\ s \in Waiting(t) /\ wire'[t][s].stage = "sent"
                 /\ wire'[t][s].answer = "none" /\ wire'[t][s].cookie \in {new, None}
         /\ tabs'[t].memory = new
         /\ tabs'[t].status = IF Pending(t) THEN "authenticated" ELSE tabs[t].status
         /\ tabs'[t].bootstrapped = IF Pending(t) THEN "settled" ELSE tabs[t].bootstrapped
<1> DEFINE new == wire[t]["refresh"].token
           w == [s \in Slots |-> IF s \in Waiting(t) THEN Sent(s, new, new, TRUE)
                                 ELSE IF s = "refresh" THEN Quiet ELSE wire[t][s]]
           x == [tabs[t] EXCEPT
                   !.memory = new,
                   !.status = IF Pending(t) THEN "authenticated" ELSE @,
                   !.bootstrapped = IF Pending(t) THEN "settled" ELSE @,
                   !.sessionLost = IF Waiting(t) # {} THEN FALSE ELSE @]
<1>1. /\ new \in 1 .. Len(tokens) /\ jar' = new /\ wire[t]["refresh"].answer = "session"
      /\ UNCHANGED <<tokens, outages>> /\ Len(tokens) \in Nat /\ new \in Token
  BY TokensType, SlotsType DEF Adopt, TypeInv, NamesAreIssued, ExchangesAreShaped, Issued
<1>2. tabs' = [tabs EXCEPT ![t] = x] /\ wire' = [wire EXCEPT ![t] = w]
  BY DEF Adopt, TypeInv, TypeOK
<1>3. /\ x \in Tab /\ x.memory = new
      /\ x.status = IF Pending(t) THEN "authenticated" ELSE tabs[t].status
      /\ x.bootstrapped = IF Pending(t) THEN "settled" ELSE tabs[t].bootstrapped
  <2>1. tabs[t] \in Tab
    BY DEF TypeInv, TypeOK
  <2> QED
    BY <1>1, <2>1 DEF Tab, Statuses
<1>4. "refresh" \notin Waiting(t)
  BY DEF Waiting, TypeInv, ExchangesAreShaped
<1> HIDE DEF new, x
<1>5. ASSUME NEW s \in Slots
      PROVE  LET q == Sent(s, new, new, TRUE) IN
             /\ q \in Exchange /\ q.stage = "sent" /\ q.answer = "none" /\ q.token = None
             /\ q.bearer \in {new, None} /\ q.cookie \in {new, None}
             /\ q.cookie # None => s \in {"refresh", "logout"}
  BY <1>1 DEF Sent, Quiet, Exchange, Answers
<1>6. w \in [Slots -> Exchange] /\ w["refresh"] = Quiet
  <2>1. wire[t] \in [Slots -> Exchange]
    BY DEF TypeInv, TypeOK
  <2>2. \A s \in Slots : Sent(s, new, new, TRUE) \in Exchange
    BY <1>5
  <2>3. w \in [Slots -> Exchange]
    BY <2>1, <2>2, QuietType
  <2> QED
    BY <1>4, <2>3, SlotsType
<1>7. \A s \in Slots \ {"refresh"} :
        \/ s \notin Waiting(t) /\ w[s] = wire[t][s]
        \/ /\ s \in Waiting(t) /\ w[s].stage = "sent" /\ w[s].answer = "none" /\ w[s].token = None
           /\ w[s].bearer \in {new, None} /\ w[s].cookie \in {new, None}
           /\ w[s].cookie # None => s \in {"refresh", "logout"}
  BY <1>5
<1> HIDE DEF w
<1>8. /\ wire' \in [Tabs -> [Slots -> Exchange]] /\ wire'[t] = w
      /\ tabs' \in [Tabs -> Tab] /\ tabs'[t] = x
      /\ \A v \in Tabs : v # t => wire'[v] = wire[v] /\ tabs'[v] = tabs[v]
  BY <1>2, <1>3, <1>6 DEF TypeInv, TypeOK
<1>9. Issued' = Issued /\ None \in Issued /\ new \in Issued
  BY <1>1 DEF Issued
<1>10. TypeOK'
  BY <1>1, <1>8 DEF TypeInv, TypeOK
<1>11. NamesAreIssued'
  <2>1. \A v \in Tabs, s \in Slots :
          wire'[v][s].bearer \in Issued /\ wire'[v][s].cookie \in Issued /\ wire'[v][s].token \in Issued
    BY <1>6, <1>7, <1>8, <1>9, QuietType DEF TypeInv, NamesAreIssued
  <2>2. \A v \in Tabs : tabs'[v].memory \in Issued
    BY <1>3, <1>8, <1>9 DEF TypeInv, NamesAreIssued
  <2> QED
    BY <1>1, <1>9, <2>1, <2>2 DEF TypeInv, NamesAreIssued
<1>12. ExchangesAreShaped'
  BY <1>6, <1>7, <1>8, QuietType DEF TypeInv, ExchangesAreShaped
<1> QED
  BY <1>1, <1>3, <1>6, <1>7, <1>8, <1>10, <1>11, <1>12 DEF TypeInv, new

LEMMA StartEffect ==
  ASSUME TypeInv, NEW t \in Tabs, Start(t)
  PROVE  LET new == wire[t]["login"].token IN
         /\ TypeInv'
         /\ new \in 1 .. Len(tokens) /\ jar' = new
         /\ wire[t]["login"].stage = "answered" /\ wire[t]["login"].answer = "session"
         /\ UNCHANGED <<tokens, outages>>
         /\ wire'[t]["login"] = Quiet
         /\ \A v \in Tabs, s \in Slots : v # t \/ s # "login" => wire'[v][s] = wire[v][s]
         /\ \A v \in Tabs : v # t => tabs'[v] = tabs[v]
         /\ tabs'[t].memory = new /\ tabs'[t].status = "authenticated"
         /\ tabs'[t].bootstrapped = tabs[t].bootstrapped
<1> DEFINE new == wire[t]["login"].token
           x == [tabs[t] EXCEPT !.memory = new, !.status = "authenticated"]
<1>1. /\ new \in 1 .. Len(tokens) /\ jar' = new
      /\ wire[t]["login"].stage = "answered" /\ wire[t]["login"].answer = "session"
      /\ UNCHANGED <<tokens, outages>> /\ Len(tokens) \in Nat /\ new \in Token
  BY TokensType, SlotsType DEF Start, TypeInv, NamesAreIssued, ExchangesAreShaped, Issued
<1>2. tabs' = [tabs EXCEPT ![t] = x] /\ wire' = [wire EXCEPT ![t]["login"] = Quiet]
  BY DEF Start, TypeInv, TypeOK
<1>3. /\ x \in Tab /\ x.memory = new /\ x.status = "authenticated"
      /\ x.bootstrapped = tabs[t].bootstrapped
  <2>1. tabs[t] \in Tab
    BY DEF TypeInv, TypeOK
  <2> QED
    BY <1>1, <2>1 DEF Tab, Statuses
<1> HIDE DEF new, x
<1>4. /\ tabs' \in [Tabs -> Tab] /\ tabs'[t] = x
      /\ \A v \in Tabs : v # t => tabs'[v] = tabs[v]
  BY <1>2, <1>3 DEF TypeInv, TypeOK
<1>5. /\ wire' \in [Tabs -> [Slots -> Exchange]] /\ wire'[t]["login"] = Quiet
      /\ \A v \in Tabs, s \in Slots : v # t \/ s # "login" => wire'[v][s] = wire[v][s]
  BY <1>2, ChangedType, QuietType, SlotsType DEF TypeInv, TypeOK
<1>6. Issued' = Issued /\ None \in Issued /\ new \in Issued
  BY <1>1 DEF Issued
<1>7. TypeOK'
  BY <1>1, <1>4, <1>5 DEF TypeInv, TypeOK
<1>8. NamesAreIssued'
  BY <1>1, <1>3, <1>4, <1>5, <1>6, QuietType DEF TypeInv, NamesAreIssued
<1>9. ExchangesAreShaped'
  BY <1>5, QuietType DEF TypeInv, ExchangesAreShaped
<1> QED
  BY <1>1, <1>3, <1>4, <1>5, <1>7, <1>8, <1>9 DEF TypeInv, new

LEMMA GraceEndsEffect ==
  ASSUME TypeInv, NEW i \in DOMAIN tokens, GraceEnds(i)
  PROVE  /\ TypeInv'
         /\ i \in 1 .. Len(tokens) /\ Len(tokens') = Len(tokens)
         /\ Slow \/ ~Presented(i)
         /\ \A j \in 1 .. Len(tokens) :
              /\ tokens'[j].family = tokens[j].family /\ tokens'[j].state = tokens[j].state
              /\ tokens'[j].spentBy = tokens[j].spentBy
              /\ j # i => tokens'[j] = tokens[j]
         /\ UNCHANGED <<jar, tabs, wire, outages>>
<1> DEFINE row == [tokens[i] EXCEPT !.recent = FALSE]
<1>1. /\ tokens \in Seq(TokenRow) /\ i \in 1 .. Len(tokens) /\ tokens[i] \in TokenRow
  BY TokensType DEF TypeInv, TypeOK
<1>2. /\ row \in TokenRow /\ row.family = tokens[i].family /\ row.state = tokens[i].state
      /\ row.spentBy = tokens[i].spentBy
  BY <1>1 DEF TokenRow
<1>3. tokens' = [tokens EXCEPT ![i] = row] /\ UNCHANGED <<jar, tabs, wire, outages>>
  BY DEF GraceEnds
<1> HIDE DEF row
<1>4. /\ tokens' \in Seq(TokenRow) /\ Len(tokens') = Len(tokens)
      /\ tokens'[i] = row /\ \A j \in 1 .. Len(tokens) : j # i => tokens'[j] = tokens[j]
  BY <1>1, <1>2, <1>3, ExceptSeq
<1>5. TypeInv'
  BY <1>2, <1>3, <1>4 DEF TypeInv, TypeOK, NamesAreIssued, Issued, ExchangesAreShaped
<1> QED
  BY <1>1, <1>2, <1>3, <1>4, <1>5 DEF GraceEnds

-----------------------------------------------------------------------------
(* What the tokens, the cookie and the exchanges know of each other.       *)

SpentIsKnown ==
  \A i \in 1 .. Len(tokens) : tokens[i].state = "rotated" <=> tokens[i].spentBy # None

HoldsSuccessor(t, i) ==
  wire[t]["refresh"].answer = "session" /\ wire[t]["refresh"].cookie = i

\* A spent token stays in the jar only while the tab that spent it has not heard of
\* the next one.
SpentCookieIsReplaced ==
  jar # None /\ tokens[jar].state = "rotated" =>
    tokens[jar].spentBy \in Tabs /\ HoldsSuccessor(tokens[jar].spentBy, jar)

\* A token on its way to a tab is unspent, nobody else has it and nobody presents it.
Fresh(t, s) ==
  LET n == wire[t][s].token IN
  /\ tokens[n].state # "rotated" /\ jar # n
  /\ \A v \in Tabs, x \in Slots :
       /\ wire[v][x].cookie # n
       /\ wire[v][x].answer = "session" /\ wire[v][x].token = n => v = t /\ x = s

AnswersAreFresh ==
  \A t \in Tabs, s \in Slots : wire[t][s].answer = "session" => Fresh(t, s)

NobodyPresentsItsOwn ==
  \A t \in Tabs :
    wire[t]["refresh"].stage = "sent" /\ wire[t]["refresh"].cookie # None =>
      tokens[wire[t]["refresh"].cookie].spentBy # t

\* A family that has been closed holds no live row.
ClosedIsWhole ==
  \A i, j \in 1 .. Len(tokens) :
    tokens[i].state = "closed" /\ tokens[i].family = tokens[j].family => tokens[j].state # "live"

\* The grace of a token does not end while somebody presents it.
PresentedIsRecent ==
  ~Slow => \A i \in 1 .. Len(tokens) : tokens[i].state = "rotated" /\ Presented(i) => tokens[i].recent

TokenInv ==
  /\ SpentIsKnown /\ SpentCookieIsReplaced /\ AnswersAreFresh
  /\ NobodyPresentsItsOwn /\ ClosedIsWhole /\ PresentedIsRecent

LEMMA GentleKeepsTokens ==
  ASSUME TypeInv, TokenInv, TypeInv', Gentle
  PROVE  TokenInv'
<1>1. /\ Len(tokens) \in Nat /\ Len(tokens') = Len(tokens) /\ None \notin 1 .. Len(tokens)
      /\ None \notin Tabs /\ jar \in 1 .. Len(tokens) \cup {None} /\ jar' \in {jar, None}
  BY TokensType, ParamAssumption DEF TypeInv, TypeOK, Gentle, TokensKept
<1>2. \A i \in 1 .. Len(tokens) :
        /\ tokens'[i].family = tokens[i].family /\ tokens'[i].spentBy = tokens[i].spentBy
        /\ tokens'[i].recent = tokens[i].recent
        /\ \/ tokens'[i].state = tokens[i].state
           \/ tokens[i].state = "live" /\ tokens'[i].state = "closed"
  BY DEF Gentle, TokensKept
<1>3. \A t \in Tabs, s \in Slots : Over(t, s)
  BY DEF Gentle
<1>4. \A t \in Tabs, s \in Slots :
        /\ wire[t][s].cookie \in 1 .. Len(tokens) \cup {None}
        /\ wire[t][s].token \in 1 .. Len(tokens) \cup {None}
        /\ wire[t][s].answer = "session" => wire[t][s].token # None
        /\ wire[t][s].stage \in {"none", "sent", "waiting"} => wire[t][s].answer = "none"
  BY DEF TypeInv, NamesAreIssued, Issued, ExchangesAreShaped
<1>5. SpentIsKnown'
  BY <1>1, <1>2 DEF TokenInv, SpentIsKnown
<1>6. SpentCookieIsReplaced'
  <2>1. SUFFICES ASSUME jar' = jar, jar # None, tokens'[jar].state = "rotated"
                 PROVE  /\ tokens'[jar].spentBy \in Tabs
                        /\ wire'[tokens'[jar].spentBy]["refresh"].answer = "session"
                        /\ wire'[tokens'[jar].spentBy]["refresh"].cookie = jar
    BY <1>1 DEF SpentCookieIsReplaced, HoldsSuccessor
  <2>2. jar \in 1 .. Len(tokens) /\ tokens[jar].state = "rotated"
        /\ tokens'[jar].spentBy = tokens[jar].spentBy
    BY <1>1, <1>2, <2>1
  <2> DEFINE u == tokens[jar].spentBy
  <2>3. u \in Tabs /\ wire[u]["refresh"].answer = "session" /\ wire[u]["refresh"].cookie = jar
    BY <1>1, <2>1, <2>2 DEF TokenInv, SpentCookieIsReplaced, HoldsSuccessor
  <2>4. wire'[u]["refresh"] = wire[u]["refresh"]
    BY <1>3, <1>4, <2>3, SlotsType DEF Over
  <2> QED
    BY <2>2, <2>3, <2>4
<1>7. AnswersAreFresh'
  <2>1. SUFFICES ASSUME NEW t \in Tabs, NEW s \in Slots, wire'[t][s].answer = "session"
                 PROVE  Fresh(t, s)'
    BY DEF AnswersAreFresh
  <2>2. wire'[t][s] = wire[t][s]
    BY <1>3, <1>4, <2>1 DEF Over
  <2> DEFINE n == wire[t][s].token
  <2>3. n \in 1 .. Len(tokens) /\ n # None /\ Fresh(t, s)
    BY <1>1, <1>4, <2>1, <2>2 DEF TokenInv, AnswersAreFresh
  <2>4. tokens'[n].state # "rotated" /\ jar' # n
    BY <1>1, <1>2, <2>3 DEF Fresh
  <2>5. ASSUME NEW v \in Tabs, NEW x \in Slots
        PROVE  /\ wire'[v][x].cookie # n
               /\ wire'[v][x].answer = "session" /\ wire'[v][x].token = n => v = t /\ x = s
    <3>1. /\ wire[v][x].cookie # n /\ jar # n
          /\ wire[v][x].answer = "session" /\ wire[v][x].token = n => v = t /\ x = s
      BY <2>3 DEF Fresh
    <3> QED
      BY <1>3, <2>3, <3>1 DEF Over
  <2> QED
    BY <2>2, <2>4, <2>5 DEF Fresh
<1>8. NobodyPresentsItsOwn'
  <2>1. SUFFICES ASSUME NEW t \in Tabs, wire'[t]["refresh"].stage = "sent",
                        wire'[t]["refresh"].cookie # None
                 PROVE  tokens'[wire'[t]["refresh"].cookie].spentBy # t
    BY DEF NobodyPresentsItsOwn
  <2>2. CASE wire'[t]["refresh"] = wire[t]["refresh"]
    BY <1>2, <1>4, <2>1, <2>2, SlotsType DEF TokenInv, NobodyPresentsItsOwn
  <2>3. CASE wire'[t]["refresh"].cookie = jar /\ wire[t]["refresh"].stage = "none"
    <3>1. jar \in 1 .. Len(tokens) /\ jar # None /\ tokens'[jar].spentBy = tokens[jar].spentBy
      BY <1>1, <1>2, <2>1, <2>3
    <3>2. CASE tokens[jar].state = "rotated"
      <4>1. wire[tokens[jar].spentBy]["refresh"].answer = "session"
        BY <3>1, <3>2 DEF TokenInv, SpentCookieIsReplaced, HoldsSuccessor
      <4> QED
        BY <1>4, <2>3, <3>1, <4>1, SlotsType
    <3>3. CASE tokens[jar].state # "rotated"
      BY <1>1, <2>3, <3>1, <3>3 DEF TokenInv, SpentIsKnown
    <3> QED
      BY <3>2, <3>3
  <2> QED
    BY <1>3, <2>1, <2>2, <2>3, SlotsType DEF Over
<1>9. ClosedIsWhole'
  <2>1. SUFFICES ASSUME NEW i \in 1 .. Len(tokens), NEW j \in 1 .. Len(tokens),
                        tokens'[i].state = "closed", tokens'[i].family = tokens'[j].family
                 PROVE  tokens'[j].state # "live"
    BY <1>1 DEF ClosedIsWhole
  <2>2. tokens[i].family = tokens[j].family
    BY <1>2, <2>1
  <2>3. CASE tokens[i].state = "closed"
    BY <1>2, <2>2, <2>3 DEF TokenInv, ClosedIsWhole
  <2>4. CASE tokens[i].state = "live"
    BY <2>1, <2>2, <2>4 DEF Gentle, TokensKept
  <2> QED
    BY <1>2, <2>1, <2>3, <2>4
<1>10. PresentedIsRecent'
  <2>1. SUFFICES ASSUME ~Slow, NEW i \in 1 .. Len(tokens), tokens'[i].state = "rotated", Presented(i)'
                 PROVE  tokens'[i].recent
    BY <1>1 DEF PresentedIsRecent
  <2>2. tokens[i].state = "rotated" /\ tokens'[i].recent = tokens[i].recent
    BY <1>2, <2>1
  <2>3. SUFFICES Presented(i)
    BY <2>1, <2>2, <2>3 DEF TokenInv, PresentedIsRecent
  <2>4. PICK t \in Tabs, s \in {"refresh", "logout"} : wire'[t][s].stage # "none" /\ wire'[t][s].cookie = i
    BY <2>1 DEF Presented
  <2>5. CASE jar = i
    <3>1. tokens[i].spentBy \in Tabs /\ HoldsSuccessor(tokens[i].spentBy, i)
      BY <1>1, <2>2, <2>5 DEF TokenInv, SpentCookieIsReplaced
    <3>2. wire[tokens[i].spentBy]["refresh"].stage # "none"
      BY <1>4, <3>1, SlotsType DEF HoldsSuccessor
    <3> QED
      BY <3>1, <3>2 DEF Presented, HoldsSuccessor
  <2>6. CASE jar # i
    <3>1. wire[t][s].cookie = i /\ wire[t][s].stage # "none"
      BY <1>1, <1>3, <2>4, <2>6, SlotsType DEF Over
    <3> QED
      BY <3>1 DEF Presented
  <2> QED
    BY <2>5, <2>6
<1> QED
  BY <1>5, <1>6, <1>7, <1>8, <1>9, <1>10 DEF TokenInv

\* A token issued, by a rotation that spends the one presented or by a sign-in.
LEMMA IssuingKeepsTokens ==
  ASSUME TypeInv, TokenInv, TypeInv', NEW t \in Tabs, NEW s \in {"refresh", "login"},
         wire[t][s].stage = "sent", NEW family, jar' = jar,
         Len(tokens') = NextToken, tokens'[NextToken] = Live(family),
         \A i \in 1 .. Len(tokens) : tokens[i].family = family => tokens[i].state # "closed",
         \A i \in 1 .. Len(tokens) :
           \/ tokens'[i] = tokens[i] /\ ~(s = "refresh" /\ wire[t][s].cookie = i)
           \/ /\ s = "refresh" /\ wire[t][s].cookie = i /\ tokens[i].state = "live"
              /\ tokens'[i].state = "rotated" /\ tokens'[i].recent /\ tokens'[i].spentBy = t
              /\ tokens'[i].family = tokens[i].family,
         \A v \in Tabs, x \in Slots : v # t \/ x # s => wire'[v][x] = wire[v][x],
         wire'[t][s].stage = "answered", wire'[t][s].answer = "session",
         wire'[t][s].token = NextToken, wire'[t][s].cookie = wire[t][s].cookie
  PROVE  TokenInv'
<1> DEFINE n == NextToken
           c == wire[t][s].cookie
<1>1. /\ Len(tokens) \in Nat /\ n = Len(tokens) + 1 /\ Len(tokens') = n
      /\ None \notin Nat /\ None \notin Tabs /\ jar \in 1 .. Len(tokens) \cup {None}
  BY TokensType, ParamAssumption DEF TypeInv, TypeOK, NextToken
<1>2. \A i \in 1 .. n : i \in 1 .. Len(tokens) \/ i = n
  BY <1>1
<1>3. /\ tokens'[n].state = "live" /\ tokens'[n].family = family /\ tokens'[n].spentBy = None
  BY DEF Live
<1>4. \A v \in Tabs, x \in Slots :
        /\ wire[v][x].cookie \in 1 .. Len(tokens) \cup {None}
        /\ wire[v][x].token \in 1 .. Len(tokens) \cup {None}
        /\ wire[v][x].answer = "session" => wire[v][x].token # None
        /\ wire[v][x].stage # "answered" => wire[v][x].answer = "none"
        /\ wire[v][x].cookie # n /\ wire[v][x].token # n
        /\ wire'[v][x].cookie = wire[v][x].cookie
  BY <1>1, SlotsType DEF TypeInv, NamesAreIssued, Issued, ExchangesAreShaped
<1>5. s \in Slots /\ wire[t][s].answer # "session" /\ n \notin 1 .. Len(tokens) /\ jar # n
  BY <1>1, <1>4, SlotsType
<1> HIDE DEF n
<1>6. SpentIsKnown'
  BY <1>1, <1>2, <1>3 DEF TokenInv, SpentIsKnown
<1>7. SpentCookieIsReplaced'
  <2>1. SUFFICES ASSUME jar # None, tokens'[jar].state = "rotated"
                 PROVE  /\ tokens'[jar].spentBy \in Tabs
                        /\ wire'[tokens'[jar].spentBy]["refresh"].answer = "session"
                        /\ wire'[tokens'[jar].spentBy]["refresh"].cookie = jar
    BY DEF SpentCookieIsReplaced, HoldsSuccessor
  <2>2. jar \in 1 .. Len(tokens)
    BY <1>1, <2>1
  <2>3. CASE s = "refresh" /\ c = jar
    BY <2>2, <2>3
  <2>4. CASE ~(s = "refresh" /\ c = jar)
    <3> DEFINE u == tokens[jar].spentBy
    <3>1. tokens'[jar] = tokens[jar]
      BY <2>2, <2>4
    <3>2. u \in Tabs /\ wire[u]["refresh"].answer = "session" /\ wire[u]["refresh"].cookie = jar
      BY <2>1, <3>1 DEF TokenInv, SpentCookieIsReplaced, HoldsSuccessor
    <3>3. wire'[u]["refresh"] = wire[u]["refresh"]
      BY <1>5, <3>2, SlotsType
    <3> QED
      BY <3>1, <3>2, <3>3
  <2> QED
    BY <2>3, <2>4
<1>8. AnswersAreFresh'
  <2>1. SUFFICES ASSUME NEW v \in Tabs, NEW x \in Slots, wire'[v][x].answer = "session"
                 PROVE  Fresh(v, x)'
    BY DEF AnswersAreFresh
  <2>2. CASE v = t /\ x = s
    <3>1. wire'[v][x].token = n
      BY <2>2 DEF n
    <3>2. \A a \in Tabs, b \in Slots : wire'[a][b].token = n => a = t /\ b = s
      BY <1>4
    <3> QED
      BY <1>3, <1>4, <1>5, <2>2, <3>1, <3>2 DEF Fresh
  <2>3. CASE v # t \/ x # s
    <3> DEFINE m == wire[v][x].token
    <3>1. wire'[v][x] = wire[v][x]
      BY <2>3
    <3>2. Fresh(v, x) /\ m \in 1 .. Len(tokens)
      BY <1>4, <2>1, <3>1 DEF TokenInv, AnswersAreFresh
    <3>3. m # c
      BY <1>5, <3>2 DEF Fresh
    <3>4. tokens'[m].state # "rotated"
      BY <3>2, <3>3 DEF Fresh
    <3>5. ASSUME NEW a \in Tabs, NEW b \in Slots
          PROVE  /\ wire'[a][b].cookie # m
                 /\ wire'[a][b].answer = "session" /\ wire'[a][b].token = m => a = v /\ b = x
      <4>1. CASE a = t /\ b = s
        BY <1>4, <1>5, <3>2, <3>3, <4>1 DEF n
      <4>2. CASE a # t \/ b # s
        BY <3>2, <4>2 DEF Fresh
      <4> QED
        BY <4>1, <4>2
    <3> QED
      BY <3>1, <3>2, <3>4, <3>5 DEF Fresh
  <2> QED
    BY <2>2, <2>3
<1>9. NobodyPresentsItsOwn'
  <2>1. SUFFICES ASSUME NEW v \in Tabs, wire'[v]["refresh"].stage = "sent",
                        wire'[v]["refresh"].cookie # None
                 PROVE  tokens'[wire'[v]["refresh"].cookie].spentBy # v
    BY DEF NobodyPresentsItsOwn
  <2>2. wire'[v]["refresh"] = wire[v]["refresh"] /\ (s = "refresh" => v # t)
    BY <2>1, SlotsType
  <2> DEFINE k == wire[v]["refresh"].cookie
  <2>3. k \in 1 .. Len(tokens) /\ tokens[k].spentBy # v
    BY <1>4, <2>1, <2>2, SlotsType DEF TokenInv, NobodyPresentsItsOwn
  <2> QED
    BY <2>2, <2>3
<1>10. ClosedIsWhole'
  <2>1. SUFFICES ASSUME NEW i \in 1 .. n, NEW j \in 1 .. n,
                        tokens'[i].state = "closed", tokens'[i].family = tokens'[j].family
                 PROVE  tokens'[j].state # "live"
    BY <1>1 DEF ClosedIsWhole
  <2>2. i \in 1 .. Len(tokens) /\ tokens'[i] = tokens[i]
    BY <1>2, <1>3, <2>1
  <2>3. CASE j = n
    BY <1>3, <2>1, <2>2, <2>3
  <2>4. CASE j \in 1 .. Len(tokens)
    <3>1. tokens[j].family = tokens[i].family
      BY <2>1, <2>2, <2>4
    <3>2. tokens[j].state # "live"
      BY <2>1, <2>2, <2>4, <3>1 DEF TokenInv, ClosedIsWhole
    <3> QED
      BY <2>4, <3>2
  <2> QED
    BY <1>2, <2>3, <2>4
<1>11. PresentedIsRecent'
  <2>1. SUFFICES ASSUME ~Slow, NEW i \in 1 .. n, tokens'[i].state = "rotated", Presented(i)'
                 PROVE  tokens'[i].recent
    BY <1>1 DEF PresentedIsRecent
  <2>2. i \in 1 .. Len(tokens)
    BY <1>2, <1>3, <2>1
  <2>3. Presented(i)
    <3>1. PICK v \in Tabs, x \in {"refresh", "logout"} : wire'[v][x].stage # "none" /\ wire'[v][x].cookie = i
      BY <2>1 DEF Presented
    <3>2. wire[v][x].stage # "none" /\ wire[v][x].cookie = i
      BY <1>4, <3>1, SlotsType
    <3> QED
      BY <3>2 DEF Presented
  <2>4. CASE tokens'[i] = tokens[i]
    BY <2>1, <2>2, <2>3, <2>4 DEF TokenInv, PresentedIsRecent
  <2> QED
    BY <2>2, <2>4
<1> QED
  BY <1>6, <1>7, <1>8, <1>9, <1>10, <1>11 DEF TokenInv

LEMMA RotateKeepsTokens ==
  ASSUME TypeInv, TokenInv, NEW t \in Tabs, Rotate(t)
  PROVE  TokenInv'
<1> DEFINE c == wire[t]["refresh"].cookie
           f == tokens[c].family
<1>1. /\ TypeInv' /\ wire[t]["refresh"].stage = "sent"
      /\ c \in 1 .. Len(tokens) /\ tokens[c].state = "live"
      /\ Len(tokens') = NextToken /\ tokens'[NextToken] = Live(f) /\ jar' = jar
  BY RotateEffect DEF Rotate
<1>2. \A i \in 1 .. Len(tokens) : tokens[i].family = f => tokens[i].state # "closed"
  BY <1>1 DEF TokenInv, ClosedIsWhole
<1>3. \A i \in 1 .. Len(tokens) :
        \/ tokens'[i] = tokens[i] /\ i # c
        \/ /\ i = c /\ tokens[i].state = "live"
           /\ tokens'[i].state = "rotated" /\ tokens'[i].recent /\ tokens'[i].spentBy = t
           /\ tokens'[i].family = tokens[i].family
  BY RotateEffect
<1>4. \A v \in Tabs, x \in Slots : v # t \/ x # "refresh" => wire'[v][x] = wire[v][x]
  BY RotateEffect
<1>5. LET q == wire'[t]["refresh"] IN
      /\ q.stage = "answered" /\ q.answer = "session" /\ q.token = NextToken /\ q.cookie = c
  BY RotateEffect
<1> QED
  BY <1>1, <1>2, <1>3, <1>4, <1>5, IssuingKeepsTokens

LEMMA SignInKeepsTokens ==
  ASSUME TypeInv, TokenInv, NEW t \in Tabs, SignIn(t)
  PROVE  TokenInv'
<1>1. /\ TypeInv' /\ wire[t]["login"].stage = "sent"
      /\ Len(tokens') = NextToken /\ tokens'[NextToken] = Live(NextToken) /\ jar' = jar
      /\ \A i \in 1 .. Len(tokens) : tokens'[i] = tokens[i]
  BY SignInEffect DEF SignIn
<1>2. \A i \in 1 .. Len(tokens) : tokens[i].family # NextToken
  BY TokensType DEF TypeInv, NamesAreIssued, NextToken
<1>3. \A v \in Tabs, x \in Slots : v # t \/ x # "login" => wire'[v][x] = wire[v][x]
  BY SignInEffect
<1>4. LET q == wire'[t]["login"] IN
      /\ q.stage = "answered" /\ q.answer = "session" /\ q.token = NextToken
      /\ q.cookie = wire[t]["login"].cookie
  BY SignInEffect
<1> QED
  BY <1>1, <1>2, <1>3, <1>4, IssuingKeepsTokens

\* A token on its way reaches the tab, and the cookie jar.
LEMMA ArrivalKeepsTokens ==
  ASSUME TypeInv, TokenInv, TypeInv', NEW t \in Tabs, NEW s \in {"refresh", "login"},
         wire[t][s].answer = "session", jar' = wire[t][s].token, tokens' = tokens,
         wire'[t][s] = Quiet,
         \A v \in Tabs, x \in Slots : v # t \/ x # s =>
           \/ wire'[v][x] = wire[v][x]
           \/ /\ x # "refresh" /\ wire[v][x].stage = "waiting"
              /\ wire'[v][x].stage = "sent" /\ wire'[v][x].answer = "none"
              /\ wire'[v][x].cookie \in {wire[t][s].token, None}
  PROVE  TokenInv'
<1> DEFINE new == wire[t][s].token
<1>1. /\ Len(tokens) \in Nat /\ new \in 1 .. Len(tokens) /\ None \notin 1 .. Len(tokens)
      /\ s \in Slots
  BY TokensType, SlotsType DEF TypeInv, NamesAreIssued, Issued, ExchangesAreShaped
<1>2. Fresh(t, s)
  BY <1>1 DEF TokenInv, AnswersAreFresh
<1>3. \A v \in Tabs, x \in Slots :
        \/ v = t /\ x = s /\ wire'[v][x] = Quiet
        \/ (v # t \/ x # s) /\ wire'[v][x] = wire[v][x]
        \/ /\ v # t \/ x # s
           /\ x # "refresh" /\ wire[v][x].stage = "waiting"
           /\ wire'[v][x].stage = "sent" /\ wire'[v][x].answer = "none"
           /\ wire'[v][x].cookie \in {new, None}
  BY <1>1
<1> HIDE DEF new
<1>4. SpentIsKnown' /\ ClosedIsWhole'
  BY DEF TokenInv, SpentIsKnown, ClosedIsWhole
<1>5. SpentCookieIsReplaced'
  BY <1>2 DEF SpentCookieIsReplaced, Fresh
<1>6. AnswersAreFresh'
  <2>1. SUFFICES ASSUME NEW v \in Tabs, NEW x \in Slots, wire'[v][x].answer = "session"
                 PROVE  Fresh(v, x)'
    BY DEF AnswersAreFresh
  <2>2. wire'[v][x] = wire[v][x] /\ (v # t \/ x # s)
    BY <1>3, <2>1, QuietType
  <2> DEFINE m == wire[v][x].token
  <2>3. Fresh(v, x) /\ m \in 1 .. Len(tokens) /\ m # new
    <3>1. m # None
      BY <2>1, <2>2 DEF TypeInv, ExchangesAreShaped
    <3> QED
      BY <1>1, <1>2, <2>1, <2>2, <3>1 DEF TokenInv, AnswersAreFresh, Fresh, new, TypeInv, NamesAreIssued, Issued
  <2>4. ASSUME NEW a \in Tabs, NEW b \in Slots
        PROVE  /\ wire'[a][b].cookie # m
               /\ wire'[a][b].answer = "session" /\ wire'[a][b].token = m => a = v /\ b = x
    <3>1. /\ wire[a][b].cookie # m
          /\ wire[a][b].answer = "session" /\ wire[a][b].token = m => a = v /\ b = x
      BY <2>3 DEF Fresh
    <3>2. m # None
      BY <1>1, <2>3
    <3> QED
      BY <1>3, <2>3, <3>1, <3>2, QuietType
  <2>5. tokens'[m].state # "rotated" /\ jar' # m
    BY <2>3 DEF Fresh, new
  <2> QED
    BY <2>2, <2>4, <2>5 DEF Fresh
<1>7. NobodyPresentsItsOwn'
  BY <1>3, QuietType, SlotsType DEF TokenInv, NobodyPresentsItsOwn
<1>8. PresentedIsRecent'
  <2>1. SUFFICES ASSUME ~Slow, NEW i \in 1 .. Len(tokens), tokens[i].state = "rotated", Presented(i)'
                 PROVE  tokens[i].recent
    BY DEF PresentedIsRecent
  <2>2. PICK v \in Tabs, x \in {"refresh", "logout"} : wire'[v][x].stage # "none" /\ wire'[v][x].cookie = i
    BY <2>1 DEF Presented
  <2>3. i # new /\ i # None
    BY <1>1, <1>2, <2>1 DEF Fresh, new
  <2>4. wire[v][x].stage # "none" /\ wire[v][x].cookie = i
    BY <1>3, <2>2, <2>3, QuietType, SlotsType
  <2> QED
    BY <2>1, <2>4 DEF TokenInv, PresentedIsRecent, Presented
<1> QED
  BY <1>4, <1>5, <1>6, <1>7, <1>8 DEF TokenInv

LEMMA AdoptKeepsTokens ==
  ASSUME TypeInv, TokenInv, NEW t \in Tabs, Adopt(t)
  PROVE  TokenInv'
<1>1. /\ TypeInv' /\ wire[t]["refresh"].answer = "session" /\ jar' = wire[t]["refresh"].token
      /\ tokens' = tokens /\ wire'[t]["refresh"] = Quiet
  BY AdoptEffect
<1>2. ASSUME NEW v \in Tabs, NEW x \in Slots, v # t \/ x # "refresh"
      PROVE  \/ wire'[v][x] = wire[v][x]
             \/ /\ x # "refresh" /\ wire[v][x].stage = "waiting"
                /\ wire'[v][x].stage = "sent" /\ wire'[v][x].answer = "none"
                /\ wire'[v][x].cookie \in {wire[t]["refresh"].token, None}
  <2>1. CASE v # t
    BY <2>1, AdoptEffect
  <2>2. CASE v = t
    <3>1. \/ x \notin Waiting(t) /\ wire'[t][x] = wire[t][x]
          \/ /\ x \in Waiting(t) /\ wire'[t][x].stage = "sent"
             /\ wire'[t][x].answer = "none" /\ wire'[t][x].cookie \in {wire[t]["refresh"].token, None}
      BY <1>2, <2>2, AdoptEffect
    <3> QED
      BY <1>2, <2>2, <3>1 DEF Waiting
  <2> QED
    BY <2>1, <2>2
<1> QED
  BY <1>1, <1>2, ArrivalKeepsTokens

LEMMA StartKeepsTokens ==
  ASSUME TypeInv, TokenInv, NEW t \in Tabs, Start(t)
  PROVE  TokenInv'
<1>1. /\ TypeInv' /\ wire[t]["login"].answer = "session" /\ jar' = wire[t]["login"].token
      /\ tokens' = tokens /\ wire'[t]["login"] = Quiet
  BY StartEffect
<1>2. \A v \in Tabs, x \in Slots : v # t \/ x # "login" => wire'[v][x] = wire[v][x]
  BY StartEffect
<1> QED
  BY <1>1, <1>2, ArrivalKeepsTokens

LEMMA GraceEndsKeepsTokens ==
  ASSUME TypeInv, TokenInv, NEW i \in DOMAIN tokens, GraceEnds(i)
  PROVE  TokenInv'
<1>1. Len(tokens') = Len(tokens)
  BY GraceEndsEffect
<1>2. \A j \in 1 .. Len(tokens) :
        /\ tokens'[j].family = tokens[j].family /\ tokens'[j].state = tokens[j].state
        /\ tokens'[j].spentBy = tokens[j].spentBy
  BY GraceEndsEffect
<1>3. ASSUME NEW j \in 1 .. Len(tokens), ~Slow, Presented(j)
       PROVE  tokens'[j] = tokens[j]
  BY <1>3, GraceEndsEffect
<1>4. jar' = jar /\ wire' = wire
  BY GraceEndsEffect
<1>5. /\ jar \in 1 .. Len(tokens) \cup {None}
      /\ \A t \in Tabs, s \in Slots :
           /\ wire[t][s].cookie \in 1 .. Len(tokens) \cup {None}
           /\ wire[t][s].token \in 1 .. Len(tokens) \cup {None}
           /\ wire[t][s].answer = "session" => wire[t][s].token # None
  BY DEF TypeInv, TypeOK, NamesAreIssued, Issued, ExchangesAreShaped
<1>6. SpentIsKnown' /\ ClosedIsWhole'
  <2>1. SpentIsKnown'
    BY <1>1, <1>2 DEF TokenInv, SpentIsKnown
  <2>2. ClosedIsWhole'
    BY <1>1, <1>2 DEF TokenInv, ClosedIsWhole
  <2> QED
    BY <2>1, <2>2
<1>7. SpentCookieIsReplaced'
  BY <1>1, <1>4, <1>5, <1>2 DEF TokenInv, SpentCookieIsReplaced, HoldsSuccessor
<1>8. AnswersAreFresh'
  <2>1. SUFFICES ASSUME NEW t \in Tabs, NEW s \in Slots, wire[t][s].answer = "session"
                 PROVE  Fresh(t, s)'
    BY <1>4 DEF AnswersAreFresh
  <2>2. Fresh(t, s) /\ wire[t][s].token \in 1 .. Len(tokens)
    BY <1>5, <2>1 DEF TokenInv, AnswersAreFresh
  <2> QED
    BY <1>1, <1>4, <1>2, <2>2 DEF Fresh
<1>9. NobodyPresentsItsOwn'
  BY <1>1, <1>4, <1>5, <1>2, SlotsType DEF TokenInv, NobodyPresentsItsOwn
<1>10. PresentedIsRecent'
  BY <1>1, <1>4, <1>2, <1>3 DEF TokenInv, PresentedIsRecent, Presented
<1> QED
  BY <1>6, <1>7, <1>8, <1>9, <1>10 DEF TokenInv

-----------------------------------------------------------------------------
(* What a tab knows of itself.                                             *)

\* A rotation is always awaited by somebody.  Nothing but a rotation is in flight
\* before the tab knows who it is, and once it knows, nobody asks who it is.
TabInv(t) ==
  /\ wire[t]["refresh"].stage # "none" => Pending(t) \/ Waiting(t) # {}
  /\ tabs[t].status \in {"closed", "unknown"} =>
       \A s \in Slots \ {"refresh"} : wire[t][s].stage = "none"
  /\ tabs[t].status \in {"anonymous", "authenticated"} => tabs[t].bootstrapped = "settled"
  /\ tabs[t].status = "authenticated" => tabs[t].memory # None

LEMMA StatusType ==
  ASSUME TypeInv, NEW t \in Tabs
  PROVE  /\ tabs[t].status \in {"closed", "unknown", "anonymous", "authenticated"}
         /\ tabs[t].bootstrapped \in {"released", "pending", "settled"}
         /\ \A s \in Slots : wire[t][s].stage \in {"none", "sent", "answered", "waiting"}
BY DEF TypeInv, TypeOK, Tab, Statuses, Exchange

\* A tab does not feel what happens in another.
LEMMA OthersKeepTab ==
  ASSUME NEW t \in Tabs, TabInv(t), tabs'[t] = tabs[t], wire'[t] = wire[t]
  PROVE  TabInv(t)'
BY DEF TabInv, Pending, Waiting

\* A tab does not feel what happens on the server.
LEMMA ServerKeepsTab ==
  ASSUME NEW t \in Tabs, TabInv(t), tabs' = tabs,
         \A s \in Slots :
           \/ wire'[t][s] = wire[t][s]
           \/ wire[t][s].stage = "sent" /\ wire'[t][s].stage = "answered"
  PROVE  TabInv(t)'
<1>1. Waiting(t) \subseteq Waiting(t)'
  BY DEF Waiting
<1>2. \A s \in Slots : wire[t][s].stage = "none" => wire'[t][s].stage = "none"
  OBVIOUS
<1>3. wire'[t]["refresh"].stage # "none" => wire[t]["refresh"].stage # "none"
  BY <1>2, SlotsType
<1> QED
  BY <1>1, <1>2, <1>3, SlotsType DEF TabInv, Pending

LEMMA AnswerKeepsTabs ==
  ASSUME TypeInv, \A v \in Tabs : TabInv(v), NEW t \in Tabs, NEW s \in Slots,
         wire[t][s].stage = "sent", NEW answer, NEW token, Answer(t, s, answer, token), tabs' = tabs
  PROVE  \A v \in Tabs : TabInv(v)'
<1> DEFINE q == [wire[t][s] EXCEPT !.stage = "answered", !.bearer = None,
                                    !.answer = answer, !.token = token]
<1>1. wire \in [Tabs -> [Slots -> Exchange]]
  BY DEF TypeInv, TypeOK
<1>2. wire' = [wire EXCEPT ![t][s] = q]
  BY <1>1 DEF Answer
<1>3. q.stage = "answered"
  <2>1. wire[t][s] \in Exchange
    BY <1>1
  <2> QED
    BY <2>1 DEF Exchange
<1> HIDE DEF q
<1>4. wire'[t][s].stage = "answered" /\ \A v \in Tabs, x \in Slots : v # t \/ x # s => wire'[v][x] = wire[v][x]
  BY <1>1, <1>2, <1>3
<1> QED
  BY <1>4, ServerKeepsTab

LEMMA ServerStepKeepsTabs ==
  ASSUME TypeInv, \A v \in Tabs : TabInv(v), NEW t \in Tabs, NEW s \in Slots, ServerStep(t, s)
  PROVE  \A v \in Tabs : TabInv(v)'
<1>1. CASE Rotate(t)
  BY <1>1, AnswerKeepsTabs, SlotsType DEF Rotate
<1>2. CASE RefuseRefresh(t)
  BY <1>2, AnswerKeepsTabs, SlotsType DEF RefuseRefresh
<1>3. CASE DetectReuse(t)
  BY <1>3, AnswerKeepsTabs, SlotsType DEF DetectReuse
<1>4. CASE SignIn(t)
  BY <1>4, AnswerKeepsTabs, SlotsType DEF SignIn
<1>5. CASE WrongPassword(t)
  BY <1>5, AnswerKeepsTabs, SlotsType DEF WrongPassword
<1>6. CASE SignOut(t)
  BY <1>6, AnswerKeepsTabs, SlotsType DEF SignOut
<1>7. CASE Serve(t, s)
  BY <1>7, AnswerKeepsTabs DEF Serve
<1>8. CASE Fail(t, s)
  BY <1>8, AnswerKeepsTabs DEF Fail
<1>9. CASE Exhausted(t, s)
  BY <1>9, AnswerKeepsTabs DEF Exhausted
<1> QED
  BY <1>1, <1>2, <1>3, <1>4, <1>5, <1>6, <1>7, <1>8, <1>9 DEF ServerStep

\* The rotation of a tab is started or joined.
LEMMA JoiningKeepsTab ==
  ASSUME TypeInv, NEW t \in Tabs, TabInv(t), NEW w \in [Slots -> Exchange],
         wire' = [wire EXCEPT ![t] = JoinRefresh(t, w)],
         \A s \in Slots \ {"refresh"} :
           w[s] = wire[t][s] \/ (wire[t][s].stage # "none" /\ w[s].stage = "waiting"),
         NEW x \in Tab, tabs' = [tabs EXCEPT ![t] = x], x.memory = tabs[t].memory,
         x.bootstrapped = "pending" \/ \E s \in Slots \ {"refresh"} : w[s].stage = "waiting",
         x.status \in {tabs[t].status, "unknown"},
         x.status \in {"closed", "unknown"} => tabs[t].status \in {"closed", "unknown"},
         x.status \in {"anonymous", "authenticated"} => x.bootstrapped = "settled"
  PROVE  TabInv(t)'
<1>1. wire'[t] = JoinRefresh(t, w) /\ tabs'[t] = x
  BY DEF TypeInv, TypeOK
<1>2. \A s \in Slots \ {"refresh"} : wire'[t][s] = w[s]
  <2>1. \A s \in Slots \ {"refresh"} : JoinRefresh(t, w)[s] = w[s]
    BY JoinRefreshType DEF TypeInv
  <2> QED
    BY <1>1, <2>1
<1>3. (Pending(t) \/ Waiting(t) # {})'
  BY <1>1, <1>2 DEF Pending, Waiting
<1>4. tabs'[t].status \in {"closed", "unknown"} => \A s \in Slots \ {"refresh"} : wire'[t][s].stage = "none"
  <2>1. tabs'[t].status \in {"closed", "unknown"} =>
          \A s \in Slots \ {"refresh"} : wire[t][s].stage = "none"
    BY <1>1 DEF TabInv
  <2> QED
    BY <1>2, <2>1
<1>5. tabs'[t].status = "authenticated" => tabs'[t].memory # None
  BY <1>1 DEF TabInv
<1> QED
  BY <1>1, <1>3, <1>4, <1>5 DEF TabInv

LEMMA OpenKeepsTab ==
  ASSUME TypeInv, NEW t \in Tabs, TabInv(t), Open(t)
  PROVE  TabInv(t)'
<1> DEFINE x == [tabs[t] EXCEPT !.status = "unknown", !.rendered = "unknown",
                                !.bootstrapped = "pending"]
<1>1. /\ x \in Tab /\ x.memory = tabs[t].memory /\ x.bootstrapped = "pending"
      /\ x.status = "unknown"
  <2>1. tabs[t] \in Tab
    BY DEF TypeInv, TypeOK
  <2> QED
    BY <2>1 DEF Tab, Statuses
<1>2. tabs' = [tabs EXCEPT ![t] = x] /\ wire' = [wire EXCEPT ![t] = JoinRefresh(t, wire[t])]
  BY DEF Open, TypeInv, TypeOK
<1>3. wire[t] \in [Slots -> Exchange] /\ tabs[t].status = "closed"
  BY DEF Open, TypeInv, TypeOK
<1> HIDE DEF x
<1>4. \A s \in Slots \ {"refresh"} :
        wire[t][s] = wire[t][s] \/ (wire[t][s].stage # "none" /\ wire[t][s].stage = "waiting")
  OBVIOUS
<1>5. /\ x.bootstrapped = "pending" \/ \E s \in Slots \ {"refresh"} : wire[t][s].stage = "waiting"
      /\ x.status \in {tabs[t].status, "unknown"}
      /\ x.status \in {"closed", "unknown"} => tabs[t].status \in {"closed", "unknown"}
      /\ x.status \in {"anonymous", "authenticated"} => x.bootstrapped = "settled"
  BY <1>1, <1>3
<1> QED
  BY <1>1, <1>2, <1>3, <1>4, <1>5, JoiningKeepsTab

LEMMA RenderKeepsTab ==
  ASSUME TypeInv, NEW t \in Tabs, TabInv(t), Render(t)
  PROVE  TabInv(t)'
<1>1. tabs[t] \in Tab /\ wire[t] \in [Slots -> Exchange]
  BY DEF TypeInv, TypeOK
<1>2. CASE tabs[t].bootstrapped = "released"
  <2> DEFINE x == [tabs[t] EXCEPT !.rendered = tabs[t].status, !.bootstrapped = "pending"]
  <2>1. /\ x \in Tab /\ x.memory = tabs[t].memory /\ x.bootstrapped = "pending"
        /\ x.status = tabs[t].status
    BY <1>1 DEF Tab, Statuses
  <2>2. tabs' = [tabs EXCEPT ![t] = x] /\ wire' = [wire EXCEPT ![t] = JoinRefresh(t, wire[t])]
    BY <1>2 DEF Render, TypeInv, TypeOK
  <2>3. x.status \notin {"anonymous", "authenticated"}
    BY <1>2, <2>1 DEF TabInv
  <2> HIDE DEF x
  <2>4. \A s \in Slots \ {"refresh"} :
          wire[t][s] = wire[t][s] \/ (wire[t][s].stage # "none" /\ wire[t][s].stage = "waiting")
    OBVIOUS
  <2>5. /\ x.bootstrapped = "pending" \/ \E s \in Slots \ {"refresh"} : wire[t][s].stage = "waiting"
        /\ x.status \in {tabs[t].status, "unknown"}
        /\ x.status \in {"closed", "unknown"} => tabs[t].status \in {"closed", "unknown"}
        /\ x.status \in {"anonymous", "authenticated"} => x.bootstrapped = "settled"
    BY <2>1, <2>3
  <2> QED
    BY <1>1, <2>1, <2>2, <2>4, <2>5, JoiningKeepsTab
<1>3. CASE tabs[t].bootstrapped # "released"
  <2>1. tabs' = [tabs EXCEPT ![t].rendered = tabs[t].status] /\ wire' = wire
    BY <1>3 DEF Render
  <2>2. /\ tabs'[t].status = tabs[t].status /\ tabs'[t].bootstrapped = tabs[t].bootstrapped
        /\ tabs'[t].memory = tabs[t].memory
    BY <2>1, <1>1 DEF TypeInv, TypeOK, Tab
  <2> QED
    BY <2>1, <2>2 DEF TabInv, Pending, Waiting
<1> QED
  BY <1>2, <1>3

LEMMA AwaitRefreshKeepsTab ==
  ASSUME TypeInv, NEW t \in Tabs, TabInv(t), NEW s \in Slots, AwaitRefresh(t, s)
  PROVE  TabInv(t)'
<1> DEFINE w == [wire[t] EXCEPT ![s] = Awaiting]
<1>1. w \in [Slots -> Exchange] /\ tabs[t] \in Tab /\ s # "refresh" /\ wire[t][s].stage = "answered"
  BY QuietType DEF TypeInv, TypeOK, AwaitRefresh
<1>2. w[s].stage = "waiting" /\ \A x \in Slots : x # s => w[x] = wire[t][x]
  BY QuietType DEF TypeInv, TypeOK
<1>3. wire' = [wire EXCEPT ![t] = JoinRefresh(t, w)]
  BY DEF AwaitRefresh, TypeInv, TypeOK, Awaiting
<1>4. tabs' = [tabs EXCEPT ![t] = tabs[t]]
  BY DEF AwaitRefresh, TypeInv, TypeOK
<1> HIDE DEF w
<1>5. \A x \in Slots \ {"refresh"} :
        w[x] = wire[t][x] \/ (wire[t][x].stage # "none" /\ w[x].stage = "waiting")
  <2>1. ASSUME NEW x \in Slots \ {"refresh"}
        PROVE  w[x] = wire[t][x] \/ (wire[t][x].stage # "none" /\ w[x].stage = "waiting")
    <3>1. CASE x = s
      BY <1>1, <1>2, <3>1
    <3>2. CASE x # s
      BY <1>2, <3>2
    <3> QED
      BY <3>1, <3>2
  <2> QED
    BY <2>1
<1>6. tabs[t].status \in {"anonymous", "authenticated"} => tabs[t].bootstrapped = "settled"
  BY DEF TabInv
<1>7. \E x \in Slots \ {"refresh"} : w[x].stage = "waiting"
  BY <1>1, <1>2
<1> QED
  BY <1>1, <1>3, <1>4, <1>5, <1>6, <1>7, JoiningKeepsTab

LEMMA SendKeepsTab ==
  ASSUME TypeInv, NEW t \in Tabs, TabInv(t), NEW s \in Slots, Send(t, s)
  PROVE  TabInv(t)'
<1>1. s # "refresh" /\ tabs[t].status \in {"anonymous", "authenticated"}
  BY ParamAssumption DEF Send, Slots
<1>2. wire[t][s].stage = "none" /\ tabs' = tabs /\ \A x \in Slots \ {s} : wire'[t][x] = wire[t][x]
  BY DEF Send, TypeInv, TypeOK
<1>3. Waiting(t) \subseteq Waiting(t)'
  BY <1>2 DEF Waiting
<1>4. wire'[t]["refresh"] = wire[t]["refresh"]
  BY <1>1, <1>2, SlotsType
<1> QED
  BY <1>1, <1>2, <1>3, <1>4 DEF TabInv, Pending

LEMMA AdoptKeepsTab ==
  ASSUME TypeInv, NEW t \in Tabs, TabInv(t), Adopt(t)
  PROVE  TabInv(t)'
<1>1. /\ wire'[t]["refresh"] = Quiet
      /\ tabs'[t].memory \in 1 .. Len(tokens)
      /\ tabs'[t].status = IF Pending(t) THEN "authenticated" ELSE tabs[t].status
      /\ tabs'[t].bootstrapped = IF Pending(t) THEN "settled" ELSE tabs[t].bootstrapped
  BY AdoptEffect
<1>2. tabs'[t].memory # None
  BY <1>1, TokensType DEF TypeInv
<1>3. \A s \in Slots \ {"refresh"} : wire[t][s].stage = "none" => wire'[t][s].stage = "none"
  <2>1. SUFFICES ASSUME NEW s \in Slots \ {"refresh"}, wire[t][s].stage = "none"
                 PROVE  wire'[t][s].stage = "none"
    OBVIOUS
  <2>2. s \notin Waiting(t)
    BY <2>1 DEF Waiting
  <2> QED
    BY <2>1, <2>2, AdoptEffect
<1> QED
  BY <1>1, <1>2, <1>3, QuietType DEF TabInv

\* The rotation is over and has brought nothing.
LEMMA ReleasingKeepsTab ==
  ASSUME TypeInv, NEW t \in Tabs, wire' = [wire EXCEPT ![t] = Released(t)]
  PROVE  /\ wire'[t]["refresh"].stage = "none"
         /\ \A s \in Slots : wire[t][s].stage = "none" => wire'[t][s].stage = "none"
<1>1. \A s \in Slots : wire'[t][s] = IF s = "refresh" \/ s \in Waiting(t) THEN Quiet ELSE wire[t][s]
  BY DEF TypeInv, TypeOK, Released
<1> QED
  BY <1>1, QuietType, SlotsType

LEMMA LoseKeepsTab ==
  ASSUME TypeInv, NEW t \in Tabs, TabInv(t), Lose(t)
  PROVE  TabInv(t)'
<1>1. /\ wire'[t]["refresh"].stage = "none"
      /\ \A s \in Slots : wire[t][s].stage = "none" => wire'[t][s].stage = "none"
  BY ReleasingKeepsTab DEF Lose
<1> DEFINE Heard == Pending(t) \/ Waiting(t) # {}
<1>2. /\ tabs'[t].memory = None
      /\ tabs'[t].status = IF Heard THEN "anonymous" ELSE tabs[t].status
      /\ tabs'[t].bootstrapped = IF Pending(t) THEN "settled" ELSE tabs[t].bootstrapped
  <2> DEFINE x == [tabs[t] EXCEPT
                     !.memory = None,
                     !.status = IF Heard THEN "anonymous" ELSE @,
                     !.bootstrapped = IF Pending(t) THEN "settled" ELSE @,
                     !.sessionLost = @ \/ Waiting(t) # {}]
  <2>1. tabs' = [tabs EXCEPT ![t] = x] /\ tabs[t] \in Tab /\ tabs \in [Tabs -> Tab]
    BY DEF Lose, TypeInv, TypeOK
  <2>2. /\ x.memory = None /\ x.status = IF Heard THEN "anonymous" ELSE tabs[t].status
        /\ x.bootstrapped = IF Pending(t) THEN "settled" ELSE tabs[t].bootstrapped
    BY <2>1 DEF Tab
  <2> HIDE DEF x, Heard
  <2>3. tabs'[t] = x
    BY <2>1
  <2> QED
    BY <2>2, <2>3
<1>3. Heard
  BY SlotsType DEF Lose, TabInv
<1>4. ~Pending(t) => tabs[t].bootstrapped = "settled"
  <2>1. SUFFICES ASSUME ~Pending(t)
                 PROVE  tabs[t].bootstrapped = "settled"
    OBVIOUS
  <2>2. PICK s \in Slots : wire[t][s].stage = "waiting"
    BY <1>3, <2>1 DEF Waiting
  <2>3. s # "refresh"
    BY <2>2 DEF TypeInv, ExchangesAreShaped
  <2> QED
    BY <2>2, <2>3, StatusType DEF TabInv
<1> HIDE DEF Heard
<1> QED
  BY <1>1, <1>2, <1>3, <1>4 DEF TabInv

LEMMA PostponeKeepsTab ==
  ASSUME TypeInv, NEW t \in Tabs, TabInv(t), Postpone(t)
  PROVE  TabInv(t)'
<1>1. /\ wire'[t]["refresh"].stage = "none"
      /\ \A s \in Slots : wire[t][s].stage = "none" => wire'[t][s].stage = "none"
  BY ReleasingKeepsTab DEF Postpone
<1> DEFINE x == [EndWaiting(t, tabs[t]) EXCEPT
                   !.bootstrapped = IF Pending(t) THEN "released" ELSE tabs[t].bootstrapped]
<1>2. tabs' = [tabs EXCEPT ![t] = x] /\ tabs[t] \in Tab /\ tabs \in [Tabs -> Tab]
  BY DEF Postpone, TypeInv, TypeOK
<1>3. /\ x.bootstrapped = IF Pending(t) THEN "released" ELSE tabs[t].bootstrapped
      /\ "logout" \in Waiting(t) => x.status = "anonymous"
      /\ "logout" \notin Waiting(t) => x.status = tabs[t].status /\ x.memory = tabs[t].memory
  BY <1>2 DEF EndWaiting, Ended, Tab
<1> HIDE DEF x
<1>4. tabs'[t] = x
  BY <1>2
<1>5. "logout" \in Waiting(t) => tabs[t].bootstrapped = "settled"
  BY SlotsType, StatusType DEF TabInv, Waiting
<1> QED
  BY <1>1, <1>3, <1>4, <1>5 DEF TabInv, Pending

LEMMA StartKeepsTab ==
  ASSUME TypeInv, NEW t \in Tabs, TabInv(t), Start(t)
  PROVE  TabInv(t)'
<1>1. /\ tabs'[t].memory \in 1 .. Len(tokens) /\ tabs'[t].status = "authenticated"
      /\ tabs'[t].bootstrapped = tabs[t].bootstrapped
      /\ wire[t]["login"].stage = "answered"
      /\ \A s \in Slots : s # "login" => wire'[t][s] = wire[t][s]
  BY StartEffect
<1>2. tabs'[t].memory # None
  BY <1>1, TokensType DEF TypeInv
<1>3. tabs[t].bootstrapped = "settled"
  BY <1>1, SlotsType, StatusType DEF TabInv
<1>4. Waiting(t) \subseteq Waiting(t)' /\ wire'[t]["refresh"] = wire[t]["refresh"]
  BY <1>1, SlotsType DEF Waiting
<1> QED
  BY <1>1, <1>2, <1>3, <1>4 DEF TabInv, Pending

LEMMA SettleKeepsTab ==
  ASSUME TypeInv, NEW t \in Tabs, TabInv(t), NEW s \in Slots, Settle(t, s)
  PROVE  TabInv(t)'
<1>1. s # "refresh" /\ wire[t][s].stage = "answered" /\ wire' = [wire EXCEPT ![t][s] = Quiet]
  BY DEF Settle
<1>2. wire'[t][s] = Quiet /\ \A x \in Slots : x # s => wire'[t][x] = wire[t][x]
  BY <1>1 DEF TypeInv, TypeOK
<1>3. /\ tabs'[t].bootstrapped = tabs[t].bootstrapped
      /\ \/ tabs'[t].status = "anonymous"
         \/ tabs'[t].status = tabs[t].status /\ tabs'[t].memory = tabs[t].memory
  <2>1. CASE s = "logout"
    <3>1. tabs' = [tabs EXCEPT ![t] = Ended(tabs[t])] /\ tabs[t] \in Tab /\ tabs \in [Tabs -> Tab]
      BY <2>1 DEF Settle, TypeInv, TypeOK
    <3>2. Ended(tabs[t]).status = "anonymous" /\ Ended(tabs[t]).bootstrapped = tabs[t].bootstrapped
      BY <3>1 DEF Ended, Tab
    <3> QED
      BY <3>1, <3>2
  <2>2. CASE s # "logout"
    BY <2>2 DEF Settle
  <2> QED
    BY <2>1, <2>2
<1>4. tabs[t].bootstrapped = "settled"
  BY <1>1, StatusType DEF TabInv
<1>5. Waiting(t) \subseteq Waiting(t)' /\ wire'[t]["refresh"] = wire[t]["refresh"]
  BY <1>1, <1>2, SlotsType DEF Waiting
<1> QED
  BY <1>2, <1>3, <1>4, <1>5, QuietType DEF TabInv, Pending

-----------------------------------------------------------------------------
(* The inductive invariant.                                                *)

IInv == TypeInv /\ TokenInv /\ \A t \in Tabs : TabInv(t)

LEMMA InitHolds ==
  ASSUME Init
  PROVE  IInv
<1>1. jar \in 1 .. Len(tokens) \cup {None} /\ tokens \in Seq(TokenRow) /\ Len(tokens) \in {0, 1}
      /\ \A i \in 1 .. Len(tokens) : i = 1 /\ tokens[i] = Live(1)
  <2>1. Live(1) \in TokenRow
    BY ParamAssumption DEF Live, TokenRow, Token
  <2>2. CASE tokens = <<>> /\ jar = None
    BY <2>2
  <2>3. CASE tokens = <<Live(1)>> /\ jar = 1
    <3> HIDE DEF Live
    <3> QED
      BY <2>1, <2>3
  <2> QED
    BY <2>2, <2>3 DEF Init
<1>2. \A i \in 1 .. Len(tokens) :
        tokens[i].family = 1 /\ tokens[i].state = "live" /\ tokens[i].spentBy = None
  BY <1>1 DEF Live
<1>3. \A t \in Tabs, s \in Slots : wire[t][s] = Quiet
  BY DEF Init
<1>4. \A t \in Tabs : /\ tabs[t].status = "closed" /\ tabs[t].memory = None
                       /\ tabs[t].bootstrapped = "released"
  BY DEF Init
<1>5. TypeOK
  <2>1. tabs \in [Tabs -> Tab]
    BY DEF Init, Tab, Statuses
  <2>2. wire \in [Tabs -> [Slots -> Exchange]]
    BY QuietType DEF Init
  <2>3. Len(tokens) <= MaxTokens /\ outages \in 0 .. Outages
    BY <1>1, ParamAssumption DEF Init
  <2> QED
    BY <1>1, <2>1, <2>2, <2>3 DEF TypeOK
<1>6. NamesAreIssued /\ ExchangesAreShaped
  BY <1>1, <1>2, <1>3, <1>4, QuietType DEF NamesAreIssued, Issued, ExchangesAreShaped
<1>7. TokenInv
  <2>1. SpentIsKnown /\ ClosedIsWhole
    BY <1>2 DEF SpentIsKnown, ClosedIsWhole
  <2>2. SpentCookieIsReplaced /\ PresentedIsRecent
    BY <1>1, <1>2 DEF SpentCookieIsReplaced, PresentedIsRecent
  <2>3. AnswersAreFresh /\ NobodyPresentsItsOwn
    BY <1>3, QuietType, SlotsType DEF AnswersAreFresh, NobodyPresentsItsOwn
  <2> QED
    BY <2>1, <2>2, <2>3 DEF TokenInv
<1>8. \A t \in Tabs : TabInv(t)
  BY <1>3, <1>4, QuietType, SlotsType DEF TabInv
<1> QED
  BY <1>5, <1>6, <1>7, <1>8 DEF IInv, TypeInv

LEMMA StepKeepsTokens ==
  ASSUME TypeInv, TokenInv, [Next]_vars
  PROVE  TypeInv' /\ TokenInv'
<1>1. CASE UNCHANGED vars
  BY <1>1, StutterIsGentle, GentleKeepsTokens
<1>2. ASSUME NEW t \in Tabs, Open(t) \/ Render(t)
      PROVE  TypeInv' /\ TokenInv'
  BY <1>2, RendersAreGentle, GentleKeepsTokens
<1>3. ASSUME NEW t \in Tabs, NEW s \in Slots, Send(t, s)
      PROVE  TypeInv' /\ TokenInv'
  BY <1>3, SendIsGentle, GentleKeepsTokens
<1>4. ASSUME NEW t \in Tabs, NEW s \in Slots, ServerStep(t, s)
      PROVE  TypeInv' /\ TokenInv'
  <2>1. CASE Rotate(t)
    BY <2>1, RotateEffect, RotateKeepsTokens
  <2>2. CASE SignIn(t)
    BY <2>2, SignInEffect, SignInKeepsTokens
  <2>3. CASE RefuseRefresh(t) \/ DetectReuse(t) \/ WrongPassword(t)
    BY <2>3, RefusalsAreGentle, GentleKeepsTokens
  <2>4. CASE SignOut(t)
    BY <2>4, SignOutIsGentle, GentleKeepsTokens
  <2>5. CASE Serve(t, s) \/ Fail(t, s) \/ Exhausted(t, s)
    BY <2>5, ServeIsGentle, GentleKeepsTokens
  <2> QED
    BY <1>4, <2>1, <2>2, <2>3, <2>4, <2>5 DEF ServerStep
<1>5. ASSUME NEW t \in Tabs, NEW s \in Slots, BrowserStep(t, s)
      PROVE  TypeInv' /\ TokenInv'
  <2>1. CASE Adopt(t)
    BY <2>1, AdoptEffect, AdoptKeepsTokens
  <2>2. CASE Start(t)
    BY <2>2, StartEffect, StartKeepsTokens
  <2>3. CASE Lose(t) \/ Postpone(t)
    BY <2>3, LosingIsGentle, GentleKeepsTokens
  <2>4. CASE AwaitRefresh(t, s)
    BY <2>4, AwaitRefreshIsGentle, GentleKeepsTokens
  <2>5. CASE Settle(t, s)
    BY <2>5, SettleIsGentle, GentleKeepsTokens
  <2> QED
    BY <1>5, <2>1, <2>2, <2>3, <2>4, <2>5 DEF BrowserStep
<1>6. ASSUME NEW i \in DOMAIN tokens, AccessExpires(i) \/ EndedElsewhere(i)
      PROVE  TypeInv' /\ TokenInv'
  BY <1>6, ClosingIsGentle, GentleKeepsTokens
<1>7. ASSUME NEW i \in DOMAIN tokens, GraceEnds(i)
      PROVE  TypeInv' /\ TokenInv'
  BY <1>7, GraceEndsEffect, GraceEndsKeepsTokens
<1> QED
  BY <1>1, <1>2, <1>3, <1>4, <1>5, <1>6, <1>7 DEF Next

\* A step of one tab is a step of that tab alone.
LEMMA OneTabMoves ==
  ASSUME TypeInv, NEW t \in Tabs, NEW s \in Slots,
         Open(t) \/ Render(t) \/ Send(t, s) \/ BrowserStep(t, s)
  PROVE  \A v \in Tabs \ {t} : tabs'[v] = tabs[v] /\ wire'[v] = wire[v]
<1>1. CASE Open(t) \/ Render(t)
  BY <1>1 DEF Open, Render, TypeInv, TypeOK
<1>2. CASE Send(t, s)
  BY <1>2 DEF Send, TypeInv, TypeOK
<1>3. CASE Adopt(t) \/ Lose(t) \/ Postpone(t)
  BY <1>3 DEF Adopt, Lose, Postpone, TypeInv, TypeOK
<1>4. CASE Start(t)
  BY <1>4 DEF Start, TypeInv, TypeOK
<1>5. CASE AwaitRefresh(t, s)
  BY <1>5 DEF AwaitRefresh, TypeInv, TypeOK
<1>6. CASE Settle(t, s)
  BY <1>6 DEF Settle, TypeInv, TypeOK
<1> QED
  BY <1>1, <1>2, <1>3, <1>4, <1>5, <1>6 DEF BrowserStep

LEMMA StepKeepsTabs ==
  ASSUME IInv, [Next]_vars
  PROVE  \A v \in Tabs : TabInv(v)'
<1> USE DEF IInv
<1>1. CASE UNCHANGED vars
  BY <1>1, OthersKeepTab DEF vars
<1>2. ASSUME NEW t \in Tabs, Open(t) \/ Render(t)
      PROVE  \A v \in Tabs : TabInv(v)'
  BY <1>2, SlotsType, OneTabMoves, OthersKeepTab, OpenKeepsTab, RenderKeepsTab
<1>3. ASSUME NEW t \in Tabs, NEW s \in Slots, Send(t, s)
      PROVE  \A v \in Tabs : TabInv(v)'
  BY <1>3, OneTabMoves, OthersKeepTab, SendKeepsTab
<1>4. ASSUME NEW t \in Tabs, NEW s \in Slots, ServerStep(t, s)
      PROVE  \A v \in Tabs : TabInv(v)'
  BY <1>4, ServerStepKeepsTabs
<1>5. ASSUME NEW t \in Tabs, NEW s \in Slots, BrowserStep(t, s)
      PROVE  \A v \in Tabs : TabInv(v)'
  <2>1. TabInv(t)'
    BY <1>5, AdoptKeepsTab, LoseKeepsTab, PostponeKeepsTab, StartKeepsTab,
       AwaitRefreshKeepsTab, SettleKeepsTab DEF BrowserStep
  <2> QED
    BY <1>5, <2>1, OneTabMoves, OthersKeepTab
<1>6. ASSUME NEW i \in DOMAIN tokens, AccessExpires(i) \/ GraceEnds(i) \/ EndedElsewhere(i)
      PROVE  \A v \in Tabs : TabInv(v)'
  <2>1. tabs' = tabs /\ wire' = wire
    BY <1>6 DEF AccessExpires, GraceEnds, EndedElsewhere
  <2> QED
    BY <2>1, OthersKeepTab
<1> QED
  BY <1>1, <1>2, <1>3, <1>4, <1>5, <1>6 DEF Next

LEMMA BrowserInvariant == Spec => []IInv
<1>1. Init => IInv
  BY InitHolds
<1>2. IInv /\ [Next]_vars => IInv'
  BY StepKeepsTokens, StepKeepsTabs DEF IInv
<1> QED
  BY <1>1, <1>2, PTL DEF Spec

-----------------------------------------------------------------------------
(* The theorems.                                                           *)

\* The tokens, the cookie, the tabs and the exchanges keep their types: what the
\* server and the browser do to them, whatever the number of tabs.
THEOREM BrowserTypeCorrect == Spec => []TypeOK
<1>1. IInv => TypeOK
  BY DEF IInv, TypeInv
<1> QED
  BY <1>1, BrowserInvariant, PTL

\* A tab that shows a signed-in screen has a token to send, however the renders,
\* the refusals and the outages fall (session-store, refresh middleware).
THEOREM ShellAlwaysHoldsItsToken == Spec => []ShellHoldsItsToken
<1>1. IInv => ShellHoldsItsToken
  BY DEF IInv, TabInv, ShellHoldsItsToken
<1> QED
  BY <1>1, BrowserInvariant, PTL

\* A tab never presents a refresh token it has itself spent: the gate of the refresh
\* middleware opens only when the cookie jar holds the successor.
THEOREM TabsNeverRaceThemselves == Spec => NeverRacesItself
<1>1. IInv /\ [Next]_vars =>
        [\A t \in Tabs :
           LET c == wire[t]["refresh"].cookie IN
           RefuseRefresh(t) \/ DetectReuse(t) => c = None \/ tokens[c].spentBy # t]_vars
  BY DEF IInv, TokenInv, NobodyPresentsItsOwn, RefuseRefresh, DetectReuse
<1> QED
  BY <1>1, BrowserInvariant, PTL DEF Spec, NeverRacesItself

\* A tab that was signed out shows a signed-in screen again only by the sign-in form:
\* no render and no late answer of a rotation brings it back.
THEOREM SignedOutTabsStayOut == Spec => SignedOutStaysOut
<1> DEFINE ByForm == \A t \in Tabs :
             tabs[t].status = "anonymous" /\ tabs'[t].status = "authenticated" => Start(t)
<1>1. ASSUME IInv, Next, NEW v \in Tabs, tabs[v].status = "anonymous",
             tabs'[v].status = "authenticated"
      PROVE  Start(v)
  <2>1. ~Pending(v) /\ tabs'[v] # tabs[v]
    BY <1>1 DEF IInv, TabInv, Pending
  <2>2. TypeInv /\ tabs[v] \in Tab
    BY <1>1 DEF IInv, TypeInv, TypeOK
  <2>3. PICK t \in Tabs, s \in Slots : Open(t) \/ Render(t) \/ Send(t, s) \/ BrowserStep(t, s)
    <3>1. tabs' # tabs
      BY <2>1
    <3>2. \A t \in Tabs, s \in Slots : ~ServerStep(t, s)
      BY <3>1 DEF ServerStep, Rotate, RefuseRefresh, DetectReuse, SignIn, WrongPassword, SignOut,
                  Serve, Fail, Exhausted
    <3>3. \A i \in DOMAIN tokens : ~(AccessExpires(i) \/ GraceEnds(i) \/ EndedElsewhere(i))
      BY <3>1 DEF AccessExpires, GraceEnds, EndedElsewhere
    <3> QED
      BY <1>1, <3>2, <3>3, SlotsType DEF Next
  <2>4. v = t
    BY <2>1, <2>2, <2>3, OneTabMoves
  <2>5. ~Open(t) /\ ~Send(t, s) /\ ~AwaitRefresh(t, s)
    BY <1>1, <2>1, <2>4 DEF Open, Send, AwaitRefresh
  <2>6. ~Render(t)
    BY <1>1, <2>2, <2>4 DEF Render, Tab, TypeInv, TypeOK
  <2>7. ~Adopt(t)
    <3>1. Adopt(t) => tabs'[t].status = IF Pending(t) THEN "authenticated" ELSE tabs[t].status
      BY <2>2, AdoptEffect
    <3> QED
      BY <1>1, <2>1, <2>4, <3>1
  <2>8. ~Lose(t)
    <3> DEFINE x == [tabs[t] EXCEPT
                       !.memory = None,
                       !.status = IF Pending(t) \/ Waiting(t) # {} THEN "anonymous" ELSE @,
                       !.bootstrapped = IF Pending(t) THEN "settled" ELSE @,
                       !.sessionLost = @ \/ Waiting(t) # {}]
    <3>1. x.status = "anonymous"
      BY <1>1, <2>2, <2>4 DEF Tab
    <3>2. Lose(t) => tabs' = [tabs EXCEPT ![t] = x]
      BY <2>2 DEF Lose, TypeInv, TypeOK
    <3> HIDE DEF x
    <3>3. Lose(t) => tabs'[t] = x
      BY <2>2, <3>2 DEF TypeInv, TypeOK
    <3> QED
      BY <1>1, <2>4, <3>1, <3>3
  <2>9. ~Postpone(t)
    <3> DEFINE x == [EndWaiting(t, tabs[t]) EXCEPT
                       !.bootstrapped = IF Pending(t) THEN "released" ELSE tabs[t].bootstrapped]
    <3>1. x.status = "anonymous"
      BY <1>1, <2>2, <2>4 DEF EndWaiting, Ended, Tab
    <3>2. Postpone(t) => tabs' = [tabs EXCEPT ![t] = x]
      BY DEF Postpone
    <3> HIDE DEF x
    <3>3. Postpone(t) => tabs'[t] = x
      BY <2>2, <3>2 DEF TypeInv, TypeOK
    <3> QED
      BY <1>1, <2>4, <3>1, <3>3
  <2>10. ~Settle(t, s)
    BY <1>1, <2>2, <2>4 DEF Settle, Ended, Tab, TypeInv, TypeOK
  <2> QED
    BY <2>3, <2>4, <2>5, <2>6, <2>7, <2>8, <2>9, <2>10 DEF BrowserStep
<1>2. IInv /\ [Next]_vars => [ByForm]_vars
  BY <1>1
<1> QED
  BY <1>2, BrowserInvariant, PTL DEF Spec, SignedOutStaysOut

\* While every answer arrives within the grace of a lost race, a refusal that closes a
\* family closes one that holds no live session any more: rotating tabs are never
\* taken for a thief, whatever their number and their order.
THEOREM DetectionSparesLiveSessions ==
  ASSUME ~Slow
  PROVE  Spec => DetectionSparesTheLive
<1>1. ASSUME IInv, NEW t \in Tabs, DetectReuse(t)
      PROVE  tokens' = tokens
  <2> DEFINE c == wire[t]["refresh"].cookie
  <2>1. /\ c \in 1 .. Len(tokens) /\ tokens[c].state # "live" /\ ~LostRace(c) /\ c # None
        /\ wire[t]["refresh"].stage = "sent" /\ tokens' = Closed(tokens[c].family)
    BY <1>1, SlotsType DEF DetectReuse, IInv, TypeInv, NamesAreIssued, Issued
  <2>2. /\ tokens \in [1 .. Len(tokens) -> TokenRow] /\ DOMAIN tokens = 1 .. Len(tokens)
    BY <1>1, TokensType DEF IInv, TypeInv
  <2>3. tokens[c].state = "closed"
    <3>1. Presented(c)
      BY <2>1 DEF Presented
    <3>2. tokens[c].state # "rotated"
      BY <1>1, <2>1, <3>1 DEF IInv, TokenInv, PresentedIsRecent, LostRace
    <3> QED
      BY <2>1, <2>2, <3>2 DEF TokenRow
  <2>4. \A i \in 1 .. Len(tokens) : tokens[i].family = tokens[c].family => tokens[i].state # "live"
    BY <1>1, <2>1, <2>3 DEF IInv, TokenInv, ClosedIsWhole
  <2>5. Closed(tokens[c].family) = [i \in 1 .. Len(tokens) |-> tokens[i]]
    BY <2>2, <2>4 DEF Closed
  <2> QED
    BY <2>1, <2>2, <2>5
<1>2. IInv /\ [Next]_vars => [\A t \in Tabs : DetectReuse(t) => tokens' = tokens]_vars
  BY <1>1
<1> QED
  BY <1>2, BrowserInvariant, PTL DEF Spec, DetectionSparesTheLive

=============================================================================
