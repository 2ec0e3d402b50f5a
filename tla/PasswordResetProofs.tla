------------------------ MODULE PasswordResetProofs ------------------------
(***************************************************************************)
(* What is proved of PasswordReset, for any number of links and requests.  *)
(*                                                                         *)
(* The argument is that of a lock: a row somebody holds keeps its state    *)
(* until its holder commits, so a link that was found live by the          *)
(* statement that spends it is still live at the commit; and a row that    *)
(* was once minted never comes to life again, so a set of live rows found  *)
(* late covers every live row known early.                                 *)
(***************************************************************************)
EXTENDS PasswordReset, TLAPS

-----------------------------------------------------------------------------
MintedIn(t) == {l \in Links : t[l].state # "unminted"}

LiveIn(t) == {l \in Links : t[l].state = "live"}

Minting(q) == q.op = "request" /\ q.step \in {"asked", "sweeping", "swept"}

Using(q) == q.op = "confirm" /\ q.step # "idle"

Spending(q) == Using(q) /\ q.step # "resolved"

\* What the step a request has reached says about what it has found and holds.
Shaped(q) ==
  /\ q.step = "idle" => q = Idle
  /\ q.step \in {"asked", "sweeping", "swept", "minted"} => q.op = "request" /\ q.link \in Links
  /\ q.step \in {"resolved", "spent"} => q.op = "confirm"
  /\ q.step \in {"hashed", "written", "invalidating", "invalidated"} => q.op \in {"confirm", "change"}
  /\ Using(q) => q.link \in Links
  /\ q.op = "change" => q.link = None
  /\ Spending(q) => q.link \in q.locks
  /\ q.step \in {"swept", "invalidated"} => q.found \subseteq q.locks

\* What a request takes for granted about the table.
Relies(q, t) ==
  /\ Minting(q) => q.link \notin MintedIn(t)
  /\ Using(q) \/ q.step = "minted" => q.link \in MintedIn(t)
  /\ Spending(q) => q.link \in LiveIn(t)
  /\ q.known \subseteq MintedIn(t) /\ q.found \subseteq MintedIn(t)
  /\ q.locks \subseteq MintedIn(t) \cup {Account}
  /\ q.step \in {"invalidating", "invalidated"} => q.known \cap LiveIn(t) \subseteq q.found \cup {q.link}

Apart(q, other) ==
  /\ q.locks \cap other.locks = {}
  /\ Minting(q) /\ Minting(other) => q.link # other.link

Recorded ==
  /\ setters \cup turnedAway \cup letters \subseteq MintedIn(links)
  /\ (setters \cup turnedAway) \cap LiveIn(links) = {}
  /\ setters \cap turnedAway = {}

IInv ==
  /\ TypeOK
  /\ \A r \in Requests : Shaped(work[r]) /\ Relies(work[r], links)
  /\ \A r, q \in Requests : r # q => Apart(work[r], work[q])
  /\ Recorded

\* What a step of one request may do to the table: nothing comes back to life, only
\* the link being minted appears, and what somebody else holds stays as it is.
Moves(r, t, u) ==
  \A l \in Links :
    /\ t[l].state # "unminted" => u[l].state # "unminted" /\ (u[l].state = "live" => t[l].state = "live")
    /\ t[l].state = "unminted" /\ u[l].state # "unminted" => Minting(work[r]) /\ l = work[r].link
    /\ \A q \in Requests \ {r} : l \in work[q].locks => u[l].state = t[l].state

-----------------------------------------------------------------------------
LEMMA IdleIsFine ==
  ASSUME NEW t
  PROVE  Idle \in Task /\ Shaped(Idle) /\ Relies(Idle, t)
<1>1. Idle \in Task
  BY DEF Idle, Task, Steps
<1>2. /\ Idle.op = None /\ Idle.step = "idle" /\ Idle.link = None
      /\ Idle.found = {} /\ Idle.known = {} /\ Idle.locks = {}
  BY DEF Idle
<1> QED  BY <1>1, <1>2 DEF Shaped, Relies, Minting, Using, Spending

\* A request that rests holds nothing and mints nothing.
LEMMA IdleIsApart ==
  ASSUME NEW other
  PROVE  Apart(Idle, other) /\ Apart(other, Idle)
BY DEF Idle, Apart, Minting

\* A row somebody relies on is still what it was relied on to be.
LEMMA OthersStillRely ==
  ASSUME NEW r \in Requests, NEW q \in Requests \ {r}, NEW t \in [Links -> Link], NEW u \in [Links -> Link],
         work \in [Requests -> Task], Shaped(work[q]), Relies(work[q], t),
         Apart(work[q], work[r]), Moves(r, t, u)
  PROVE  Relies(work[q], u)
<1> DEFINE k == work[q]
<1>1. k \in Task
  OBVIOUS
<1>2. /\ k.found \subseteq Links /\ k.known \subseteq Links
      /\ k.locks \subseteq Links \cup {Account} /\ k.link \in Links \cup {None}
  BY <1>1 DEF Task
<1> HIDE DEF k
<1>3. MintedIn(t) \subseteq MintedIn(u) /\ LiveIn(u) \cap MintedIn(t) \subseteq LiveIn(t)
  BY DEF Moves, MintedIn, LiveIn
<1>4. Minting(k) => k.link \notin MintedIn(u)
  <2>1. SUFFICES ASSUME Minting(k), k.link \in MintedIn(u) PROVE FALSE
    OBVIOUS
  <2>2. k.link \in Links /\ t[k.link].state = "unminted" /\ u[k.link].state # "unminted"
    BY <2>1 DEF k, Relies, MintedIn
  <2> QED  BY <2>1, <2>2 DEF k, Moves, Apart
<1>5. Spending(k) => k.link \in LiveIn(u)
  <2>1. SUFFICES ASSUME Spending(k) PROVE k.link \in LiveIn(u)
    OBVIOUS
  <2>2. k.link \in Links /\ k.link \in k.locks /\ t[k.link].state = "live"
    BY <2>1 DEF k, Relies, Shaped, LiveIn
  <2> QED  BY <2>2 DEF k, Moves, LiveIn
<1>6. k.known \cap LiveIn(u) \subseteq k.known \cap LiveIn(t)
  BY <1>3 DEF k, Relies
<1> QED  BY <1>3, <1>4, <1>5, <1>6 DEF k, Relies

\* One request takes a step: it becomes n, and the table moves as it may.
LEMMA OneStep ==
  ASSUME TypeOK, \A x \in Requests : Shaped(work[x]) /\ Relies(work[x], links),
         \A x, q \in Requests : x # q => Apart(work[x], work[q]),
         NEW r \in Requests, NEW n \in Task, work' = [work EXCEPT ![r] = n],
         Shaped(n), Relies(n, links'), links' \in [Links -> Link], Moves(r, links, links'),
         \A q \in Requests \ {r} : Apart(n, work[q])
  PROVE  /\ work' \in [Requests -> Task]
         /\ \A x \in Requests : Shaped(work'[x]) /\ Relies(work'[x], links')
         /\ \A x, q \in Requests : x # q => Apart(work'[x], work'[q])
<1>1. work \in [Requests -> Task] /\ links \in [Links -> Link]
  BY DEF TypeOK
<1>2. work'[r] = n /\ \A q \in Requests \ {r} : work'[q] = work[q]
  BY <1>1
<1>3. \A x \in Requests : Shaped(work'[x]) /\ Relies(work'[x], links')
  <2>1. TAKE x \in Requests
  <2>2. CASE x = r
    BY <1>2, <2>2
  <2>3. CASE x # r
    <3>1. Shaped(work[x]) /\ Relies(work[x], links) /\ Apart(work[x], work[r]) /\ x \in Requests \ {r}
      BY <2>3
    <3>2. PICK u : u = links'
      OBVIOUS
    <3>3. Relies(work[x], u)
      BY <1>1, <3>1, <3>2, OthersStillRely
    <3> QED  BY <1>2, <3>1, <3>2, <3>3
  <2> QED  BY <2>2, <2>3
<1>4. \A x, q \in Requests : x # q => Apart(work'[x], work'[q])
  <2>1. \A q \in Requests \ {r} : Apart(work[q], n)
    BY DEF Apart
  <2> QED  BY <1>2, <2>1
<1> QED  BY <1>1, <1>3, <1>4

\* A step that leaves the table as it is.
LEMMA QuietStep ==
  ASSUME IInv, UNCHANGED rows,
         NEW r \in Requests, NEW n \in Task, work' = [work EXCEPT ![r] = n],
         Shaped(n), Relies(n, links), \A q \in Requests \ {r} : Apart(n, work[q])
  PROVE  IInv'
<1>1. links' = links /\ links' \in [Links -> Link]
  BY DEF IInv, TypeOK, rows
<1>2. Moves(r, links, links')
  BY <1>1 DEF Moves
<1>3. Relies(n, links')
  BY <1>1
<1>4. /\ work' \in [Requests -> Task]
      /\ \A x \in Requests : Shaped(work'[x]) /\ Relies(work'[x], links')
      /\ \A x, q \in Requests : x # q => Apart(work'[x], work'[q])
  BY <1>1, <1>2, <1>3, OneStep DEF IInv
<1>5. TypeOK'
  BY <1>4 DEF IInv, TypeOK, rows
<1>6. Recorded'
  BY <1>1 DEF IInv, Recorded, rows
<1> QED  BY <1>4, <1>5, <1>6 DEF IInv

LEMMA FinishingIsQuiet ==
  ASSUME IInv, UNCHANGED rows, NEW r \in Requests, Finish(r)
  PROVE  IInv'
BY IdleIsFine, IdleIsApart, QuietStep DEF Finish, Become

\* What a statement was granted nobody else holds.
LEMMA GrantedIsFree ==
  ASSUME NEW r \in Requests, Granted(r), NEW q \in Requests \ {r}
  PROVE  Wants(r) \cap work[q].locks = {}
BY DEF Granted, Blockers

-----------------------------------------------------------------------------
(* Action by action.                                                       *)

LEMMA CallsAreQuiet ==
  ASSUME IInv, NEW r \in Requests, Call(r)
  PROVE  IInv'
<1>0. TypeOK /\ Recorded /\ \A q \in Requests : Shaped(work[q]) /\ Relies(work[q], links)
  BY DEF IInv
<1>1. ASSUME NEW l \in Links, AskForLink(r, l) PROVE IInv'
  <2> DEFINE n == Started("request", l, "asked")
  <2>1. /\ n.step = "asked" /\ n.op = "request" /\ n.link = l /\ n.found = {}
        /\ n.known = Live /\ n.locks = {}
    BY DEF Started, Idle
  <2>2. n \in Task
    BY DEF Started, Idle, Task, Steps, Live
  <2>3. work' = [work EXCEPT ![r] = n] /\ UNCHANGED rows
    BY <1>1 DEF AskForLink, Become
  <2>4. links[l].state = "unminted" /\ \A q \in Requests : work[q].link # l
    BY <1>1 DEF AskForLink
  <2> HIDE DEF n
  <2>5. Shaped(n)
    BY <2>1 DEF Shaped, Using, Spending
  <2>6. Relies(n, links)
    BY <2>1, <2>4 DEF Relies, Minting, Using, Spending, MintedIn, Live
  <2>7. \A q \in Requests \ {r} : Apart(n, work[q])
    BY <2>1, <2>4 DEF Apart
  <2> QED  BY <2>2, <2>3, <2>5, <2>6, <2>7, QuietStep
<1>2. ASSUME NEW l \in Links, ResolveLink(r, l) PROVE IInv'
  <2> DEFINE n == [Started("confirm", l, "resolved") EXCEPT !.early = links[l].inTime]
  <2>1. /\ n.step = "resolved" /\ n.op = "confirm" /\ n.link = l /\ n.found = {}
        /\ n.known = Live /\ n.locks = {}
    BY DEF Started, Idle
  <2>2. n \in Task
    <3>1. links[l].inTime \in BOOLEAN
      BY <1>0 DEF TypeOK, Link
    <3> QED  BY <3>1 DEF Started, Idle, Task, Steps, Live
  <2>3. work' = [work EXCEPT ![r] = n] /\ UNCHANGED rows
    BY <1>2 DEF ResolveLink, Become
  <2>4. links[l].state # "unminted"
    BY <1>0, <1>2 DEF ResolveLink, Recorded, MintedIn
  <2> HIDE DEF n
  <2>5. Shaped(n)
    BY <2>1 DEF Shaped, Using, Spending
  <2>6. Relies(n, links)
    BY <2>1, <2>4 DEF Relies, Minting, Using, Spending, MintedIn, Live
  <2>7. \A q \in Requests \ {r} : Apart(n, work[q])
    BY <2>1 DEF Apart, Minting
  <2> QED  BY <2>2, <2>3, <2>5, <2>6, <2>7, QuietStep
<1>3. ASSUME ChangePassword(r) PROVE IInv'
  <2> DEFINE n == Started("change", None, "hashed")
  <2>1. /\ n.step = "hashed" /\ n.op = "change" /\ n.link = None /\ n.found = {}
        /\ n.known = Live /\ n.locks = {}
    BY DEF Started, Idle
  <2>2. n \in Task
    BY DEF Started, Idle, Task, Steps, Live
  <2>3. work' = [work EXCEPT ![r] = n] /\ UNCHANGED rows
    BY <1>3 DEF ChangePassword, Become
  <2> HIDE DEF n
  <2>5. Shaped(n)
    BY <2>1 DEF Shaped, Using, Spending
  <2>6. Relies(n, links)
    BY <2>1 DEF Relies, Minting, Using, Spending, MintedIn, Live
  <2>7. \A q \in Requests \ {r} : Apart(n, work[q])
    BY <2>1 DEF Apart, Minting
  <2> QED  BY <2>2, <2>3, <2>5, <2>6, <2>7, QuietStep
<1> QED  BY <1>1, <1>2, <1>3 DEF Call

\* The statements that find, wait and hold, before anything is committed.
LEMMA StatementsAreQuiet ==
  ASSUME IInv, NEW r \in Requests,
         \/ FindSettled(r) \/ DeleteSettled(r) \/ ConsumeLink(r) \/ WritePassword(r)
         \/ FindOutstanding(r) \/ InvalidateOutstanding(r)
  PROVE  IInv'
<1> DEFINE q == work[r]
<1>0. /\ TypeOK /\ q \in Task /\ Shaped(q) /\ Relies(q, links)
      /\ \A x \in Requests \ {r} : Apart(q, work[x])
  BY DEF IInv, TypeOK
<1>00. /\ q.found \subseteq Links /\ q.known \subseteq Links
       /\ q.locks \subseteq Links \cup {Account} /\ q.link \in Links \cup {None}
       /\ Settled \subseteq MintedIn(links) /\ Live \subseteq MintedIn(links) /\ Live = LiveIn(links)
  BY <1>0 DEF Task, Settled, Live, MintedIn, LiveIn
<1>1. CASE FindSettled(r)
  <2> DEFINE n == [q EXCEPT !.step = "sweeping", !.found = Settled]
  <2>1. /\ n.step = "sweeping" /\ n.op = q.op /\ n.link = q.link /\ n.found = Settled
        /\ n.known = q.known /\ n.locks = q.locks
    BY <1>0 DEF Task
  <2>2. n \in Task
    BY <1>0 DEF Task, Steps, Settled
  <2>3. work' = [work EXCEPT ![r] = n] /\ UNCHANGED rows /\ q.step = "asked"
    BY <1>1 DEF FindSettled, Become
  <2> HIDE DEF n, q
  <2>5. Shaped(n) /\ Relies(n, links)
    BY <1>0, <1>00, <2>1, <2>3 DEF Shaped, Relies, Minting, Using, Spending
  <2>6. \A x \in Requests \ {r} : Apart(n, work[x])
    BY <1>0, <2>1, <2>3 DEF Apart, Minting
  <2> QED  BY <2>2, <2>3, <2>5, <2>6, QuietStep
<1>2. CASE DeleteSettled(r)
  <2> DEFINE n == [q EXCEPT !.step = "swept", !.found = q.found \cap Settled, !.locks = q.locks \cup Wants(r)]
  <2>1. /\ n.step = "swept" /\ n.op = q.op /\ n.link = q.link /\ n.found = q.found \cap Settled
        /\ n.known = q.known /\ n.locks = q.locks \cup Wants(r)
    BY <1>0 DEF Task
  <2>3. work' = [work EXCEPT ![r] = n] /\ UNCHANGED rows /\ q.step = "sweeping" /\ Granted(r)
    BY <1>2 DEF DeleteSettled, Become
  <2>4. Wants(r) = q.found
    BY <2>3 DEF Wants
  <2>2. n \in Task
    BY <1>0, <1>00, <2>4 DEF Task, Steps
  <2>5. \A x \in Requests \ {r} : q.found \cap work[x].locks = {}
    BY <2>3, <2>4, GrantedIsFree
  <2> HIDE DEF n, q
  <2>6. Shaped(n) /\ Relies(n, links)
    BY <1>0, <1>00, <2>1, <2>3, <2>4 DEF Shaped, Relies, Minting, Using, Spending
  <2>7. \A x \in Requests \ {r} : Apart(n, work[x])
    BY <1>0, <2>1, <2>3, <2>4, <2>5 DEF Apart, Minting
  <2> QED  BY <2>2, <2>3, <2>6, <2>7, QuietStep
<1>3. CASE ConsumeLink(r)
  <2>1. CASE ~(links[q.link].state = "live" /\ q.early)
    BY <1>3, <2>1, FinishingIsQuiet DEF ConsumeLink
  <2>2. CASE links[q.link].state = "live" /\ q.early
    <3> DEFINE n == [q EXCEPT !.step = "spent", !.locks = q.locks \cup Wants(r)]
    <3>1. /\ n.step = "spent" /\ n.op = q.op /\ n.link = q.link /\ n.found = q.found
          /\ n.known = q.known /\ n.locks = q.locks \cup Wants(r)
      BY <1>0 DEF Task
    <3>3. work' = [work EXCEPT ![r] = n] /\ UNCHANGED rows /\ q.step = "resolved" /\ Granted(r)
      BY <1>3, <2>2 DEF ConsumeLink, Reach, Become
    <3>4. Wants(r) = {q.link} /\ q.link \in Links
      BY <1>0, <3>3 DEF Wants, Shaped, Using
    <3>2. n \in Task
      BY <1>0, <3>4 DEF Task, Steps
    <3>5. \A x \in Requests \ {r} : q.link \notin work[x].locks
      BY <3>3, <3>4, GrantedIsFree
    <3>6. q.link \in LiveIn(links) /\ q.link \in MintedIn(links)
      BY <2>2, <3>4 DEF LiveIn, MintedIn
    <3> HIDE DEF n, q
    <3>7. Shaped(n) /\ Relies(n, links)
      BY <1>0, <3>1, <3>3, <3>4, <3>6 DEF Shaped, Relies, Minting, Using, Spending
    <3>8. \A x \in Requests \ {r} : Apart(n, work[x])
      BY <1>0, <3>1, <3>4, <3>5 DEF Apart, Minting
    <3> QED  BY <3>2, <3>3, <3>7, <3>8, QuietStep
  <2> QED  BY <2>1, <2>2
<1>4. CASE WritePassword(r)
  <2> DEFINE n == [q EXCEPT !.step = "written", !.locks = q.locks \cup Wants(r)]
  <2>1. /\ n.step = "written" /\ n.op = q.op /\ n.link = q.link /\ n.found = q.found
        /\ n.known = q.known /\ n.locks = q.locks \cup Wants(r)
    BY <1>0 DEF Task
  <2>3. work' = [work EXCEPT ![r] = n] /\ UNCHANGED rows /\ q.step = "hashed" /\ Granted(r)
    BY <1>4 DEF WritePassword, Reach, Become
  <2>4. Wants(r) = {Account}
    BY <2>3 DEF Wants
  <2>2. n \in Task
    BY <1>0, <2>4 DEF Task, Steps
  <2>5. \A x \in Requests \ {r} : Account \notin work[x].locks
    BY <2>3, <2>4, GrantedIsFree
  <2> HIDE DEF n, q
  <2>6. Shaped(n) /\ Relies(n, links)
    BY <1>0, <2>1, <2>3, <2>4 DEF Shaped, Relies, Minting, Using, Spending
  <2>7. \A x \in Requests \ {r} : Apart(n, work[x])
    BY <1>0, <2>1, <2>4, <2>5 DEF Apart, Minting
  <2> QED  BY <2>2, <2>3, <2>6, <2>7, QuietStep
<1>5. CASE FindOutstanding(r)
  <2> DEFINE n == [q EXCEPT !.step = "invalidating", !.found = Live \ {q.link}]
  <2>1. /\ n.step = "invalidating" /\ n.op = q.op /\ n.link = q.link /\ n.found = Live \ {q.link}
        /\ n.known = q.known /\ n.locks = q.locks
    BY <1>0 DEF Task
  <2>2. n \in Task
    BY <1>0 DEF Task, Steps, Live
  <2>3. work' = [work EXCEPT ![r] = n] /\ UNCHANGED rows /\ q.step = "written"
    BY <1>5 DEF FindOutstanding, Become
  <2> HIDE DEF n, q
  <2>5. Shaped(n) /\ Relies(n, links)
    BY <1>0, <1>00, <2>1, <2>3 DEF Shaped, Relies, Minting, Using, Spending
  <2>6. \A x \in Requests \ {r} : Apart(n, work[x])
    BY <1>0, <2>1 DEF Apart, Minting
  <2> QED  BY <2>2, <2>3, <2>5, <2>6, QuietStep
<1>6. CASE InvalidateOutstanding(r)
  <2> DEFINE n == [q EXCEPT !.step = "invalidated", !.found = q.found \cap Live, !.locks = q.locks \cup Wants(r)]
  <2>1. /\ n.step = "invalidated" /\ n.op = q.op /\ n.link = q.link /\ n.found = q.found \cap Live
        /\ n.known = q.known /\ n.locks = q.locks \cup Wants(r)
    BY <1>0 DEF Task
  <2>3. work' = [work EXCEPT ![r] = n] /\ UNCHANGED rows /\ q.step = "invalidating" /\ Granted(r)
    BY <1>6 DEF InvalidateOutstanding, Become
  <2>4. Wants(r) = q.found
    BY <2>3 DEF Wants
  <2>2. n \in Task
    BY <1>0, <1>00, <2>4 DEF Task, Steps
  <2>5. \A x \in Requests \ {r} : q.found \cap work[x].locks = {}
    BY <2>3, <2>4, GrantedIsFree
  <2> HIDE DEF n, q
  <2>6. Shaped(n) /\ Relies(n, links)
    BY <1>0, <1>00, <2>1, <2>3, <2>4 DEF Shaped, Relies, Minting, Using, Spending
  <2>7. \A x \in Requests \ {r} : Apart(n, work[x])
    BY <1>0, <2>1, <2>4, <2>5 DEF Apart, Minting
  <2> QED  BY <2>2, <2>3, <2>6, <2>7, QuietStep
<1> QED  BY <1>1, <1>2, <1>3, <1>4, <1>5, <1>6

\* What a set of rows that somebody holds turns into concerns nobody else.
LEMMA TurningIsAMove ==
  ASSUME IInv, NEW r \in Requests, NEW u \in [Links -> Link],
         \A l \in Links : u[l].state # links[l].state =>
           l \in work[r].locks /\ u[l].state \in {"spent", "void", "gone"}
  PROVE  Moves(r, links, u)
<1> SUFFICES ASSUME NEW l \in Links
             PROVE /\ links[l].state # "unminted" => u[l].state # "unminted" /\ (u[l].state = "live" => links[l].state = "live")
                   /\ links[l].state = "unminted" /\ u[l].state # "unminted" => Minting(work[r]) /\ l = work[r].link
                   /\ \A q \in Requests \ {r} : l \in work[q].locks => u[l].state = links[l].state
  BY DEF Moves
<1>1. CASE u[l].state = links[l].state
  BY <1>1
<1>2. CASE l \in work[r].locks /\ u[l].state \in {"spent", "void", "gone"}
  <2>1. links[l].state # "unminted"
    BY <1>2, ParamAssumption DEF IInv, Relies, MintedIn
  <2>2. \A q \in Requests \ {r} : l \notin work[q].locks
    BY <1>2 DEF IInv, Apart
  <2> QED  BY <1>2, <2>1, <2>2
<1> QED  BY <1>1, <1>2

LEMMA InsertingKeepsIt ==
  ASSUME IInv, NEW r \in Requests, InsertLink(r)
  PROVE  IInv' /\ Moves(r, links, links')
<1> DEFINE q == work[r]
           l == q.link
           n == [Idle EXCEPT !.op = "request", !.step = "minted", !.link = l]
<1>0. /\ TypeOK /\ Recorded /\ q \in Task /\ Shaped(q) /\ Relies(q, links)
      /\ links \in [Links -> Link]
      /\ \A x \in Requests \ {r} : Shaped(work[x]) /\ Relies(work[x], links) /\ Apart(q, work[x])
  BY DEF IInv, TypeOK
<1>1. /\ q.step = "swept" /\ work' = [work EXCEPT ![r] = n]
      /\ links' = [Turned(q.found, "gone") EXCEPT ![l] = [state |-> "live", inTime |-> TRUE]]
      /\ UNCHANGED <<status, letters, setters, turnedAway>>
  BY DEF InsertLink, Become
<1>2. /\ l \in Links /\ Minting(q) /\ links[l].state = "unminted"
      /\ q.found \subseteq q.locks /\ q.found \subseteq MintedIn(links)
  BY <1>0, <1>1 DEF Shaped, Relies, Minting, MintedIn
<1>3. /\ n.step = "minted" /\ n.op = "request" /\ n.link = l /\ n.found = {} /\ n.known = {} /\ n.locks = {}
  BY DEF Idle
<1>4. n \in Task
  BY <1>2 DEF Idle, Task, Steps
<1>5. links' \in [Links -> Link]
  BY <1>0, <1>1 DEF Turned, Link
<1>6. \A k \in Links : links'[k].state = IF k = l THEN "live" ELSE IF k \in q.found THEN "gone" ELSE links[k].state
  BY <1>0, <1>1 DEF Turned, Link
<1> HIDE DEF n
<1>7. Moves(r, links, links')
  <2> SUFFICES ASSUME NEW k \in Links
             PROVE /\ links[k].state # "unminted" => links'[k].state # "unminted" /\ (links'[k].state = "live" => links[k].state = "live")
                   /\ links[k].state = "unminted" /\ links'[k].state # "unminted" => Minting(q) /\ k = l
                   /\ \A x \in Requests \ {r} : k \in work[x].locks => links'[k].state = links[k].state
    BY DEF Moves
  <2>1. CASE k = l
    <3>1. \A x \in Requests \ {r} : k \notin work[x].locks
      BY <1>0, <1>2, <2>1, ParamAssumption DEF Relies, MintedIn
    <3> QED  BY <1>2, <1>6, <2>1, <3>1
  <2>2. CASE k # l /\ k \in q.found
    <3>1. links[k].state # "unminted" /\ \A x \in Requests \ {r} : k \notin work[x].locks
      BY <1>0, <1>2, <2>2 DEF Apart, MintedIn
    <3> QED  BY <1>6, <2>2, <3>1
  <2>3. CASE k # l /\ k \notin q.found
    BY <1>6, <2>3
  <2> QED  BY <2>1, <2>2, <2>3
<1>8. Shaped(n) /\ Relies(n, links')
  BY <1>2, <1>3, <1>6 DEF MintedIn, Shaped, Relies, Minting, Using, Spending
<1>9. \A x \in Requests \ {r} : Apart(n, work[x])
  BY <1>3 DEF Apart, Minting
<1>10. /\ work' \in [Requests -> Task]
       /\ \A x \in Requests : Shaped(work'[x]) /\ Relies(work'[x], links')
       /\ \A x, y \in Requests : x # y => Apart(work'[x], work'[y])
  BY <1>1, <1>4, <1>5, <1>7, <1>8, <1>9, OneStep DEF IInv
<1>11. Recorded'
  <2>1. MintedIn(links) \subseteq MintedIn(links') /\ LiveIn(links') \cap MintedIn(links) \subseteq LiveIn(links)
    BY <1>7 DEF Moves, MintedIn, LiveIn
  <2> QED  BY <1>0, <1>1, <2>1 DEF Recorded
<1>12. TypeOK'
  BY <1>0, <1>1, <1>5, <1>10 DEF TypeOK
<1> QED  BY <1>7, <1>10, <1>11, <1>12 DEF IInv

LEMMA DispatchingKeepsIt ==
  ASSUME IInv, NEW r \in Requests, DispatchLetter(r)
  PROVE  IInv'
<1> DEFINE q == work[r]
<1>0. /\ TypeOK /\ Recorded /\ q \in Task /\ Shaped(q) /\ Relies(q, links)
      /\ work' = [work EXCEPT ![r] = Idle] /\ q.step = "minted"
      /\ UNCHANGED <<links, status, setters, turnedAway>>
      /\ letters' \in {letters, letters \cup {q.link}}
  BY DEF IInv, TypeOK, DispatchLetter, Finish, Become
<1>1. Moves(r, links, links')
  BY <1>0 DEF Moves
<1>2. Relies(Idle, links') /\ links' \in [Links -> Link]
  BY <1>0, IdleIsFine DEF TypeOK
<1>3. /\ work' \in [Requests -> Task]
      /\ \A x \in Requests : Shaped(work'[x]) /\ Relies(work'[x], links')
      /\ \A x, y \in Requests : x # y => Apart(work'[x], work'[y])
  BY <1>0, <1>1, <1>2, IdleIsFine, IdleIsApart, OneStep DEF IInv
<1>4. q.link \in MintedIn(links) /\ q.link \in Links
  BY <1>0 DEF Relies, MintedIn
<1>5. Recorded'
  BY <1>0, <1>4 DEF Recorded
<1>6. TypeOK'
  BY <1>0, <1>3, <1>4 DEF TypeOK
<1> QED  BY <1>3, <1>5, <1>6 DEF IInv

LEMMA AdmittingKeepsIt ==
  ASSUME IInv, NEW r \in Requests, AdmitAccount(r)
  PROVE  IInv'
<1> DEFINE q == work[r]
<1>0. /\ TypeOK /\ Recorded /\ q \in Task /\ Shaped(q) /\ Relies(q, links)
      /\ links \in [Links -> Link] /\ q.step = "spent"
      /\ \A x \in Requests \ {r} : Apart(q, work[x])
  BY DEF IInv, TypeOK, AdmitAccount
<1>1. /\ Spending(q) /\ q.link \in Links /\ q.link \in q.locks /\ links[q.link].state = "live"
  BY <1>0 DEF Shaped, Relies, Using, Spending, LiveIn
<1>2. CASE status = "ACTIVE"
  <2> DEFINE n == [q EXCEPT !.step = "hashed", !.locks = q.locks \cup Wants(r)]
  <2>1. /\ n.step = "hashed" /\ n.op = q.op /\ n.link = q.link /\ n.found = q.found
        /\ n.known = q.known /\ n.locks = q.locks \cup Wants(r)
    BY <1>0 DEF Task
  <2>2. Wants(r) = {}
    BY <1>0 DEF Wants
  <2>3. work' = [work EXCEPT ![r] = n] /\ UNCHANGED rows
    BY <1>2 DEF AdmitAccount, Reach, Become, rows
  <2>4. n \in Task
    BY <1>0, <2>2 DEF Task, Steps
  <2> HIDE DEF n, q
  <2>5. Shaped(n) /\ Relies(n, links)
    BY <1>0, <1>1, <2>1, <2>2 DEF Shaped, Relies, Minting, Using, Spending
  <2>6. \A x \in Requests \ {r} : Apart(n, work[x])
    BY <1>0, <2>1, <2>2 DEF Apart, Minting
  <2> QED  BY <2>3, <2>4, <2>5, <2>6, QuietStep
<1>3. CASE status # "ACTIVE"
  <2>1. /\ work' = [work EXCEPT ![r] = Idle] /\ links' = Turned({q.link}, "void")
        /\ turnedAway' = turnedAway \cup {q.link} /\ UNCHANGED <<status, letters, setters>>
    BY <1>3 DEF AdmitAccount, Finish, Become
  <2>2. links' \in [Links -> Link]
    BY <1>0, <2>1 DEF Turned, Link
  <2>3. \A k \in Links : links'[k].state = IF k = q.link THEN "void" ELSE links[k].state
    BY <1>0, <2>1 DEF Turned, Link
  <2>4. Moves(r, links, links')
    <3>1. PICK u : u = links'
      OBVIOUS
    <3>2. u \in [Links -> Link] /\ \A k \in Links : u[k].state # links[k].state => k \in q.locks /\ u[k].state = "void"
      BY <1>1, <2>2, <2>3, <3>1
    <3>3. Moves(r, links, u)
      BY <3>2, TurningIsAMove
    <3> QED  BY <3>1, <3>3
  <2>5. /\ work' \in [Requests -> Task]
        /\ \A x \in Requests : Shaped(work'[x]) /\ Relies(work'[x], links')
        /\ \A x, y \in Requests : x # y => Apart(work'[x], work'[y])
    BY <2>1, <2>2, <2>4, IdleIsFine, IdleIsApart, OneStep DEF IInv
  <2>6. Recorded'
    BY <1>0, <1>1, <2>1, <2>3 DEF Recorded, MintedIn, LiveIn
  <2>7. TypeOK'
    BY <1>0, <1>1, <2>1, <2>2, <2>5 DEF TypeOK
  <2> QED  BY <2>5, <2>6, <2>7 DEF IInv
<1> QED  BY <1>2, <1>3

\* What the commit of a new password does to each link.
LEMMA CommitFacts ==
  ASSUME IInv, NEW r \in Requests, CommitPassword(r)
  PROVE  LET q == work[r]
             used == {q.link} \ {None} IN
         /\ links' \in [Links -> Link] /\ Moves(r, links, links')
         /\ \A k \in Links : links'[k].state = IF k \in used THEN "spent"
                                            ELSE IF k \in q.found THEN "void" ELSE links[k].state
         /\ used \subseteq LiveIn(links) /\ used \subseteq Links
         /\ q.found \subseteq MintedIn(links)
         /\ q.known \cap LiveIn(links) \subseteq q.found \cup {q.link}
         /\ q.known \subseteq MintedIn(links)
         /\ setters' = setters \cup used /\ UNCHANGED <<status, letters, turnedAway>>
         /\ work' = [work EXCEPT ![r] = Idle]
<1> DEFINE q == work[r]
           used == {q.link} \ {None}
<1>0. /\ TypeOK /\ q \in Task /\ Shaped(q) /\ Relies(q, links)
      /\ links \in [Links -> Link] /\ q.step = "invalidated"
  BY DEF IInv, TypeOK, CommitPassword
<1>1. /\ links' = [l \in Links |-> CASE l \in used -> [links[l] EXCEPT !.state = "spent"]
                                      [] l \in q.found \ used -> [links[l] EXCEPT !.state = "void"]
                                      [] OTHER -> links[l]]
      /\ setters' = setters \cup used /\ UNCHANGED <<status, letters, turnedAway>>
      /\ work' = [work EXCEPT ![r] = Idle]
  BY DEF CommitPassword, Finish, Become
<1>2. used \subseteq LiveIn(links) /\ used \subseteq q.locks /\ used \subseteq Links
  BY <1>0 DEF Shaped, Relies, Using, Spending, LiveIn
<1>3. q.found \subseteq q.locks
  BY <1>0 DEF Shaped
<1>4. \A k \in Links : links'[k] \in Link /\ links'[k].state = IF k \in used THEN "spent"
                                            ELSE IF k \in q.found THEN "void" ELSE links[k].state
  <2> TAKE k \in Links
  <2>0. links[k] \in Link
    BY <1>0
  <2>1. CASE k \in used
    BY <1>1, <2>0, <2>1 DEF Link
  <2>2. CASE k \in q.found \ used
    BY <1>1, <2>0, <2>2 DEF Link
  <2>3. CASE k \notin used /\ k \notin q.found
    BY <1>1, <2>0, <2>3
  <2> QED  BY <2>1, <2>2, <2>3
<1>5. links' \in [Links -> Link]
  BY <1>1, <1>4
<1>6. Moves(r, links, links')
  <2>1. PICK u : u = links'
    OBVIOUS
  <2>2. u \in [Links -> Link]
        /\ \A k \in Links : u[k].state # links[k].state => k \in q.locks /\ u[k].state \in {"spent", "void"}
    BY <1>2, <1>3, <1>4, <1>5, <2>1
  <2>3. Moves(r, links, u)
    BY <2>2, TurningIsAMove
  <2> QED  BY <2>1, <2>3
<1> QED  BY <1>0, <1>1, <1>2, <1>4, <1>5, <1>6 DEF Relies

LEMMA CommittingKeepsIt ==
  ASSUME IInv, NEW r \in Requests, CommitPassword(r)
  PROVE  IInv'
<1> DEFINE used == {work[r].link} \ {None}
<1>0. TypeOK /\ Recorded
  BY DEF IInv
<1>1. /\ links' \in [Links -> Link] /\ Moves(r, links, links')
      /\ \A k \in Links : links'[k].state = IF k \in used THEN "spent"
                                         ELSE IF k \in work[r].found THEN "void" ELSE links[k].state
      /\ used \subseteq LiveIn(links) /\ used \subseteq Links
      /\ setters' = setters \cup used /\ UNCHANGED <<status, letters, turnedAway>>
      /\ work' = [work EXCEPT ![r] = Idle]
  BY CommitFacts
<1>2. /\ work' \in [Requests -> Task]
      /\ \A x \in Requests : Shaped(work'[x]) /\ Relies(work'[x], links')
      /\ \A x, y \in Requests : x # y => Apart(work'[x], work'[y])
  BY <1>1, IdleIsFine, IdleIsApart, OneStep DEF IInv
<1>3. Recorded'
  BY <1>0, <1>1 DEF Recorded, MintedIn, LiveIn
<1>4. TypeOK'
  BY <1>0, <1>1, <1>2 DEF TypeOK
<1> QED  BY <1>2, <1>3, <1>4 DEF IInv

\* A link that runs out of time keeps its state; the account is no part of the argument.
LEMMA TheRestKeepsIt ==
  ASSUME IInv, (\E l \in Links : Expire(l)) \/ SwitchAccount \/ UNCHANGED vars
  PROVE  IInv'
<1>0. TypeOK /\ Recorded /\ links \in [Links -> Link]
  BY DEF IInv, TypeOK
<1>1. /\ links' \in [Links -> Link] /\ \A k \in Links : links'[k].state = links[k].state
      /\ status' \in {"ACTIVE", "SUSPENDED"}
      /\ UNCHANGED <<letters, setters, turnedAway, work>>
  <2>1. ASSUME NEW l \in Links, Expire(l) 
        PROVE  /\ links' \in [Links -> Link] /\ \A k \in Links : links'[k].state = links[k].state
               /\ status' \in {"ACTIVE", "SUSPENDED"}
               /\ UNCHANGED <<letters, setters, turnedAway, work>>
    BY <1>0, <2>1 DEF Expire, Link, TypeOK
  <2>2. CASE SwitchAccount
    BY <1>0, <2>2 DEF SwitchAccount, TypeOK
  <2>3. CASE UNCHANGED vars
    BY <1>0, <2>3 DEF vars, rows, TypeOK
  <2> QED  BY <2>1, <2>2, <2>3
<1>2. MintedIn(links') = MintedIn(links) /\ LiveIn(links') = LiveIn(links)
  BY <1>1 DEF MintedIn, LiveIn
<1>3. \A x \in Requests : Shaped(work'[x]) /\ Relies(work'[x], links')
  BY <1>1, <1>2 DEF IInv, Relies
<1>4. Recorded'
  BY <1>0, <1>1, <1>2 DEF Recorded
<1>5. TypeOK'
  BY <1>0, <1>1 DEF TypeOK
<1> QED  BY <1>1, <1>3, <1>4, <1>5 DEF IInv

-----------------------------------------------------------------------------
LEMMA InitEstablishesIt == Init => IInv
<1> SUFFICES ASSUME Init PROVE IInv
  OBVIOUS
<1>1. links \in [Links -> Link] /\ MintedIn(links) = {}
  BY DEF Init, Link, MintedIn
<1>2. \A r \in Requests : work[r] = Idle
  BY DEF Init
<1>3. TypeOK
  BY <1>1, IdleIsFine DEF Init, TypeOK
<1>4. Recorded
  BY DEF Init, Recorded
<1> QED  BY <1>2, <1>3, <1>4, IdleIsFine, IdleIsApart DEF IInv

LEMMA StepsKeepIt == IInv /\ [Next]_vars => IInv'
<1> SUFFICES ASSUME IInv, [Next]_vars PROVE IInv'
  OBVIOUS
<1>1. ASSUME NEW r \in Requests, Call(r) PROVE IInv'
  BY <1>1, CallsAreQuiet
<1>2. ASSUME NEW r \in Requests, Advance(r) PROVE IInv'
  <2>1. CASE InsertLink(r)
    BY <2>1, InsertingKeepsIt
  <2>2. CASE DispatchLetter(r)
    BY <2>2, DispatchingKeepsIt
  <2>3. CASE AdmitAccount(r)
    BY <2>3, AdmittingKeepsIt
  <2>4. CASE CommitPassword(r)
    BY <2>4, CommittingKeepsIt
  <2> QED  BY <1>2, <2>1, <2>2, <2>3, <2>4, StatementsAreQuiet DEF Advance
<1>3. ASSUME NEW r \in Requests, AbortDeadlock(r) \/ Abandon(r) PROVE IInv'
  BY <1>3, FinishingIsQuiet DEF AbortDeadlock, Abandon
<1> QED  BY <1>1, <1>2, <1>3, TheRestKeepsIt DEF Next

-----------------------------------------------------------------------------
(* The theorems.                                                           *)

\* The rows, the requests and the records keep their shape.
THEOREM ResetTypeCorrect == Spec => []TypeOK
<1>1. IInv => TypeOK
  BY DEF IInv
<1> QED  BY <1>1, InitEstablishesIt, StepsKeepIt, PTL DEF Spec

\* A link refused to a suspended account (AdmitAccount) is never live again and never
\* sets a password.
THEOREM RefusalsAreFinal == Spec => []TurnedAwayForGood
<1>1. IInv => TurnedAwayForGood
  BY DEF IInv, Recorded, TurnedAwayForGood, Live, LiveIn
<1> QED  BY <1>1, InitEstablishesIt, StepsKeepIt, PTL DEF Spec

\* The commit of a new password leaves no link alive that stood when it was asked for.
THEOREM OutstandingLinksDie == Spec => KnownLinksDie
<1>1. ASSUME IInv, NEW r \in Requests, CommitPassword(r), NEW l \in work[r].known
      PROVE links'[l].state # "live"
  <2>0. l \in Links /\ None \notin Links
    BY <1>1, ParamAssumption DEF IInv, TypeOK, Task
  <2>1. CASE l \in LiveIn(links)
    BY <1>1, <2>0, <2>1, CommitFacts
  <2>2. CASE l \notin LiveIn(links)
    BY <1>1, <2>0, <2>2, CommitFacts DEF LiveIn
  <2> QED  BY <2>1, <2>2
<1>2. IInv => (\A r \in Requests : CommitPassword(r) => \A l \in work[r].known : links'[l].state # "live")
  BY <1>1
<1> QED  BY <1>2, InitEstablishesIt, StepsKeepIt, PTL DEF Spec, KnownLinksDie

-----------------------------------------------------------------------------
(* The links are offers.                                                   *)

\* How far the abstract offer of a link has come.
OfferOf(t, taken, l) ==
  CASE t[l].state = "unminted" -> "unmade"
    [] t[l].state = "live" -> "standing"
    [] l \in taken -> "taken"
    [] OTHER -> "withdrawn"

Standing == [l \in Links |-> OfferOf(links, setters, l)]

\* Those of a set that stand are withdrawn.
Less(some) == [l \in Links |-> IF l \in some /\ Standing[l] = "standing" THEN "withdrawn" ELSE Standing[l]]

\* The actions of Offers, as they read here.
LEMMA LinkMade ==
  ASSUME NEW l \in Links, NEW some \in SUBSET Links, Standing[l] = "unmade",
         Standing' = [Less(some) EXCEPT ![l] = "standing"], setters' = setters
  PROVE  TheLinks!Next
<1>1. TheLinks!Without(some) = Less(some)
  BY DEF TheLinks!Without, Less, Standing, OfferOf
<1>2. TheLinks!Make(l, some)
  BY <1>1 DEF TheLinks!Make, Standing, OfferOf
<1> QED
  BY <1>2 DEF TheLinks!Next

LEMMA LinksWithdrawn ==
  ASSUME NEW some \in SUBSET Links, Standing' = Less(some), setters' = setters
  PROVE  TheLinks!Next
<1>1. TheLinks!Without(some) = Less(some)
  BY DEF TheLinks!Without, Less, Standing, OfferOf
<1>2. TheLinks!Withdraw(some)
  BY <1>1 DEF TheLinks!Withdraw, Standing, OfferOf
<1> QED
  BY <1>2 DEF TheLinks!Next

LEMMA LinkTaken ==
  ASSUME NEW l \in Links, NEW some \in SUBSET Links, Standing[l] = "standing", l \notin setters,
         Standing' = [Less(some) EXCEPT ![l] = "taken"], setters' = setters \cup {l}
  PROVE  TheLinks!Next
<1>1. TheLinks!Without(some) = Less(some)
  BY DEF TheLinks!Without, Less, Standing, OfferOf
<1>2. TheLinks!Take(l, l, some)
  BY <1>1 DEF TheLinks!Take, Standing, OfferOf
<1> QED
  BY <1>2 DEF TheLinks!Next

\* No state is another one, nobody is known: the offers stay as they are.
LEMMA NothingOffered ==
  ASSUME \A l \in Links : links'[l].state = links[l].state, setters' = setters
  PROVE  TheLinks!Next
<1>1. \A l \in Links : OfferOf(links, setters, l)' = OfferOf(links, setters, l)
  BY DEF OfferOf
<1>2. Standing' = Less({})
  BY <1>1 DEF Standing, Less
<1> QED  BY <1>2, LinksWithdrawn

LEMMA InsertingMakes ==
  ASSUME IInv, NEW r \in Requests, InsertLink(r)
  PROVE  TheLinks!Next
<1>0. PICK l, some : l = work[r].link /\ some = work[r].found
  OBVIOUS
<1>1. /\ work[r] \in Task /\ links \in [Links -> Link] /\ Recorded
      /\ Shaped(work[r]) /\ Relies(work[r], links) /\ work[r].step = "swept"
  BY DEF IInv, TypeOK, InsertLink
<1>2. l \in Links /\ links[l].state = "unminted" /\ some \subseteq MintedIn(links) /\ some \in SUBSET Links
  BY <1>0, <1>1 DEF Shaped, Relies, Minting, MintedIn, Task
<1>3. /\ links' = [Turned(some, "gone") EXCEPT ![l] = [state |-> "live", inTime |-> TRUE]]
      /\ setters' = setters
  BY <1>0 DEF InsertLink
<1>4. \A k \in Links : links'[k].state = IF k = l THEN "live" ELSE IF k \in some THEN "gone" ELSE links[k].state
  BY <1>1, <1>3 DEF Turned, Link
<1>5. OfferOf(links', setters', l) = "standing" /\ OfferOf(links, setters, l) = "unmade"
  <2>1. links'[l].state = "live" /\ l \notin setters /\ l \notin setters'
    BY <1>1, <1>2, <1>3, <1>4 DEF Recorded, MintedIn
  <2>2. OfferOf(links', setters', l) = "standing"
    BY <2>1 DEF OfferOf
  <2>3. OfferOf(links, setters, l) = "unmade"
    BY <1>2, <2>1 DEF OfferOf
  <2> QED  BY <2>2, <2>3
<1>6. \A k \in Links \ {l} : OfferOf(links', setters', k) =
        IF k \in some /\ OfferOf(links, setters, k) = "standing" THEN "withdrawn" ELSE OfferOf(links, setters, k)
  BY <1>1, <1>2, <1>3, <1>4 DEF OfferOf, Recorded, MintedIn, LiveIn
<1>7. Standing' = [Less(some) EXCEPT ![l] = "standing"] /\ Standing[l] = "unmade"
  BY <1>2, <1>5, <1>6 DEF Standing, Less
<1> QED
  BY <1>2, <1>3, <1>7, LinkMade

LEMMA RefusingWithdraws ==
  ASSUME IInv, NEW r \in Requests, AdmitAccount(r)
  PROVE  TheLinks!Next
<1> DEFINE l == work[r].link
<1>1. /\ work[r] \in Task /\ links \in [Links -> Link] /\ Recorded
      /\ Shaped(work[r]) /\ Relies(work[r], links) /\ work[r].step = "spent"
  BY DEF IInv, TypeOK, AdmitAccount
<1>2. l \in Links /\ links[l].state = "live" /\ l \notin setters /\ {l} \in SUBSET Links
  BY <1>1 DEF Shaped, Relies, Using, Spending, LiveIn, Recorded
<1>3. CASE status = "ACTIVE"
  BY <1>3, NothingOffered DEF AdmitAccount
<1>4. CASE status # "ACTIVE"
  <2>1. links' = Turned({l}, "void") /\ setters' = setters
    BY <1>4 DEF AdmitAccount
  <2>2. \A k \in Links : links'[k].state = IF k = l THEN "void" ELSE links[k].state
    BY <1>1, <2>1 DEF Turned, Link
  <2> HIDE DEF l
  <2>3. \A k \in Links : OfferOf(links', setters', k) =
          IF k \in {l} /\ OfferOf(links, setters, k) = "standing" THEN "withdrawn" ELSE OfferOf(links, setters, k)
    BY <1>2, <2>1, <2>2 DEF OfferOf
  <2>4. Standing' = Less({l})
    BY <2>3 DEF Standing, Less
  <2> QED  BY <1>2, <2>1, <2>4, LinksWithdrawn
<1> QED  BY <1>3, <1>4

LEMMA CommittingTakes ==
  ASSUME IInv, NEW r \in Requests, CommitPassword(r)
  PROVE  TheLinks!Next
<1> DEFINE l == work[r].link
           some == work[r].found
           used == {l} \ {None}
<1>1. /\ work[r] \in Task /\ Recorded /\ None \notin Links
  BY ParamAssumption DEF IInv, TypeOK
<1>2. /\ \A k \in Links : links'[k].state = IF k \in used THEN "spent" ELSE IF k \in some THEN "void" ELSE links[k].state
      /\ used \subseteq LiveIn(links) /\ used \subseteq Links /\ some \subseteq MintedIn(links)
      /\ setters' = setters \cup used
  BY CommitFacts
<1>3. some \in SUBSET Links /\ l \in Links \cup {None}
  BY <1>1 DEF Task
<1> HIDE DEF l, some
<1>4. \A k \in Links \ used : OfferOf(links', setters', k) =
        IF k \in some /\ OfferOf(links, setters, k) = "standing" THEN "withdrawn" ELSE OfferOf(links, setters, k)
  BY <1>1, <1>2 DEF OfferOf, Recorded, MintedIn, LiveIn
<1>5. CASE l = None
  <2>1. Standing' = Less(some) /\ setters' = setters
    BY <1>2, <1>4, <1>5 DEF Standing, Less
  <2> QED  BY <1>3, <2>1, LinksWithdrawn
<1>6. CASE l # None
  <2>1. used = {l} /\ l \in Links /\ links[l].state = "live" /\ l \notin setters
    BY <1>1, <1>2, <1>3, <1>6 DEF LiveIn, Recorded
  <2>2. OfferOf(links', setters', l) = "taken" /\ OfferOf(links, setters, l) = "standing"
    BY <1>2, <2>1 DEF OfferOf
  <2>3. Standing' = [Less(some) EXCEPT ![l] = "taken"] /\ Standing[l] = "standing" /\ setters' = setters \cup {l}
    BY <1>2, <1>4, <2>1, <2>2 DEF Standing, Less
  <2> QED  BY <1>3, <2>1, <2>3, LinkTaken
<1> QED  BY <1>5, <1>6

LEMMA StepsAreOffers == IInv /\ [Next]_vars => [TheLinks!Next]_TheLinks!vars
<1> SUFFICES ASSUME IInv, [Next]_vars PROVE TheLinks!Next
  OBVIOUS
<1>1. CASE UNCHANGED vars
  BY <1>1, NothingOffered DEF vars, rows
<1>2. ASSUME NEW r \in Requests, Advance(r) PROVE TheLinks!Next
  <2>1. CASE InsertLink(r)
    BY <2>1, InsertingMakes
  <2>2. CASE AdmitAccount(r)
    BY <2>2, RefusingWithdraws
  <2>3. CASE CommitPassword(r)
    BY <2>3, CommittingTakes
  <2>4. CASE FindSettled(r) \/ DeleteSettled(r) \/ ConsumeLink(r) \/ WritePassword(r)
             \/ FindOutstanding(r) \/ InvalidateOutstanding(r) \/ DispatchLetter(r)
    BY <2>4, NothingOffered DEF FindSettled, DeleteSettled, ConsumeLink, WritePassword,
       FindOutstanding, InvalidateOutstanding, DispatchLetter, rows
  <2> QED  BY <1>2, <2>1, <2>2, <2>3, <2>4 DEF Advance
<1>3. ASSUME NEW r \in Requests, Call(r) \/ AbortDeadlock(r) \/ Abandon(r) PROVE TheLinks!Next
  BY <1>3, NothingOffered DEF Call, AskForLink, ResolveLink, ChangePassword, AbortDeadlock, Abandon, rows
<1>4. ASSUME NEW l \in Links, Expire(l) PROVE TheLinks!Next
  <2>1. \A k \in Links : links'[k].state = links[k].state
    BY <1>4 DEF Expire, IInv, TypeOK, Link
  <2> QED  BY <1>4, <2>1, NothingOffered DEF Expire
<1>5. CASE SwitchAccount
  BY <1>5, NothingOffered DEF SwitchAccount
<1> QED  BY <1>1, <1>2, <1>3, <1>4, <1>5 DEF Next

\* A link sets at most one password, while it stands, and comes to nothing when a
\* change of the password, a refusal or the sweep got there first.
THEOREM LinksAreOffers == Spec => ImplementsOffers
<1>1. Init => TheLinks!Init
  BY DEF Init, TheLinks!Init
<1> QED
  BY <1>1, InitEstablishesIt, StepsKeepIt, StepsAreOffers, PTL DEF Spec, ImplementsOffers, TheLinks!Spec
=============================================================================
