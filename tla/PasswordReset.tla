--------------------------- MODULE PasswordReset ---------------------------
(***************************************************************************)
(* The links that set a new password: asked for, mailed, presented, spent, *)
(* made void by any change of the password, and swept away when settled.   *)
(* One account, because nothing here reads or writes that of another.      *)
(*                                                                         *)
(* As in Teams, a request is a READ COMMITTED transaction taken statement  *)
(* by statement.  A statement that touches several rows finds them first   *)
(* and then waits for them, so what another transaction adds or settles    *)
(* meanwhile is respectively missed and looked at again.  Every lock here  *)
(* is exclusive; what a reset does to the sessions is module Sessions.     *)
(***************************************************************************)
CONSTANTS
  Links,     \* reset links, minted or yet to be
  Account,   \* the row of the account, as something that is locked
  Requests,  \* requests the API serves at the same time
  None       \* a slot that is not used

ASSUME ParamAssumption ==
  Account \notin Links /\ None \notin Links \cup {Account}

VARIABLES
  links,       \* password_reset_tokens
  status,      \* whether the account may sign in
  letters,     \* the links that reached a mailbox
  work,        \* what each request has found, locked and decided
  setters,     \* history: the links that have set a password
  turnedAway   \* history: the links refused because the account was suspended

rows == <<links, status, letters, setters, turnedAway>>
vars == <<rows, work>>

-----------------------------------------------------------------------------
\* A row counts as gone when the sweep has deleted it, whatever it had been.
Link == [state : {"unminted", "live", "spent", "void", "gone"}, inTime : BOOLEAN]

Steps == {"idle", "asked", "sweeping", "swept", "minted", "resolved", "spent",
          "hashed", "written", "invalidating", "invalidated"}

Task == [step : Steps, op : {"request", "confirm", "change", None},
         link : Links \cup {None}, early : BOOLEAN, found : SUBSET Links,
         known : SUBSET Links, locks : SUBSET (Links \cup {Account})]

Idle == [step |-> "idle", op |-> None, link |-> None, early |-> FALSE,
         found |-> {}, known |-> {}, locks |-> {}]

TypeOK ==
  /\ links \in [Links -> Link]
  /\ status \in {"ACTIVE", "SUSPENDED"}
  /\ letters \subseteq Links /\ setters \subseteq Links /\ turnedAway \subseteq Links
  /\ work \in [Requests -> Task]

Live == {l \in Links : links[l].state = "live"}

\* What deleteSettled finds: used, or out of time.
Settled == {l \in Links : \/ links[l].state \in {"spent", "void"}
                          \/ links[l].state = "live" /\ ~links[l].inTime}

\* The rows the next statement of a request has to own.
Wants(r) ==
  LET q == work[r] IN
  CASE q.step = "resolved" -> {q.link}
    [] q.step = "hashed" -> {Account}
    [] q.step \in {"sweeping", "invalidating"} -> q.found
    [] OTHER -> {}

Blockers(r) == {q \in Requests \ {r} : Wants(r) \cap work[q].locks # {}}

Granted(r) == Blockers(r) = {}

InDeadlock(r) ==
  \E circle \in SUBSET Requests :
     r \in circle /\ \A q \in circle : Blockers(q) \cap circle # {}

Become(r, q) == work' = [work EXCEPT ![r] = q]

Finish(r) == Become(r, Idle)

Reach(r, step) ==
  Become(r, [work[r] EXCEPT !.step = step, !.locks = work[r].locks \cup Wants(r)])

Started(op, l, step) ==
  [Idle EXCEPT !.op = op, !.link = l, !.step = step, !.known = Live]

\* The links of a set take another state, all in one step.
Turned(some, state) ==
  [l \in Links |-> IF l \in some THEN [links[l] EXCEPT !.state = state] ELSE links[l]]

Init ==
  /\ links = [l \in Links |-> [state |-> "unminted", inTime |-> FALSE]]
  /\ status = "ACTIVE"
  /\ letters = {} /\ setters = {} /\ turnedAway = {}
  /\ work = [r \in Requests |-> Idle]

-----------------------------------------------------------------------------
(* Asking for a link.                                                      *)

\* Only an account that may sign in gets one, as it is read before the transaction;
\* the link is minted with it.
AskForLink(r, l) ==
  /\ work[r] = Idle
  /\ status = "ACTIVE"
  /\ links[l].state = "unminted" /\ \A q \in Requests : work[q].link # l
  /\ Become(r, Started("request", l, "asked"))
  /\ UNCHANGED rows

FindSettled(r) ==
  /\ work[r].step = "asked"
  /\ Become(r, [work[r] EXCEPT !.step = "sweeping", !.found = Settled])
  /\ UNCHANGED rows

DeleteSettled(r) ==
  /\ work[r].step = "sweeping"
  /\ Granted(r)
  /\ Become(r, [work[r] EXCEPT !.step = "swept", !.found = work[r].found \cap Settled,
                               !.locks = work[r].locks \cup Wants(r)])
  /\ UNCHANGED rows

\* The insert, and the commit of both statements.
InsertLink(r) ==
  LET l == work[r].link IN
  /\ work[r].step = "swept"
  /\ links' = [Turned(work[r].found, "gone") EXCEPT ![l] = [state |-> "live", inTime |-> TRUE]]
  /\ Become(r, [Idle EXCEPT !.op = "request", !.step = "minted", !.link = l])
  /\ UNCHANGED <<status, letters, setters, turnedAway>>

\* Handed over after the commit and never awaited: the relay may lose it.
DispatchLetter(r) ==
  /\ work[r].step = "minted"
  /\ letters' \in {letters, letters \cup {work[r].link}}
  /\ Finish(r)
  /\ UNCHANGED <<links, status, setters, turnedAway>>

-----------------------------------------------------------------------------
(* Presenting one.                                                         *)

\* The resolver knows rows, not whether they can still be used; the clock is
\* read here, before the transaction.
ResolveLink(r, l) ==
  /\ work[r] = Idle
  /\ l \in letters /\ links[l].state # "gone"
  /\ Become(r, [Started("confirm", l, "resolved") EXCEPT !.early = links[l].inTime])
  /\ UNCHANGED rows

\* Mutant: the resolver's answer decides, the update names the id only.
ConsumeAsResolved(r) ==
  /\ work[r].step = "resolved"
  /\ Granted(r)
  /\ IF links[work[r].link].state # "gone" /\ work[r].early THEN Reach(r, "spent") ELSE Finish(r)
  /\ UNCHANGED rows

\* Mutant: a link that cannot be spent is tried again until it can.
ConsumeInTheEnd(r) ==
  /\ work[r].step = "resolved"
  /\ Granted(r)
  /\ links[work[r].link].state = "live" /\ work[r].early
  /\ Reach(r, "spent")
  /\ UNCHANGED rows

\* UPDATE ... WHERE used_at IS NULL AND expires_at > now RETURNING user_id.
ConsumeLink(r) ==
  /\ work[r].step = "resolved"
  /\ Granted(r)
  /\ IF links[work[r].link].state = "live" /\ work[r].early THEN Reach(r, "spent") ELSE Finish(r)
  /\ UNCHANGED rows

\* Mutant: a refusal rolls the spend back.
AdmitAccountOrRestore(r) ==
  LET l == work[r].link IN
  /\ work[r].step = "spent"
  /\ IF status = "ACTIVE"
     THEN Reach(r, "hashed") /\ UNCHANGED <<links, turnedAway>>
     ELSE /\ turnedAway' = turnedAway \cup {l}
          /\ Finish(r)
          /\ UNCHANGED links
  /\ UNCHANGED <<status, letters, setters>>

\* A suspended account is refused, and the spend is kept.
AdmitAccount(r) ==
  LET l == work[r].link IN
  /\ work[r].step = "spent"
  /\ IF status = "ACTIVE"
     THEN Reach(r, "hashed") /\ UNCHANGED <<links, turnedAway>>
     ELSE /\ links' = Turned({l}, "void")
          /\ turnedAway' = turnedAway \cup {l}
          /\ Finish(r)
  /\ UNCHANGED <<status, letters, setters>>

\* The other way to this point: the current password was verified and the new one
\* hashed before the transaction.
ChangePassword(r) ==
  /\ work[r] = Idle
  /\ status = "ACTIVE"
  /\ Become(r, Started("change", None, "hashed"))
  /\ UNCHANGED rows

WritePassword(r) ==
  /\ work[r].step = "hashed"
  /\ Granted(r)
  /\ Reach(r, "written")
  /\ UNCHANGED rows

\* updateMany WHERE used_at IS NULL: its snapshot, which has its own spend in it.
FindOutstanding(r) ==
  /\ work[r].step = "written"
  /\ Become(r, [work[r] EXCEPT !.step = "invalidating", !.found = Live \ {work[r].link}])
  /\ UNCHANGED rows

\* Mutant: rows that somebody else holds are skipped.
InvalidateUnheld(r) ==
  /\ work[r].step = "invalidating"
  /\ Become(r, [work[r] EXCEPT !.step = "invalidated",
                  !.found = {l \in work[r].found : \A q \in Requests \ {r} : l \notin work[q].locks}])
  /\ UNCHANGED rows

\* Behind whoever holds them; what was settled meanwhile is left as it is.
InvalidateOutstanding(r) ==
  /\ work[r].step = "invalidating"
  /\ Granted(r)
  /\ Become(r, [work[r] EXCEPT !.step = "invalidated", !.found = work[r].found \cap Live,
                               !.locks = work[r].locks \cup Wants(r)])
  /\ UNCHANGED rows

CommitPassword(r) ==
  LET used == {work[r].link} \ {None} IN
  /\ work[r].step = "invalidated"
  /\ links' = [l \in Links |-> CASE l \in used -> [links[l] EXCEPT !.state = "spent"]
                                 [] l \in work[r].found \ used -> [links[l] EXCEPT !.state = "void"]
                                 [] OTHER -> links[l]]
  /\ setters' = setters \cup used
  /\ Finish(r)
  /\ UNCHANGED <<status, letters, turnedAway>>

-----------------------------------------------------------------------------
\* Half an hour has passed.
Expire(l) ==
  /\ links[l].state = "live" /\ links[l].inTime
  /\ links' = [links EXCEPT ![l].inTime = FALSE]
  /\ UNCHANGED <<status, letters, setters, turnedAway, work>>

\* Suspension and reactivation, which touch no link; they wait for the account.
SwitchAccount ==
  /\ \A r \in Requests : Account \notin work[r].locks
  /\ status' = IF status = "ACTIVE" THEN "SUSPENDED" ELSE "ACTIVE"
  /\ UNCHANGED <<links, letters, setters, turnedAway, work>>

\* The database aborts a transaction of a circle.
AbortDeadlock(r) ==
  /\ InDeadlock(r)
  /\ Finish(r)
  /\ UNCHANGED rows

\* A lost connection, the ceiling on a transaction, a crash before the dispatch.
Abandon(r) ==
  /\ work[r] # Idle
  /\ Finish(r)
  /\ UNCHANGED rows

Advance(r) ==
  \/ FindSettled(r) \/ DeleteSettled(r) \/ InsertLink(r) \/ DispatchLetter(r)
  \/ ConsumeLink(r) \/ AdmitAccount(r) \/ WritePassword(r)
  \/ FindOutstanding(r) \/ InvalidateOutstanding(r) \/ CommitPassword(r)

Call(r) ==
  \/ \E l \in Links : AskForLink(r, l) \/ ResolveLink(r, l)
  \/ ChangePassword(r)

Next ==
  \/ \E r \in Requests : Call(r) \/ Advance(r) \/ AbortDeadlock(r) \/ Abandon(r)
  \/ \E l \in Links : Expire(l)
  \/ SwitchAccount

Fairness == \A r \in Requests : SF_vars(Advance(r)) /\ WF_vars(AbortDeadlock(r))

Spec == Init /\ [][Next]_vars /\ Fairness

-----------------------------------------------------------------------------
(* What must hold.                                                         *)

\* A link is an offer of one password: taken once, while it stands, never after a
\* change of the password withdrew it.
TheLinks ==
  INSTANCE Offers WITH
    Offer <- Links, Person <- Links, people <- setters,
    offers <- [l \in Links |-> CASE links[l].state = "unminted" -> "unmade"
                                 [] links[l].state = "live" -> "standing"
                                 [] l \in setters -> "taken"
                                 [] OTHER -> "withdrawn"]

ImplementsOffers == TheLinks!Spec

\* Whatever was outstanding when a new password was asked for is dead once that
\* password is in force, be it in the hands of another request.
KnownLinksDie ==
  [][\A r \in Requests : CommitPassword(r) =>
       \A l \in work[r].known : links'[l].state # "live"]_vars

\* A link refused to a suspended account stays refused when the account is back.
TurnedAwayForGood == turnedAway \cap (Live \cup setters) = {}

\* Every request ends, although two links of one account presented at once close
\* a circle: one holds the account, both hold a link the other has to void.
RequestsEnd ==
  \A r \in Requests : work[r] # Idle ~> work[r] = Idle
=============================================================================
