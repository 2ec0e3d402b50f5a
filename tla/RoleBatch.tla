----------------------------- MODULE RoleBatch ------------------------------
(***************************************************************************)
(* The draft of the matrix screen: what several roles should grant, judged *)
(* as a whole, saved as a whole, beside everything Authority does.         *)
(*                                                                         *)
(* A draft takes the row of each role it moves when it writes it, and the  *)
(* accounts of all their holders at the end; a removal takes them the      *)
(* other way round, and two drafts may name their roles in any order.  The *)
(* circle that closes is opened by giving up one of the two.               *)
(***************************************************************************)
EXTENDS Authority, Functions

CONSTANT Drafts  \* bound: the drafts that are sent

\* What each role named should grant.  The validator refuses one named twice.
Change == UNION {[named -> SUBSET Keys] : named \in SUBSET Roles}

ASSUME BatchAssumption == Drafts \subseteq Change /\ None \notin Requests

VARIABLE drafts  \* what each request about a draft has read, decided and locked

batchVars == <<vars, drafts>>

-----------------------------------------------------------------------------
Draft == [step : {"idle", "received", "read", "writing", "bumped"}, actor : Users,
          isOwner : BOOLEAN, holds : SUBSET Keys, changes : Change,
          before : Change,     \* the compositions as it has read them, until it is judged
          written : SUBSET Roles, targets : SUBSET Users,
          overtaken : BOOLEAN]  \* history: a row has changed since it was let in

NoChange == [x \in {} |-> {}]

NoDraft == [step |-> "idle", actor |-> Root, isOwner |-> FALSE, holds |-> {},
            changes |-> NoChange, before |-> NoChange,
            written |-> {}, targets |-> {}, overtaken |-> FALSE]

BatchTypeOK == TypeOK /\ drafts \in [Requests -> Draft]

BatchInit == Init /\ drafts = [r \in Requests |-> NoDraft]

Named(q) == DOMAIN q.changes

\* What a role would grant.
After(q, x) == IF x \in Named(q) THEN q.changes[x] ELSE grants[x]

\* What it takes away, and whether it moves anything.
Removed(q, x) == q.before[x] \ q.changes[x]

Moved(q) == {x \in Named(q) : q.before[x] # q.changes[x]}

-----------------------------------------------------------------------------
(* The policy.                                                             *)

\* Mutant: the roles as they are, not as the draft leaves them.
KeptNow(q) == Granted(q.actor)

\* What the author is left with: their roles as the draft leaves them, and exceptions.
KeptAfter(q) ==
  Allowed(q.actor) \cup UNION {After(q, x) : x \in {y \in Roles : InForce(q.actor, y)}}

\* Asked once, of the end state: a right may move from one role to another.
rightsTheActorLoses(q) ==
  {k \in (GovernsRights \cap q.holds) \ KeptAfter(q) :
     \E x \in Named(q) : InForce(q.actor, x) /\ k \in Removed(q, x)}

\* One refusal refuses the draft.
judgeRoleChanges(q) ==
  /\ Named(q) \subseteq Roles \ SystemRoles
  /\ \A x \in Named(q) : q.changes[x] \subseteq q.holds
  /\ q.isOwner \/ rightsTheActorLoses(q) = {}

-----------------------------------------------------------------------------
(* A draft.                                                                *)

\* A commit, or a moment at which an assignment ends, is news to every other draft.
Noticed(table, r) ==
  [p \in Requests |-> IF p # r /\ table[p].step # "idle" /\ rows' # rows
                      THEN [table[p] EXCEPT !.overtaken = TRUE] ELSE table[p]]

Redraft(r, q) == drafts' = Noticed([drafts EXCEPT ![r] = q], r)

\* The rows a draft holds until it commits.
RoleDrafted(x) == \E q \in Requests : x \in drafts[q].written

HeldByDraft(u) == \E q \in Requests : u \in drafts[q].targets

\* The actor is rebuilt and the route guarded before the body is looked at.
SendDraft(r, a, d) ==
  /\ requests[r] = Idle /\ drafts[r] = NoDraft
  /\ accounts[a].status = "ACTIVE"
  /\ a = root \/ "role:update" \in Effective(a)
  /\ DOMAIN d \subseteq roles
  /\ UNCHANGED vars
  /\ Redraft(r, [NoDraft EXCEPT !.step = "received", !.actor = a, !.isOwner = (a = root),
                                !.holds = Effective(a), !.changes = d])

\* The compositions are one statement; a role that is gone takes the draft with it.
ReadDraft(r) ==
  LET q == drafts[r] IN
  /\ q.step = "received"
  /\ UNCHANGED vars
  /\ Redraft(r, IF Named(q) \subseteq roles
                THEN [q EXCEPT !.step = "read", !.before = Restrict(grants, Named(q))]
                ELSE NoDraft)

\* What the actor holds is the next.  Roles the draft leaves as they were read are
\* out of it from here on.
JudgeDraft(r) ==
  LET q == drafts[r] IN
  /\ q.step = "read"
  /\ UNCHANGED vars
  /\ Redraft(r, IF judgeRoleChanges(q)
                THEN [q EXCEPT !.step = "writing", !.before = NoChange,
                                !.changes = Restrict(q.changes, Moved(q))]
                ELSE NoDraft)

\* The row of one role, and its grants replaced; gone since it was read, it takes the
\* draft with it.
WriteChange(r, x) ==
  LET q == drafts[r] IN
  /\ q.step = "writing" /\ x \in Named(q) \ q.written
  /\ ~RoleLocked(x) /\ ~RoleDrafted(x)
  /\ UNCHANGED vars
  /\ Redraft(r, IF x \in roles THEN [q EXCEPT !.written = @ \cup {x}] ELSE NoDraft)

\* One statement for the holders of every role that moved.
BumpHoldersOfMany(r) ==
  LET q == drafts[r]
      targets == UNION {Holders(x) : x \in Named(q)} IN
  /\ q.step = "writing" /\ q.written = Named(q)
  /\ \A u \in targets : ~Locked(u) /\ ~HeldByDraft(u)
  /\ UNCHANGED vars
  /\ Redraft(r, [q EXCEPT !.step = "bumped", !.targets = targets])

\* The commit: all of it.
SaveDraft(r) ==
  LET q == drafts[r] IN
  /\ q.step = "bumped"
  /\ grants' = [x \in Roles |-> After(q, x)]
  /\ Bump(q.targets)
  /\ UNCHANGED <<root, held, roles, overrides, requests>>
  /\ Redraft(r, NoDraft)

\* A deadlock, the ceiling, a crash: none of it.
AbandonDraft(r) ==
  /\ drafts[r].step # "idle"
  /\ UNCHANGED vars
  /\ Redraft(r, NoDraft)

DraftStep(r) ==
  \/ \E a \in Actors, d \in Drafts : SendDraft(r, a, d)
  \/ ReadDraft(r) \/ JudgeDraft(r)
  \/ \E x \in Roles : WriteChange(r, x)
  \/ BumpHoldersOfMany(r) \/ SaveDraft(r) \/ AbandonDraft(r)

\* What the other requests may do while drafts hold rows.
Undisturbed ==
  /\ \A u \in Users : HeldByDraft(u) => accounts'[u] = accounts[u] /\ ~(Locked(u))'
  /\ \A x \in Roles : RoleDrafted(x) => x \in roles' /\ ~(RoleLocked(x))'

\* A request carries a draft or something else, never both.
BatchNext ==
  \/ \E r \in Requests :
        \/ drafts[r] = NoDraft /\ Serve(r) /\ Undisturbed /\ drafts' = Noticed(drafts, r)
        \/ DraftStep(r)
  \/ \E u \in Users, x \in Roles : Expire(u, x) /\ drafts' = Noticed(drafts, None)

BatchSpec == BatchInit /\ [][BatchNext]_batchVars

-----------------------------------------------------------------------------
(* What must hold.                                                         *)

\* A draft nobody overtook never takes the last right to edit roles from its author,
\* however it distributes that right among the roles they hold.
DraftersKeepTheirWayBack ==
  [][\A r \in Requests, a \in Users :
       /\ SaveDraft(r)
       /\ drafts[r].actor = a /\ ~drafts[r].isOwner /\ ~drafts[r].overtaken
       => GovernsRights \cap Effective(a) \subseteq (Effective(a))']_batchVars
=============================================================================
