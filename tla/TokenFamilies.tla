--------------------------- MODULE TokenFamilies ----------------------------
(***************************************************************************)
(* What a refresh-token family promises, with no transaction in sight: a   *)
(* family is opened with one token, exchanging it yields the next one, a   *)
(* token is exchanged at most once, and a family that was closed has no    *)
(* token to exchange ever again.                                           *)
(***************************************************************************)
CONSTANTS Families, Tokens

VARIABLES
  current,  \* the token of each family that may be exchanged, as a set
  spent     \* its tokens that never may be again

vars == <<current, spent>>

Issued == UNION {current[f] \cup spent[f] : f \in Families}

Init ==
  /\ current = [f \in Families |-> {}]
  /\ spent = [f \in Families |-> {}]

\* A device signs in.
Open(f, t) ==
  /\ current[f] = {} /\ spent[f] = {}
  /\ t \notin Issued
  /\ current' = [current EXCEPT ![f] = {t}]
  /\ UNCHANGED spent

\* The device exchanges its token for the next one.
Exchange(f, t, successor) ==
  /\ current[f] = {t}
  /\ successor \notin Issued
  /\ current' = [current EXCEPT ![f] = {successor}]
  /\ spent' = [spent EXCEPT ![f] = @ \cup {t}]

\* A sign-out, a detection of reuse or an operation on the account closes the
\* families it names.
Close(closed) ==
  /\ current' = [f \in Families |-> IF f \in closed THEN {} ELSE current[f]]
  /\ spent' = [f \in Families |-> IF f \in closed THEN spent[f] \cup current[f]
                                  ELSE spent[f]]

Next ==
  \/ \E f \in Families, t \in Tokens : Open(f, t)
  \/ \E f \in Families, t, successor \in Tokens : Exchange(f, t, successor)
  \/ \E closed \in SUBSET Families : Close(closed)

Spec == Init /\ [][Next]_vars
=============================================================================
