------------------------------- MODULE Offers -------------------------------
(***************************************************************************)
(* What an offer promises, whatever carries it: it is made once, it is     *)
(* taken at most once, only while it stands, and somebody new comes with   *)
(* it, in the same step and in no other.  Taking one may withdraw others.  *)
(***************************************************************************)
CONSTANTS
  Offer,   \* identities of offers
  Person   \* identities of those who come by an offer

VARIABLES
  offers,  \* the state of each offer
  people   \* who has come

vars == <<offers, people>>

Init == /\ offers = [o \in Offer |-> "unmade"]
        /\ people \in SUBSET Person

\* Offers that no longer stand were taken, or withdrawn together with what else.
Without(some) ==
  [o \in Offer |-> IF o \in some /\ offers[o] = "standing" THEN "withdrawn" ELSE offers[o]]

Make(o, some) == /\ offers[o] = "unmade"
                 /\ offers' = [Without(some) EXCEPT ![o] = "standing"]
                 /\ UNCHANGED people

Withdraw(some) == /\ offers' = Without(some)
                  /\ UNCHANGED people

Take(o, p, others) == /\ offers[o] = "standing"
                      /\ p \notin people
                      /\ offers' = [Without(others) EXCEPT ![o] = "taken"]
                      /\ people' = people \cup {p}

Next ==
  \E some \in SUBSET Offer :
     \/ Withdraw(some)
     \/ \E o \in Offer : Make(o, some) \/ \E p \in Person : Take(o, p, some)

Spec == Init /\ [][Next]_vars
=============================================================================
