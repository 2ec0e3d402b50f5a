---------------------------- MODULE MCEmployees -----------------------------
(* Instances of Employees for TLC. *)
EXTENDS Employees, TLC

Interchangeable == Permutations(People) \cup Permutations(Requests)

Appointments == {[Nothing EXCEPT !.manager = m] : m \in People \cup {None}}

Dates(h, t) == [Nothing EXCEPT !.hiredAt = h, !.terminatedAt = t]

\* An edit of one date, of both, and of a field of one's own, beside the appointments.
SomeEdits ==
  Appointments \cup {Dates(2, Unset), Dates(1, 2), [Nothing EXCEPT !.skills = 1]}
=============================================================================
