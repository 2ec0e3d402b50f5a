---------------------------- MODULE MCRoleBatch -----------------------------
(* Instances of RoleBatch for TLC. *)
EXTENDS RoleBatch, MCAuthority

\* Both custom roles, each losing or keeping the right to edit roles; and a right
\* their author was denied.
Swapped == {{}, {"role:update"}}

SomeDrafts ==
  [{"editors", "writers"} -> Swapped] \cup {[x \in {"editors"} |-> {"secret"}]}

\* ann's rights come from two custom roles, one of which grants everything.
WideEditors ==
  Granting([owner |-> Keys, editors |-> Keys, writers |-> {"role:update"}])
=============================================================================
