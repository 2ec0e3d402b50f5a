---------------------------- MODULE MCAuthority ----------------------------
(* Organizations small enough to explore: who holds what at the start.     *)
EXTENDS Authority, TLC

Holding(rolesOf) ==
  [u \in Users |-> [x \in Roles |-> IF x \in rolesOf[u] THEN "lasting" ELSE "none"]]

Granting(keysOf) == [x \in Roles |-> IF x \in DOMAIN keysOf THEN keysOf[x] ELSE {}]

\* Registration gives root the organization and no role.  ann administers, bob holds nothing.
OneAdministrator == Holding([root |-> {}, ann |-> {"admin"}, bob |-> {}])

\* The same, until a moment to come.
AdministersForAWhile ==
  [Holding([root |-> {}, ann |-> {}, bob |-> {}]) EXCEPT !["ann"]["admin"] = "temporary"]

\* The owner has given the `owner' role to ann and to bob.
TwoOwners == Holding([root |-> {}, ann |-> {"owner"}, bob |-> {"owner"}])

\* ann's right to edit roles comes from two custom roles.
TwoCustomRoles == Holding([root |-> {}, ann |-> {"editors", "writers"}, bob |-> {}])

\* Provisioned roles only, with every key in `owner'.
SystemGrants == Granting([owner |-> Keys, admin |-> Keys])

\* An administrator role that may revoke roles and nothing else.
RevokingAdministrator == Granting([owner |-> Keys, admin |-> {"role:revoke"}])

\* One custom role besides.
CustomGrants ==
  Granting([owner |-> Keys, admin |-> Keys, editors |-> {"role:update"}])

TwoCustomGrants ==
  Granting([owner |-> Keys, editors |-> {"role:update"}, writers |-> {"role:update"}])

\* `secret' is in the administrator role and denied to ann.
NobodyDenied == [u \in Users |-> {}]
AnnDenied == [u \in Users |-> IF u = "ann" THEN {"secret"} ELSE {}]

\* Requests are alike.
Interchangeable == Permutations(Requests)
=============================================================================
