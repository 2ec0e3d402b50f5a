--------------------------- MODULE MCSecondFactor ---------------------------
(* Instances of SecondFactor, and with it of RateLimiter, for TLC. *)
EXTENDS SecondFactor, TLC

Interchangeable == Permutations(Requests) \cup Permutations(Secrets) \cup Permutations(Batches)
=============================================================================
