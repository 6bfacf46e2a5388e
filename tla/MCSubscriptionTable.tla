------------------------- MODULE MCSubscriptionTable -------------------------
(* Small instances of SubscriptionTable for TLC. *)
EXTENDS SubscriptionTable, TLC

\* Connections are interchangeable: no definition tells one from another.
ConnSymmetry == Permutations(Conns)

=============================================================================
