--------------------------- MODULE MCSingleFlight ---------------------------
(* Instances of SingleFlight for TLC. *)
EXTENDS SingleFlight, TLC

RequestSymmetry == Permutations(Requests)

\* All calls are for one key.
OneKey == {[r \in Requests |-> k] : k \in Keys}

=============================================================================
