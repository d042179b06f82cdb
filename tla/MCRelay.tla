------------------------------ MODULE MCRelay -------------------------------
(* Small instances of Relay for TLC. *)
EXTENDS Relay

Symmetry == Permutations(Requests) \cup Permutations(Streams)
                \cup Permutations(Ufrags) \cup Permutations(Threads)

=============================================================================
