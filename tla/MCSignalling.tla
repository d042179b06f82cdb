---------------------------- MODULE MCSignalling ----------------------------
(* Small instances of Signalling for TLC. *)
EXTENDS Signalling, TLC

Symmetry == Permutations(Requests) \cup Permutations(Streams)
                \cup Permutations(Ufrags)

=============================================================================
