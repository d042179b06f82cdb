----------------------------- MODULE MCUdpDemux -----------------------------
(* Small instances of UdpDemux for TLC. *)
EXTENDS UdpDemux, TLC

Symmetry == Permutations(Requests) \cup Permutations(Ufrags)
                \cup Permutations(Addrs)

=============================================================================
