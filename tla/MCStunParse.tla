---------------------------- MODULE MCStunParse -----------------------------
(* Small instances of StunParse for TLC. *)
EXTENDS StunParse

\* Datagrams of every size up to a header and 32 bytes of attributes.
SmallSizes == 0..52

\* Every length that fits in one of them or is just too long, and the largest.
SmallLengths == 0..33 \cup {Width - 1}


=============================================================================
