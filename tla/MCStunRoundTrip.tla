-------------------------- MODULE MCStunRoundTrip ---------------------------
(* Small instances of StunRoundTrip for TLC. *)
EXTENDS StunRoundTrip

=============================================================================
