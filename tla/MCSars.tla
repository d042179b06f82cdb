------------------------------- MODULE MCSars -------------------------------
(* A small instance of the whole process for TLC. *)
EXTENDS Sars

\* TLC compares states by this.  What it leaves out are histories that no step
\* and no property of the run reads, the sweep's and the fault's among them.
View ==
    <<sigVars, listening, SarsPeersAddrMaps, remote_addr,
      state, received, relay, capacity, fed, main, it, serving>>

=============================================================================
