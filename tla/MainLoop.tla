------------------------------ MODULE MainLoop ------------------------------
(***************************************************************************)
(* The main function of sars (sars.cpp): it starts the two servers, then   *)
(* sweeps over SarsPeersUfragMaps once a second to run the timer of every  *)
(* peer.  A timer sends, and a send may block: the handlers of Signalling  *)
(* insert peers in the map while main holds an iterator to it.             *)
(*                                                                         *)
(* The names are numbers, in the order of the strings they stand for: the  *)
(* order in which std::map iterates.                                       *)
(***************************************************************************)
EXTENDS Signalling, FiniteSetsExt

ASSUME NamesAreOrdered == Ufrags \subseteq Nat

VARIABLES
    main,       \* where main stands: "boot", "asleep", or "sweep"
    it,         \* the name the iterator of the sweep is at
    present,    \* history: the names in the map when the sweep began
    ticked      \* history: the names whose timer this sweep has run

mainVars == <<main, it, present, ticked>>
sarsVars == <<sigVars, mainVars>>

Names == {u \in Ufrags : SarsPeersUfragMaps[u] # None}

MainTypeOK ==
    /\ TypeOK
    /\ main \in {"boot", "asleep", "sweep"}
    /\ it \in Ufrags \cup {None}
    /\ main = "sweep" <=> it # None
    /\ present \in SUBSET Ufrags
    /\ ticked \in SUBSET Names

MainInit ==
    /\ Init
    /\ main = "boot"
    /\ it = None
    /\ present = {}
    /\ ticked = {}

-----------------------------------------------------------------------------

\* The iterator moves to the first of the names, or past the last of them: the
\* sweep is over, and main sleeps.
MoveTo(names) ==
    IF names = {} THEN main' = "asleep" /\ it' = None
    ELSE main' = "sweep" /\ it' = Min(names)

\* The loop body begins: the range-based for starts at the first name.
BeginSweep ==
    /\ MoveTo(Names)
    /\ present' = Names
    /\ ticked' = {}

\* rtcServer->run() fails if the port is taken, and main returns.  The outcome
\* of signalling->run() is whatever value a function without a return statement
\* leaves behind: main returns, or enters its loop.  Nothing blocks before.
Boot ==
    /\ running
    /\ main = "boot"
    /\ \/ running' = FALSE /\ UNCHANGED mainVars
       \/ BeginSweep /\ UNCHANGED running
    /\ UNCHANGED <<phase, req, cacheVars, peerVars, scache, answered>>

\* st_usleep returns.
WakeUp ==
    /\ running
    /\ main = "asleep"
    /\ BeginSweep
    /\ UNCHANGED sigVars

\* Faulty variant: the iterator comes back to the first name after an insertion,
\* as it may in a table that rehashes.
OnTimerRestarts ==
    /\ running
    /\ main = "sweep"
    /\ ticked' = ticked \cup {it}
    /\ MoveTo(IF Names = present THEN {u \in Names : u > it} ELSE Names)
    /\ UNCHANGED <<sigVars, present>>

\* Faulty variant: the iterator is advanced twice.
OnTimerSkips ==
    /\ running
    /\ main = "sweep"
    /\ ticked' = ticked \cup {it}
    /\ MoveTo({u \in Names : u > it + 1})
    /\ UNCHANGED <<sigVars, present>>

\* OnTimer of the current peer returns, and the iterator moves on to the next
\* name of the map as it is now.
OnTimer ==
    /\ running
    /\ main = "sweep"
    /\ ticked' = ticked \cup {it}
    /\ MoveTo({u \in Names : u > it})
    /\ UNCHANGED <<sigVars, present>>

MainNext ==
    \/ Boot
    \/ WakeUp
    \/ OnTimer
    \/ main # "boot" /\ Next /\ UNCHANGED mainVars

\* The scheduler is first come, first served: main runs again when its send is
\* done or its sleep is over.
MainSpec ==
    /\ MainInit
    /\ [][MainNext]_sarsVars
    /\ WF_sarsVars(WakeUp)
    /\ WF_sarsVars(OnTimer)

-----------------------------------------------------------------------------
(***************************************************************************)
(* Properties.                                                             *)
(***************************************************************************)

\* A sweep runs the timer of every peer that was registered when it began, and
\* of none twice, whatever was inserted meanwhile and wherever
\* (sars.cpp:36-38).
SweepIsComplete ==
    /\ main = "asleep" => present \subseteq ticked
    /\ main = "sweep" => /\ \A u \in present : u < it <=> u \in ticked
                         /\ it \notin ticked

\* The timer of every registered peer runs again and again, even while requests
\* keep arriving, until the process ends.
TimersRun ==
    \A u \in Ufrags :
        u \in Names ~> (main = "sweep" /\ it = u) \/ ~running

=============================================================================
