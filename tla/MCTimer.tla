------------------------------- MODULE MCTimer -------------------------------
(***************************************************************************)
(* Small instances of Timer for TLC.  Users are interchangeable, and so    *)
(* are pollers.                                                            *)
(***************************************************************************)
EXTENDS Timer, TLC

\* The objects by address: the order of two timers that are due together.
MCTimers  == {1, 2}
MCPeriods == {1, 2}

\* The clock runs from 1 to 3 and an hour is 1: set back to 1, it may be before or within the
\* hour that precedes m_previouseTime, which does not wrap.
MCEarlier == {1}

MCSymmetry == Permutations(Users) \cup Permutations(Pollers)
=============================================================================
