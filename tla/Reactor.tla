------------------------------- MODULE Reactor -------------------------------
(***************************************************************************)
(* What the IOManager promises about a callback registered for an event of *)
(* a descriptor's context: at most one callback is armed for an event, it  *)
(* is handed to the scheduler at most once, and it is dropped only when    *)
(* the scheduler has been switched off.  No epoll, lock, table or thread.  *)
(***************************************************************************)
CONSTANTS Callbacks,
          Places     \* the pairs <<context, event>>

VARIABLES armed,     \* the registrations <<place, callback>> that may still be handed over
          handed,    \* the callbacks handed to the scheduler
          off        \* the scheduler takes no more tasks

reactorVars == <<armed, handed, off>>

Init == armed = {} /\ handed = {} /\ off = FALSE

Arm(p, c) == /\ c \notin handed /\ \A y \in armed : y[1] # p /\ y[2] # c
             /\ armed' = armed \cup {<<p, c>>}
             /\ UNCHANGED <<handed, off>>

Hand(y) == /\ armed' = armed \ {y}
           /\ handed' = handed \cup {y[2]}
           /\ UNCHANGED off

Drop(y) == /\ off
           /\ armed' = armed \ {y}
           /\ UNCHANGED <<handed, off>>

SwitchOff == off' = TRUE /\ UNCHANGED <<armed, handed>>

Next == \/ \E y \in armed : Hand(y) \/ Drop(y)
        \/ \E p \in Places, c \in Callbacks : Arm(p, c)
        \/ SwitchOff

Spec == Init /\ [][Next]_reactorVars
=============================================================================
