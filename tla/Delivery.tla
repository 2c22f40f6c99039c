------------------------------ MODULE Delivery ------------------------------
(***************************************************************************)
(* What the agent promises the host while its process lives: an item that  *)
(* was taken stays with the agent until the server has answered for it or  *)
(* a full buffer sheds it, once and for all, and a call that returns nil   *)
(* has been taken.                                                         *)
(***************************************************************************)
EXTENDS FiniteSets

CONSTANT Items

VARIABLES
    held,       \* items the agent answers for
    answered,   \* items the server accepted or rejected for good
    shed,       \* items a full buffer evicted
    acked       \* items whose call returned nil

vars == <<held, answered, shed, acked>>

Known == held \union answered \union shed

Init == held = {} /\ answered = {} /\ shed = {} /\ acked = {}

\* An item comes in, and may push others out.
Take(i, out) ==
    /\ i \notin Known
    /\ out \subseteq held
    /\ held' = (held \ out) \union {i}
    /\ shed' = shed \union out
    /\ UNCHANGED <<answered, acked>>

Ack(i) ==
    /\ i \in Known \ acked
    /\ acked' = acked \union {i}
    /\ UNCHANGED <<held, answered, shed>>

Answer(S) ==
    /\ S # {} /\ S \subseteq held
    /\ held' = held \ S
    /\ answered' = answered \union S
    /\ UNCHANGED <<shed, acked>>

Shed(S) ==
    /\ S # {} /\ S \subseteq held
    /\ held' = held \ S
    /\ shed' = shed \union S
    /\ UNCHANGED <<answered, acked>>

Next ==
    \/ \E i \in Items : Ack(i) \/ \E out \in SUBSET held : Take(i, out)
    \/ \E S \in SUBSET held : Answer(S) \/ Shed(S)

Spec == Init /\ [][Next]_vars

\* The promise: nothing acknowledged disappears (Flush, Stop).
Kept == acked \subseteq Known
=============================================================================
