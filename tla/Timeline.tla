------------------------------ MODULE Timeline ------------------------------
(***************************************************************************)
(* What rollback promises the fight: the state is what one gets by feeding *)
(* the inputs to the simulation one after the other, and going back to a   *)
(* frame gives exactly the state that frame had.                           *)
(***************************************************************************)
EXTENDS Sequences, Naturals

CONSTANT Inputs
VARIABLES state,      \* the inputs the state comes from
          now         \* the number of the frame

vars == <<state, now>>

Init == state = <<>> /\ now = 0

Prefix(n) == SubSeq(state, 1, n)

\* A frame is simulated from the present, or from a state gone back to.
Simulate ==
    \E n \in 0 .. Len(state), i \in Inputs :
        /\ state' = Append(Prefix(n), i)
        /\ now' = n + 1

GoBack == \E n \in 0 .. Len(state) : state' = Prefix(n) /\ now' = n

Next == Simulate \/ GoBack

Spec == Init /\ [][Next]_vars
=============================================================================
