------------------------- MODULE MCControlDispatcher -------------------------
(***************************************************************************)
(* Small instances of ControlDispatcher: the requests the callers build.   *)
(***************************************************************************)
EXTENDS ControlDispatcher, TLC

CONSTANTS d1, d2

MCDevice == {d1, d2}

(* A request without deadline and callback, one that may expire while it   *)
(* waits for its turn, for the gate or for the driver.                     *)
MCShapes ==
  {[device |-> d1, deadline |-> TimeMax, silent |-> TRUE],
   [device |-> d1, deadline |-> 1, silent |-> FALSE]}

(* For liveness: with and without deadline, an empty id, an unknown device *)
LiveShapes ==
  {[device |-> d1, deadline |-> TimeMax, silent |-> FALSE],
   [device |-> d1, deadline |-> 1, silent |-> FALSE],
   [device |-> NoDevice, deadline |-> TimeMax, silent |-> FALSE],
   [device |-> d2, deadline |-> TimeMax, silent |-> FALSE]}

Symmetry == Permutations(Request) \cup Permutations(Stopper)
=============================================================================
