--------------------------- MODULE MCGatewayRuntime ---------------------------
(* A push and a poll driver, one or two publishers and sources; requests   *)
(* of the sources and one of a processor.                                  *)
EXTENDS GatewayRuntime, TLC

CONSTANTS r0, r1, r2

MCOrigin == [r \in Request |-> IF r = r0 THEN 0 ELSE IF r = r1 THEN 1 ELSE 2]

Symmetry == Permutations(Stopper)
=============================================================================
