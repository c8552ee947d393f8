-------------------------- MODULE MCDynamicScheduler --------------------------
EXTENDS DynamicScheduler

CONSTANTS g1, g2, g3, g4

(* How the four or three groups of a step are split over three instances.  *)
OneEach == [i \in Instances |-> <<{g1}, {g2}, {g3}>>[i + 1]]
FourInThree == [i \in Instances |-> <<{g1, g4}, {g2}, {g3}>>[i + 1]]
=============================================================================
