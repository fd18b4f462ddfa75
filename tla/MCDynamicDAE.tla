---------------------------- MODULE MCDynamicDAE ----------------------------
(***************************************************************************)
(* An event that runs once and a relay that is updated periodically.  A    *)
(* tick is timeTol; a small step has one tick and the probe two, as long   *)
(* as the period of the relay.                                             *)
(***************************************************************************)
EXTENDS DynamicDAE

MCPeriod == [e \in Adapters |-> IF e \in Objects THEN 2 ELSE 0]

MCStart == [e \in Adapters |-> IF e \in Objects THEN 2 ELSE 5]
=============================================================================
