--------------------------- MODULE MCEventQueue ---------------------------
(***************************************************************************)
(* Small instances of EventQueue.  A configuration chooses the adapters;   *)
(* their attributes are fixed here by name.                                *)
(***************************************************************************)
EXTENDS EventQueue

\* "null", "tick": the null event, which gets no period or one; "ev": an Event;
\* "rec": a delayed Collector; "fn": a function adapter that runs once; "ob1",
\* "ob2", "obd": adapters of one object, the last with a partBdelay.
MCKind == [a \in Adapter |->
    CASE a \in {"null", "tick"} -> "null"
      [] a \in {"ev", "rec"} -> "event"
      [] a = "fn" -> "function"
      [] OTHER -> "object"]

MCTarget == [a \in Adapter |-> IF a \in {"ob1", "ob2", "obd"} THEN "ob" ELSE a]
MCSource == {MCTarget[a] : a \in Adapter}
MCDelayed == Adapter \cap {"rec"}
MCPeriod == [a \in Adapter |-> IF a \in {"null", "ev", "fn"} THEN 0 ELSE 1]
MCPartBDelay == [a \in Adapter |-> IF a = "obd" THEN 1 ELSE 0]
=============================================================================
