-------------------------- MODULE RequestService --------------------------
(***************************************************************************)
(* What a ControlRelay promises the clients that send it requests          *)
(* (ControlRelay.h and the answers in ControlRelay.cpp): a request that is *)
(* accepted stays pending until its action is taken or its CANCEL succeeds,*)
(* and after that nothing happens to it any more.  One step concerns one   *)
(* request: serving one never disturbs another.  Module ControlRelay shows *)
(* that its table of reusable entries keeps this promise.                  *)
(***************************************************************************)
CONSTANT Request

VARIABLE status   \* what has become of each request

Status == {"none", "pending", "taken", "cancelled"}

Init == status = [n \in Request |-> "none"]

Becomes(n, from, to) ==
    /\ status[n] = from
    /\ status' = [status EXCEPT ![n] = to]

\* SET_SCHEDULED, the answer to a GET as well: the request waits for its time.
Accept(n) == Becomes(n, "none", "pending")

\* SET_SUCCESS, SET_FAIL, GET_RESULT at once
Answer(n) == Becomes(n, "none", "taken")

\* The same at the time of the request
Take(n) == Becomes(n, "pending", "taken")

\* CANCEL_SUCCESS
Cancel(n) == Becomes(n, "pending", "cancelled")

Next == \E n \in Request : Accept(n) \/ Answer(n) \/ Take(n) \/ Cancel(n)

Spec == Init /\ [][Next]_status
=============================================================================
