--------------------------- MODULE ControlRelay ---------------------------
(***************************************************************************)
(* The delayed control actions of a ControlRelay                           *)
(* (src/src/griddyn/relays/ControlRelay.{h,cpp}).                          *)
(*                                                                         *)
(* A SET or GET message becomes an entry of the vector actions and a       *)
(* function adapter that names the entry by its index.  An immediate       *)
(* action runs at once; any other adapter goes to the event queue of the   *)
(* simulation, which is reduced here to what the relay sees of it: a pass  *)
(* A that runs the due SET adapters in time order and erases them, and a   *)
(* pass B that runs the due GET adapters, which are DELAYED (module        *)
(* EventQueue has the queue in full).  Messages arrive while no pass holds *)
(* the lock of the queue.  measureDelay is zero: nothing ever sets it.     *)
(***************************************************************************)
EXTENDS Integers, Sequences, FiniteSets

CONSTANTS
    ActionDelay,   \* actionDelay
    Kinds,         \* which of the requests below are sent to the relay
    ClientIds,     \* the action ids clients choose, each for one request
    MaxRequests,   \* bound: messages that the relay receives
    Horizon        \* bound: the last time at which anything happens

RequestKinds == {"SET now", "SET", "GET now", "GET", "CANCEL", "other"}

ASSUME RelayAssumption ==
    /\ ActionDelay \in Nat /\ Horizon \in Nat /\ MaxRequests \in Nat
    /\ Kinds \subseteq RequestKinds
    /\ ClientIds \subseteq Nat \ {0}

VARIABLES
    prevTime,            \* time of the relay: setState and timestep carry the
                         \* simulation's time to it before events execute
    instructionCounter,  \* messages received
    actions,             \* the vector of DelayedControlAction
    queue,               \* the relay's adapters in the event queue
    partB,               \* the ones that wait for pass B
    phase,               \* where the driver of the queue is
    erasing,             \* pass A has met an adapter to erase
    \* history, read by the properties only
    issued,              \* ids that clients have used
    due,                 \* request -> the time its action is to be taken
    ranAt,               \* request -> the times at which its action was taken
    cancelled            \* requests whose client was told CANCEL_SUCCESS

driver  == <<prevTime, phase>>
history == <<issued, due, ranAt, cancelled>>
vars == <<driver, instructionCounter, actions, queue, partB, erasing, history>>

Request == 1..MaxRequests
Time    == 0..(Horizon + ActionDelay)
Slots   == 1..Len(actions)

\* A default DelayedControlAction: executed is true, so that it is free.
FreeAction == [actionID |-> 0, triggerTime |-> 0, executed |-> TRUE,
               measure |-> FALSE, request |-> 0]

\* An adapter keeps the index of its action.  done is m_remove_event.
Adapter(act, n, t, isGet) ==
    [act |-> act, request |-> n, time |-> t, get |-> isGet, done |-> FALSE]

Init ==
    /\ prevTime = 0 /\ instructionCounter = 0
    /\ actions = <<>> /\ queue = {} /\ partB = {}
    /\ phase = "idle" /\ erasing = FALSE
    /\ issued = {} /\ cancelled = {}
    /\ due = [n \in Request |-> 0] /\ ranAt = [n \in Request |-> <<>>]

-----------------------------------------------------------------------------
(* The vector of actions.                                                  *)

Free == {i \in Slots : actions[i].executed}

\* Mutant of getFreeAction: the last entry is taken even if it is pending.
getFreeActionLast == IF Len(actions) > 0 THEN Len(actions) ELSE 1

\* The first executed entry, or the first of the entries that resize adds.
getFreeAction ==
    IF Free # {} THEN CHOOSE i \in Free : \A j \in Free : i <= j
    ELSE Len(actions) + 1

\* The vector with room for entry act.
Resized(act) ==
    IF act <= Len(actions) THEN actions
    ELSE [i \in 1..((Len(actions) + 1) * 2) |->
            IF i <= Len(actions) THEN actions[i] ELSE FreeAction]

\* The first entry with the id, whether or not it is executed.
findAction(id) ==
    LET found == {i \in Slots : actions[i].actionID = id}
    IN  {i \in found : \A j \in found : i <= j}

-----------------------------------------------------------------------------
(* executeAction                                                           *)

\* Mutant of ranOnce: the entry is not marked.
ranOnceUnset(acts, act) ==
    /\ actions' = acts
    /\ ranAt' = IF acts[act].executed THEN ranAt
                ELSE [ranAt EXCEPT ![acts[act].request] = Append(@, prevTime)]

\* executeAction: an entry that is executed already is left alone.  The
\* answers GET_RESULT, SET_SUCCESS and SET_FAIL change nothing here.
ranOnce(acts, act) ==
    /\ actions' = [acts EXCEPT ![act].executed = TRUE]
    /\ ranAt' = IF acts[act].executed THEN ranAt
                ELSE [ranAt EXCEPT ![acts[act].request] = Append(@, prevTime)]

-----------------------------------------------------------------------------
(* receiveMessage, one action for each branch.                             *)

\* ++instructionCounter; the client may leave the choice of id to the relay.
Receive(kind) ==
    /\ kind \in Kinds /\ phase \in {"idle", "between"}
    /\ instructionCounter < MaxRequests
    /\ instructionCounter' = instructionCounter + 1

Identified(id) ==
    /\ id \in (ClientIds \ issued) \cup {0}
    /\ issued' = IF id = 0 THEN issued ELSE issued \cup {id}

\* generateSetEvent and generateGetEvent up to the adapter
Filled(act, id, t, isGet) ==
    [Resized(act) EXCEPT ![act] =
        [actionID |-> IF id > 0 THEN id ELSE instructionCounter',
         triggerTime |-> t, executed |-> FALSE, measure |-> isGet,
         request |-> instructionCounter']]

Enqueue(id, t, isGet) ==
    LET act == getFreeAction
    IN  /\ actions' = Filled(act, id, t, isGet)
        /\ queue' = queue \cup {Adapter(act, instructionCounter', t, isGet)}
        /\ due' = [due EXCEPT ![instructionCounter'] = t]
        /\ UNCHANGED ranAt

RunNow(id, isGet) ==
    LET act == getFreeAction
    IN  /\ due' = [due EXCEPT ![instructionCounter'] = prevTime]
        /\ ranOnce(Filled(act, id, prevTime, isGet), act)
        /\ UNCHANGED queue

\* SET with m_time <= prevTime
receiveSetNow(id) ==
    /\ Receive("SET now") /\ Identified(id)
    /\ IF ActionDelay = 0 THEN RunNow(id, FALSE)
                          ELSE Enqueue(id, prevTime + ActionDelay, FALSE)
    /\ UNCHANGED <<driver, partB, erasing, cancelled>>

\* Mutant of receiveSetScheduled: rootSim->add is forgotten.
receiveSetUnscheduled(id, t) ==
    /\ Receive("SET") /\ Identified(id)
    /\ t > prevTime
    /\ actions' = Filled(getFreeAction, id, t, FALSE)
    /\ due' = [due EXCEPT ![instructionCounter'] = t]
    /\ UNCHANGED <<driver, partB, erasing, cancelled, queue, ranAt>>

\* SET with a later m_time, which is answered with SET_SCHEDULED
receiveSetScheduled(id, t) ==
    /\ Receive("SET") /\ Identified(id)
    /\ t > prevTime
    /\ Enqueue(id, t, FALSE)
    /\ UNCHANGED <<driver, partB, erasing, cancelled>>

\* GET with m_time <= prevTime
receiveGetNow(id) ==
    /\ Receive("GET now") /\ Identified(id)
    /\ RunNow(id, TRUE)
    /\ UNCHANGED <<driver, partB, erasing, cancelled>>

\* GET with a later m_time
receiveGetScheduled(id, t) ==
    /\ Receive("GET") /\ Identified(id)
    /\ t > prevTime
    /\ Enqueue(id, t, TRUE)
    /\ UNCHANGED <<driver, partB, erasing, cancelled>>

\* Mutant of receiveCancel: the client is told of a success, but the entry
\* is not marked.
receiveCancelUnmarked(id) ==
    /\ Receive("CANCEL")
    /\ \E i \in findAction(id) :
            ~actions[i].executed /\ actions[i].triggerTime > ActionDelay
            /\ cancelled' = cancelled \cup {actions[i].request}
    /\ UNCHANGED <<driver, actions, queue, partB, erasing, issued, due, ranAt>>

\* CANCEL: success marks the entry executed and leaves its adapter queued.
receiveCancel(id) ==
    LET may == {i \in findAction(id) :
                    ~actions[i].executed /\ actions[i].triggerTime > ActionDelay}
    IN  /\ Receive("CANCEL")
        /\ actions' = [i \in Slots |-> IF i \in may
                            THEN [actions[i] EXCEPT !.executed = TRUE]
                            ELSE actions[i]]
        /\ cancelled' = cancelled \cup {actions[i].request : i \in may}
        /\ UNCHANGED <<driver, queue, partB, erasing, issued, due, ranAt>>

\* Any other message only counts.
receiveOther ==
    /\ Receive("other")
    /\ UNCHANGED <<driver, actions, queue, partB, erasing, history>>

-----------------------------------------------------------------------------
(* The event queue.                                                        *)

Earliest(q) == {e \in q : \A f \in q : e.time <= f.time}

\* The driver goes to the time of the front of the queue, or stops before it.
\* The front may lie in the past.
advance(t) ==
    /\ phase = "idle"
    /\ t <= Horizon
    /\ IF \E e \in Earliest(queue) : e.time <= t
         THEN \E e \in Earliest(queue) : e.time = t
         ELSE prevTime < t
    /\ prevTime' = t /\ phase' = "A"
    /\ UNCHANGED <<instructionCounter, actions, queue, partB, erasing, history>>

DueSets == {e \in queue : ~e.get /\ e.time <= prevTime}

\* Pass A runs a SET adapter: execute, m_remove_event, and the erase that
\* the end of the pass makes.
runSet(e) ==
    /\ phase = "A" /\ e \in Earliest(DueSets)
    /\ ranOnce(actions, e.act)
    /\ queue' = queue \ {e}
    /\ erasing' = TRUE
    /\ UNCHANGED <<driver, instructionCounter, partB, issued, due, cancelled>>

\* The end of pass A.  GET adapters that have run are erased only here, and
\* only when a SET adapter is; they have joined partB_list before.
endA ==
    /\ phase = "A" /\ DueSets = {}
    /\ partB' = {e \in queue : e.time <= prevTime}
    /\ queue' = IF erasing THEN {e \in queue : ~(e.time <= prevTime /\ e.done)}
                           ELSE queue
    /\ erasing' = FALSE /\ phase' = "between"
    /\ UNCHANGED <<prevTime, instructionCounter, actions, history>>

beginB ==
    /\ phase = "between" /\ phase' = "B"
    /\ UNCHANGED <<prevTime, instructionCounter, actions, queue, partB,
                   erasing, history>>

\* Pass B runs a GET adapter and does not erase it.
runGet(e) ==
    /\ phase = "B" /\ e \in Earliest(partB)
    /\ ranOnce(actions, e.act)
    /\ queue' = IF e \in queue THEN (queue \ {e}) \cup {[e EXCEPT !.done = TRUE]}
                               ELSE queue
    /\ partB' = partB \ {e}
    /\ UNCHANGED <<driver, instructionCounter, erasing, issued, due, cancelled>>

endB ==
    /\ phase = "B" /\ partB = {}
    /\ phase' = "idle"
    /\ UNCHANGED <<prevTime, instructionCounter, actions, queue, partB,
                   erasing, history>>

-----------------------------------------------------------------------------
Messages ==
    \/ \E id \in ClientIds \cup {0} :
            \/ receiveSetNow(id) \/ receiveGetNow(id)
            \/ \E t \in 1..Horizon :
                    receiveSetScheduled(id, t) \/ receiveGetScheduled(id, t)
    \/ \E id \in ClientIds \cup Request : receiveCancel(id)
    \/ receiveOther

Advance == \E t \in 0..Horizon : advance(t)

Passes == \/ endA \/ beginB \/ endB
          \/ \E e \in queue : runSet(e)
          \/ \E e \in partB : runGet(e)

Next == Messages \/ Advance \/ Passes

Spec == Init /\ [][Next]_vars

\* The simulation keeps going to its next event and never stops in a pass.
FairSpec == Spec /\ WF_vars(Advance) /\ WF_vars(Passes)

-----------------------------------------------------------------------------
(* Properties                                                              *)

Taken(n) == Len(ranAt[n]) > 0

TypeOK ==
    /\ prevTime \in 0..Horizon
    /\ instructionCounter \in 0..MaxRequests
    /\ actions \in Seq([actionID : Nat, triggerTime : Time, executed : BOOLEAN,
                        measure : BOOLEAN, request : 0..MaxRequests])
    /\ queue \cup partB \subseteq
            [act : Slots, request : Request, time : Time, get : BOOLEAN,
             done : BOOLEAN]
    /\ phase \in {"idle", "A", "between", "B"} /\ erasing \in BOOLEAN
    /\ issued \subseteq ClientIds /\ cancelled \subseteq Request
    /\ due \in [Request -> Time] /\ ranAt \in [Request -> Seq(Time)]

\* The entry of an action that is still to be taken is not given to another
\* request, and an adapter that has not run will take it: an adapter in the
\* queue or in partB_list names the entry, at the entry's time.
PendingHasAdapter ==
    \A i \in Slots : ~actions[i].executed =>
        \E e \in queue \cup partB :
            /\ e.act = i /\ ~e.done
            /\ e.request = actions[i].request /\ e.time = actions[i].triggerTime

\* Every request that was accepted has been taken, has been cancelled or
\* still has its entry: reuse of entries loses none.
NoneLost ==
    \A n \in Request : due[n] > 0 =>
        \/ Taken(n) \/ n \in cancelled
        \/ \E i \in Slots : actions[i].request = n /\ ~actions[i].executed

\* No action is taken twice, although an entry may have several adapters.
AtMostOnce == \A n \in Request : Len(ranAt[n]) <= 1

\* A client that was told CANCEL_SUCCESS does not see the action taken, now
\* or later.
CancelledNeverTaken == \A n \in cancelled : ~Taken(n)

\* An action is taken at its triggerTime and not before.
NotBeforeDue ==
    \A n \in Request : \A k \in 1..Len(ranAt[n]) : ranAt[n][k] >= due[n]

\* What the clients of the relay can know of request n: its entry is the only
\* thing that stands for it while it is pending.
Pending(n) == \E i \in Slots : ~actions[i].executed /\ actions[i].request = n

clientStatus ==
    [n \in Request |-> IF Taken(n) THEN "taken"
                       ELSE IF n \in cancelled THEN "cancelled"
                       ELSE IF Pending(n) THEN "pending" ELSE "none"]

\* The table of entries, their reuse, the adapters that name entries by index
\* and the two passes of the queue implement RequestService.
Service == INSTANCE RequestService WITH status <- clientStatus
ImplementsService == Service!Spec

\* Every accepted request is eventually taken or cancelled.
EventuallyTaken ==
    \A n \in Request : (0 < due[n] /\ due[n] <= Horizon)
        ~> (Taken(n) \/ n \in cancelled)
=============================================================================
