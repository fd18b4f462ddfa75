---------------------------- MODULE EventQueue ----------------------------
(***************************************************************************)
(* The discrete event queue of a GridDyn simulation                        *)
(* (src/src/griddyn/events/EventQueue.{h,cpp}, EventAdapters.{h,cpp}) and  *)
(* the two ways the simulation drives it:                                  *)
(*   - executeEvents(t), as dynamicDAE does at every stop time;            *)
(*   - executeEventsAonly(t), a power flow, executeEventsBonly(), as       *)
(*     eventDrivenPowerflow does.                                          *)
(* Each pass holds queuelock_ from its first to its last step, so other    *)
(* users of the queue (insert, remove, recheck, nullEventTime) interleave  *)
(* only between passes.  Times are naturals; Inf is maxTime.               *)
(***************************************************************************)
EXTENDS Integers, Sequences, FiniteSets

CONSTANTS
    Adapter,     \* every EventAdapter that may be created
    Null,        \* the adapter of nullEvent
    Source,      \* the CoreObjects, Events and Collectors behind adapters
    Kind,        \* Adapter -> which subclass of EventAdapter it is
    Target,      \* Adapter -> Source, for the kinds "event" and "object"
    Delayed,     \* the adapters in EventExecutionMode::DELAYED (partB_only)
    Period,      \* period of an adapter, of a Collector, updatePeriod; of
                 \* the null event, the tStep of eventDrivenPowerflow
    PartBDelay,  \* partBdelay of an "object" adapter
    Tol,         \* timeTols
    Horizon,     \* bound: the stop time of the simulation
    Inf,         \* maxTime
    MaxPending,  \* bound: pending parts B a failed power flow may leave
    Failing      \* whether a power flow may fail

Kinds == {"null", "function", "event", "object"}

ASSUME AdapterAssumption ==
    /\ IsFiniteSet(Adapter) /\ Null \in Adapter
    /\ Kind \in [Adapter -> Kinds]
    /\ \A a \in Adapter : Kind[a] = "null" <=> a = Null
    /\ Target \in [Adapter -> Source]
    /\ Delayed \subseteq {a \in Adapter : Kind[a] \in {"function", "event"}}

ASSUME TimeAssumption ==
    /\ Tol \in Nat /\ Horizon \in Nat /\ Inf \in Nat /\ Inf > Horizon + Tol
    /\ Period \in [Adapter -> Nat]
    /\ \A a \in Adapter : Kind[a] = "object" => Period[a] > 0
    /\ \A a, b \in Adapter : Kind[a] = "object" /\ Kind[b] = "object"
            /\ Target[a] = Target[b] => Period[a] = Period[b]
    /\ PartBDelay \in [Adapter -> Nat]
    /\ MaxPending \in Nat /\ Failing \in BOOLEAN

VARIABLES
    clock,        \* currentTime of the simulation
    nullPeriod,   \* m_period of nullEvent
    events,       \* the vector of adapters
    partB,        \* partB_list
    nextTime,     \* m_nextTime of every adapter
    removeEvent,  \* m_remove_event
    partBturn,    \* partB_turn
    ownNext,      \* nextUpdateTime / triggerTime of the source itself
    ownLast,      \* lastUpdateTime of the source
    call,         \* the call the driver's current step makes or makes next
    pass,         \* the pass that holds queuelock_: "none", "A" or "B"
    pos,          \* iterator of the running pass
    removing,     \* the local removeEvents of executeEventsAonly
    \* history, read by the properties only
    owed,         \* adapters due when the last A pass took the lock that
                  \* have not been executed since
    fired,        \* how often an adapter that fires once did, up to 2
    created,      \* adapters that have been inserted: each is inserted once
    overtaken     \* adapters whose time recheck moved while their part B was
                  \* waiting

queue   == <<events, partB, nextTime, removeEvent, partBturn>>
sources == <<ownNext, ownLast>>
control == <<clock, nullPeriod, call, pass, pos, removing>>
history == <<owed, fired, created, overtaken>>
vars == <<queue, sources, control, history>>

Time == 0..Inf
Inserted == {events[i] : i \in 1..Len(events)}
Waiting  == {partB[i] : i \in 1..Len(partB)}
Plus(t, d) == IF t + d < Inf THEN t + d ELSE Inf
\* Next multiple of period p after time last, counted from time t.
After(t, p, last) ==
    IF last < t \/ t >= Inf THEN t ELSE Plus(t, ((last - t) \div p + 1) * p)

-----------------------------------------------------------------------------
(* The standard algorithms applied to the vector.                          *)

Injective(f) == \A x, y \in DOMAIN f : f[x] = f[y] => x = y

Perms(n) == {p \in [1..n -> 1..n] :
                Injective(p) /\ \A k \in 1..n : \E i \in 1..n : p[i] = k}

Reorder(s, p) == [i \in 1..Len(s) |-> s[p[i]]]

\* compareEventAdapters, as the order of a whole vector
Sorted(s, t) == \A i, j \in 1..Len(s) : i < j => t[s[i]] <= t[s[j]]

\* std::sort: any sorted arrangement.
SortOf(s, t) == {q \in {Reorder(s, p) : p \in Perms(Len(s))} : Sorted(q, t)}

\* std::stable_sort: the sorted arrangement that swaps no two equal times.
StableSortOf(s, t) ==
    {Reorder(s, p) : p \in
        {p \in Perms(Len(s)) : \A i, j \in 1..Len(s) : i < j =>
            \/ t[s[p[i]]] < t[s[p[j]]]
            \/ t[s[p[i]]] = t[s[p[j]]] /\ p[i] < p[j]}}

Increasing(K) == {f \in [1..Cardinality(K) -> K] :
                    \A i, j \in 1..Cardinality(K) : i < j => f[i] < f[j]}

\* Erasing every position outside K (std::remove_if, std::unique).
Keep(s, K) ==
    IF K = 1..Len(s) THEN {s}
    ELSE {[i \in 1..Cardinality(K) |-> s[f[i]]] : f \in Increasing(K)}

SameObject(a, b) ==
    Kind[a] = "object" /\ Kind[b] = "object" /\ Target[a] = Target[b]

\* std::unique of checkDuplicates: only a neighbour counts as a duplicate.
checkDuplicates(s) ==
    Keep(s, {i \in 1..Len(s) : i > 1 => ~SameObject(s[i - 1], s[i])})

-----------------------------------------------------------------------------
Idle == call = "idle" /\ pass = "none"

\* The calls of one step of the driver, in the order they follow each other.
Calls == {"idle", "executeEvents", "B first", "A", "A, powerflow", "powerflow", "B"}
Following == CASE call = "B first" -> "A"
               [] call = "A" -> "B"
               [] call = "A, powerflow" -> "powerflow"
               [] call = "powerflow" -> "B"
               [] OTHER -> "idle"

Init ==
    /\ clock = 0 /\ nullPeriod = 0
    /\ events = <<Null>> /\ partB = <<>>
    /\ nextTime = [a \in Adapter |-> Inf]
    /\ removeEvent = [a \in Adapter |-> FALSE]
    /\ partBturn = [a \in Adapter |-> FALSE]
    /\ ownNext = [s \in Source |-> Inf]
    /\ ownLast = [s \in Source |-> 0]
    /\ call = "idle" /\ pass = "none" /\ pos = 1 /\ removing = FALSE
    /\ owed = {}
    /\ fired = [a \in Adapter |-> 0] /\ created = {Null}
    /\ overtaken = {}

-----------------------------------------------------------------------------
(* Users of the queue.  They take queuelock_, hence pass = "none".         *)

\* Mutant of insert: the sort after push_back is forgotten.
insertUnsorted(a, t) ==
    /\ pass = "none"
    /\ a \notin created /\ created' = created \cup {a}
    /\ Kind[a] = "object" => t = ownNext[Target[a]]
    /\ ownNext' = IF Kind[a] = "event" THEN [ownNext EXCEPT ![Target[a]] = t]
                                       ELSE ownNext
    /\ nextTime' = [nextTime EXCEPT ![a] = t]
    /\ events' \in checkDuplicates(Append(events, a))
    /\ UNCHANGED <<partB, removeEvent, partBturn, ownLast, control,
                   owed, fired, overtaken>>

\* EventQueue::insert: push_back, sort, checkDuplicates.  An "event" gets
\* its trigger time t, a function adapter its time t; an object adapter
\* copies getNextUpdateTime().
insert(a, t) ==
    /\ pass = "none"
    /\ a \notin created /\ created' = created \cup {a}
    /\ Kind[a] = "object" => t = ownNext[Target[a]]
    /\ ownNext' = IF Kind[a] = "event" THEN [ownNext EXCEPT ![Target[a]] = t]
                                       ELSE ownNext
    /\ nextTime' = [nextTime EXCEPT ![a] = t]
    /\ \E q \in SortOf(Append(events, a), nextTime') :
            events' \in checkDuplicates(q)
    /\ UNCHANGED <<partB, removeEvent, partBturn, ownLast, control,
                   owed, fired, overtaken>>

\* EventAdapter::updateTime of every subclass.
updatedTime(a, own) ==
    IF Kind[a] \in {"event", "object"} THEN own[Target[a]] ELSE nextTime[a]

\* An object changes its nextUpdateTime and raises UPDATE_TIME_CHANGE, which
\* GridSimulation::alert turns into EventQueue::recheck.  Objects run between
\* the steps of the driver and in its power flow, between the passes, but not
\* between the passes of executeEvents.
changeUpdateTime(s, t) ==
    /\ pass = "none" /\ call \notin {"B first", "A", "B"}
    /\ \E a \in Adapter : Kind[a] = "object" /\ Target[a] = s
    /\ t > clock
    /\ ownNext' = [ownNext EXCEPT ![s] = t]
    /\ nextTime' = [a \in Adapter |-> IF a \in Inserted
                        THEN updatedTime(a, ownNext') ELSE nextTime[a]]
    /\ events' \in StableSortOf(events, nextTime')
    /\ overtaken' = {a \in Waiting : a \in overtaken \/ nextTime'[a] # nextTime[a]}
    /\ UNCHANGED <<partB, removeEvent, partBturn, ownLast, control,
                   owed, fired, created>>

\* EventQueue::remove.  The id of the null event is not known outside.
remove(a) ==
    /\ pass = "none"
    /\ a \in Inserted \ {Null}
    /\ events' \in Keep(events, {i \in 1..Len(events) : events[i] # a})
    /\ UNCHANGED <<partB, nextTime, removeEvent, partBturn, sources, control,
                   history>>

\* EventQueue::nullEventTime, then sort.  The period is set or kept.
nullEventTime(t, period) ==
    /\ Idle /\ t > clock
    /\ nextTime' = [nextTime EXCEPT ![Null] = t]
    /\ nullPeriod' = period
    /\ events' \in StableSortOf(events, nextTime')
    /\ UNCHANGED <<partB, removeEvent, partBturn, sources, clock, call, pass,
                   pos, removing, history>>

-----------------------------------------------------------------------------
(* The driver.  It never steps past getNextTime().                         *)

getNextTime == nextTime[events[1]]

Due(t) == t <= clock + Tol

StepTo(t) ==
    /\ t <= Horizon
    /\ t = getNextTime \/ (clock < t /\ t < getNextTime)
    /\ clock' = t
    /\ owed' = {}

\* One turn of dynamicDAE's main loop: currentTime = nextStop, executeEvents.
dynamicStep(t) ==
    /\ Idle /\ StepTo(t)
    /\ call' = "executeEvents"
    /\ UNCHANGED <<queue, sources, nullPeriod, pass, pos, removing,
                   fired, created, overtaken>>

\* One turn of eventDrivenPowerflow's loop.
powerflowStep(t) ==
    /\ Idle /\ StepTo(t)
    /\ call' = "A, powerflow"
    /\ UNCHANGED <<queue, sources, nullPeriod, pass, pos, removing,
                   fired, created, overtaken>>

\* EventQueue::executeEvents up to its first pass.
executeEvents ==
    /\ pass = "none" /\ call = "executeEvents"
    /\ call' = IF ~Due(getNextTime) THEN "idle"
               ELSE IF partB # <<>> THEN "B first" ELSE "A"
    /\ UNCHANGED <<queue, sources, clock, nullPeriod, pass, pos, removing,
                   history>>

\* powerflow(); a failure makes eventDrivenPowerflow return.
powerflow ==
    /\ pass = "none" /\ call = "powerflow"
    /\ \/ call' = Following
       \/ /\ Failing /\ Len(partB) <= MaxPending
          /\ call' = "idle"
    /\ UNCHANGED <<queue, sources, clock, nullPeriod, pass, pos, removing,
                   history>>

-----------------------------------------------------------------------------
(* execute(m_nextTime) of each subclass of EventAdapter.                   *)

FiresOnce(a) == Kind[a] \in {"function", "event"} /\ Period[a] = 0

\* An Event whose own time is later than its adapter's does not trigger.
Triggers(a) == Kind[a] = "event" => nextTime[a] >= ownNext[Target[a]]

Fire(a) == /\ fired' = [fired EXCEPT ![a] =
                    IF FiresOnce(a) /\ Triggers(a) /\ @ < 2 THEN @ + 1 ELSE @]
           /\ owed' = owed \ {a}

\* EventAdapter::execute
executeNull(a) ==
    /\ Kind[a] = "null"
    /\ nextTime' = [nextTime EXCEPT ![a] =
                        IF nullPeriod > 0 THEN Plus(@, nullPeriod) ELSE Inf]
    /\ UNCHANGED <<removeEvent, sources>>

\* FunctionEventAdapter::execute
executeFunction(a) ==
    /\ Kind[a] = "function"
    /\ IF Period[a] > 0
         THEN /\ nextTime' = [nextTime EXCEPT ![a] = Plus(@, Period[a])]
              /\ UNCHANGED removeEvent
         ELSE /\ removeEvent' = [removeEvent EXCEPT ![a] = TRUE]
              /\ UNCHANGED nextTime
    /\ UNCHANGED sources

\* EventTypeAdapter<shared_ptr<Y>>::execute.  An Event (period 0) that is
\* due triggers and disarms; a Collector moves to its next sample.  If the
\* source's own time is later, nothing triggers and the time is updated.
executeEvent(a) ==
    LET s == Target[a]
        isDue == nextTime[a] >= ownNext[s]
    IN  /\ Kind[a] = "event"
        /\ IF Period[a] = 0 /\ isDue
             THEN /\ removeEvent' = [removeEvent EXCEPT ![a] = TRUE]
                  /\ UNCHANGED <<nextTime, ownNext>>
             ELSE /\ ownNext' = IF Period[a] > 0 /\ isDue
                        THEN [ownNext EXCEPT
                                ![s] = After(@, Period[a], nextTime[a])]
                        ELSE ownNext
                  /\ nextTime' = [nextTime EXCEPT ![a] = ownNext'[s]]
                  /\ UNCHANGED removeEvent
        /\ UNCHANGED ownLast

\* Mutant of executeObject: the adapter always parks at maxTime.
executeObjectParked(a) ==
    /\ Kind[a] = "object"
    /\ ownNext' = [ownNext EXCEPT ![Target[a]] =
                        After(@, Period[a], ownLast[Target[a]])]
    /\ nextTime' = [nextTime EXCEPT ![a] = Inf]
    /\ UNCHANGED <<removeEvent, ownLast>>

\* EventTypeAdapter<CoreObject>::execute and CoreObject::updateB
executeObject(a) ==
    LET s == Target[a]
        time == After(ownNext[s], Period[a], ownLast[s])
    IN  /\ Kind[a] = "object"
        /\ ownNext' = [ownNext EXCEPT ![s] = time]
        /\ nextTime' = [nextTime EXCEPT ![a] =
                            IF time <= nextTime[a] THEN Inf ELSE time]
        /\ UNCHANGED <<removeEvent, ownLast>>

execute(a) ==
    /\ executeNull(a) \/ executeFunction(a) \/ executeEvent(a) \/ executeObject(a)
    /\ Fire(a)

TwoPart(a) == Kind[a] = "object" \/ a \in Delayed

-----------------------------------------------------------------------------
(* executeEventsAonly                                                      *)

\* The check of the front, the lock, and the start of the iteration.
beginA ==
    /\ pass = "none" /\ call \in {"A", "A, powerflow"}
    /\ IF Due(getNextTime)
         THEN /\ pass' = "A"
              /\ owed' = {a \in Inserted : Due(nextTime[a])}
              /\ UNCHANGED call
         ELSE /\ call' = Following
              /\ UNCHANGED <<pass, owed>>
    /\ UNCHANGED <<queue, sources, clock, nullPeriod, pos, removing,
                   fired, created, overtaken>>

AtDueEvent(a) ==
    /\ pass = "A" /\ pos <= Len(events) /\ a = events[pos]
    /\ Due(nextTime[a])
    /\ pos' = pos + 1

\* An event in one part, or part B of one whose delay has run out.
runInA(a) ==
    /\ AtDueEvent(a)
    /\ ~TwoPart(a) \/ partBturn[a]
    /\ execute(a)
    /\ partBturn' = [partBturn EXCEPT ![a] = FALSE]
    /\ removing' = (removing \/ removeEvent'[a])
    /\ UNCHANGED <<events, partB, clock, nullPeriod, call, pass,
                   created, overtaken>>

\* A delayed event only joins partB_list.
deferInA(a) ==
    /\ AtDueEvent(a)
    /\ a \in Delayed
    /\ partB' = Append(partB, a)
    /\ UNCHANGED <<events, nextTime, removeEvent, partBturn, sources,
                   clock, nullPeriod, call, pass, removing, history>>

\* executeA, for an object with the updateA of CoreObject (Relay has its own:
\* see module Relay); part B follows in partB_list or, with a
\* partBdelay, in the queue.
executeA(a) ==
    /\ AtDueEvent(a)
    /\ Kind[a] = "object" /\ ~partBturn[a]
    /\ ownLast' = [ownLast EXCEPT ![Target[a]] = nextTime[a]]
    /\ IF PartBDelay[a] > 0
         THEN /\ nextTime' = [nextTime EXCEPT ![a] = Plus(@, PartBDelay[a])]
              /\ partBturn' = [partBturn EXCEPT ![a] = TRUE]
              /\ owed' = owed \ {a}
              /\ UNCHANGED partB
         ELSE /\ partB' = Append(partB, a)
              /\ UNCHANGED <<nextTime, partBturn, owed>>
    /\ UNCHANGED <<events, removeEvent, ownNext, clock, nullPeriod, call, pass,
                   removing, fired, created, overtaken>>

EndOfA(K) ==
    /\ events' \in Keep(events, K)
    /\ pass' = "none" /\ pos' = 1 /\ removing' = FALSE /\ call' = Following
    /\ UNCHANGED <<partB, nextTime, removeEvent, partBturn, sources,
                   clock, nullPeriod, history>>

LoopDone == pos <= Len(events) => ~Due(nextTime[events[pos]])

\* Mutants of endA: nothing is erased; everything before the iterator is
\* erased; the iteration stops one event early.
endAKeepsAll == pass = "A" /\ LoopDone /\ EndOfA(1..Len(events))
endAErasesAll ==
    pass = "A" /\ LoopDone /\ EndOfA({i \in 1..Len(events) : ~removing \/ i >= pos})
endAEarly ==
    /\ pass = "A" /\ (pos < Len(events) => ~Due(nextTime[events[pos]]))
    /\ EndOfA({i \in 1..Len(events) :
                    ~(removing /\ i < pos /\ removeEvent[events[i]])})

\* The end of the loop: flagged events before the iterator are erased.
endA ==
    /\ pass = "A" /\ LoopDone
    /\ EndOfA({i \in 1..Len(events) :
                    ~(removing /\ i < pos /\ removeEvent[events[i]])})

-----------------------------------------------------------------------------
(* executeEventsBonly                                                      *)

beginB ==
    /\ pass = "none" /\ call \in {"B", "B first"}
    /\ pass' = "B"
    /\ UNCHANGED <<queue, sources, clock, nullPeriod, call, pos, removing,
                   history>>

runInB(a) ==
    /\ pass = "B" /\ pos <= Len(partB) /\ a = partB[pos]
    /\ execute(a)
    /\ pos' = pos + 1
    /\ UNCHANGED <<events, partB, partBturn, clock, nullPeriod, call, pass,
                   removing, created, overtaken>>

EndOfB == /\ pass = "B" /\ pos > Len(partB)
          /\ pass' = "none" /\ pos' = 1 /\ call' = Following
          /\ UNCHANGED <<nextTime, removeEvent, partBturn, sources,
                         clock, nullPeriod, removing, history>>

\* Mutants of endB: no sort; partB_list not cleared.
endBUnsorted == EndOfB /\ partB' = <<>> /\ events' = events
endBKeepsList == EndOfB /\ partB' = partB /\ events' \in StableSortOf(events, nextTime)

endB == EndOfB /\ partB' = <<>> /\ events' \in StableSortOf(events, nextTime)

-----------------------------------------------------------------------------
Pass == \/ beginA \/ endA \/ beginB \/ endB
        \/ \E a \in Adapter : runInA(a) \/ deferInA(a) \/ executeA(a) \/ runInB(a)

Driver == executeEvents \/ powerflow \/ Pass

Users == \/ \E a \in Adapter, t \in 0..Horizon \cup {Inf} : insert(a, t)
         \/ \E s \in Source, t \in 0..Horizon \cup {Inf} : changeUpdateTime(s, t)
         \/ \E a \in Adapter : remove(a)
         \/ \E t \in 0..Horizon, period \in {nullPeriod, Period[Null]} :
                nullEventTime(t, period)

Steps == \E t \in 0..Horizon : dynamicStep(t) \/ powerflowStep(t)

Next == Driver \/ Users \/ Steps

Spec == Init /\ [][Next]_vars

\* The simulation thread does not stop inside a step, and keeps taking steps
\* until the stop time.
FairSpec == Spec /\ WF_vars(Driver) /\ WF_vars(Steps)

-----------------------------------------------------------------------------
(* Properties                                                              *)

\* Every variable keeps its type, and the vector holds each adapter once.
TypeOK ==
    /\ clock \in 0..Horizon /\ nullPeriod \in Nat
    /\ events \in Seq(Adapter) /\ Injective(events)
    /\ partB \in Seq(Adapter)
    /\ nextTime \in [Adapter -> Time]
    /\ removeEvent \in [Adapter -> BOOLEAN]
    /\ partBturn \in [Adapter -> BOOLEAN]
    /\ ownNext \in [Source -> Time] /\ ownLast \in [Source -> Time]
    /\ call \in Calls
    /\ pass \in {"none", "A", "B"} /\ pos \in Nat \ {0} /\ removing \in BOOLEAN
    /\ owed \subseteq Adapter
    /\ fired \in [Adapter -> 0..2] /\ created \subseteq Adapter
    /\ overtaken \subseteq Adapter
    /\ Inserted \subseteq created

\* The null event stays in the vector through every erase, so that front(),
\* which getNextTime and executeEvents read unchecked, is always defined.
NullEventStays == Null \in Inserted

\* Between steps of the driver, getNextTime() is the time of the earliest
\* event in the queue, although the A pass leaves the vector unsorted.
FrontIsEarliest == Idle => \A a \in Inserted : getNextTime <= nextTime[a]

\* A step of the driver executes every event that was due when its A pass
\* took the lock, whatever was inserted or rechecked between the passes.
DueEventsServed == Idle => owed = {}

\* An event that fires once and is not delayed never fires a second time.
OneShotFiresOnce ==
    \A a \in Adapter \ Delayed : FiresOnce(a) => fired[a] <= 1

\* An event waits for its part B at most once, so one part A is never
\* followed by two parts B.
OnePartBPerPartA == Injective(partB)

\* An object adapter in the queue is never scheduled after the update time
\* its object asks for (unless it waits for a delayed part B).  There is one
\* exception: an object that asks for another time while its part B waits is
\* not updated at that time, its adapter is parked at maxTime.
NoLostUpdate ==
    Idle => \A a \in Inserted : Kind[a] = "object" /\ ~partBturn[a]
                => \/ nextTime[a] <= ownNext[Target[a]]
                   \/ a \in overtaken /\ nextTime[a] = Inf

\* No handler runs before the time its event is scheduled for, except a part B
\* that was waiting when its object asked for a later time.
NeverEarly ==
    [][\A a \in Adapter : runInA(a) \/ runInB(a) =>
            Due(nextTime[a]) \/ a \in overtaken]_vars

\* What is planned: the adapters in the vector that are not to be removed.  One
\* that is owed is planned for now, whatever time its object asks for.
Unflagged(S) == {a \in S : ~removeEvent[a]}
agenda == [a \in Unflagged(Inserted) |->
                IF a \in owed /\ ~Due(nextTime[a]) THEN clock ELSE nextTime[a]]

\* Where the step of the driver is: before the A pass, or in and after it.
phase ==
    IF Idle THEN "idle"
    ELSE IF pass = "none" /\ call \in {"executeEvents", "A", "A, powerflow"}
         THEN "called" ELSE "serving"

\* The vector with its sorts, the two passes, the list of parts B and the flags
\* implement an agenda of timed events.
Agenda == INSTANCE EventAgenda WITH
    owed <- Unflagged(owed),
    Twins <- {p \in Adapter \X Adapter : SameObject(p[1], p[2])},
    Movable <- {a \in Adapter : Kind[a] # "function"}
ImplementsAgenda == Agenda!Spec

\* An Event in the queue is eventually triggered, unless it is removed or
\* scheduled beyond the stop time.
EventsEventuallyFire ==
    \A a \in Adapter :
        (Kind[a] = "event" /\ Period[a] = 0 /\ a \in Inserted /\ nextTime[a] <= Horizon)
            ~> (a \notin Inserted)
=============================================================================
