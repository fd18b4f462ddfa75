------------------------- MODULE EventQueuePairing -------------------------
(***************************************************************************)
(* Proofs that module EventQueue pairs the two parts of an event: an event *)
(* waits for its part B once, its handlers run when it is due, one that    *)
(* runs once runs once, no update is lost; and that the queue implements   *)
(* module EventAgenda.                                                     *)
(***************************************************************************)
EXTENDS EventQueueProofs, WellFoundedInduction

\* What execute() leaves alone: the other adapters.
LEMMA ExecuteFrame ==
    ASSUME TypeInv, NEW a \in Adapter, execute(a)
    PROVE  \A b \in Adapter \ {a} :
                fired'[b] = fired[b] /\ removeEvent'[b] = removeEvent[b]
<1> SUFFICES ASSUME NEW b \in Adapter \ {a}
             PROVE  fired'[b] = fired[b] /\ removeEvent'[b] = removeEvent[b]
  OBVIOUS
<1>1. fired \in [Adapter -> 0..2] /\ removeEvent \in [Adapter -> BOOLEAN]
  BY DEF TypeInv, TypeOK
<1>2. fired'[b] = fired[b]
  BY <1>1 DEF execute, Fire
<1>3. ASSUME executeNull(a) \/ executeObject(a) PROVE removeEvent' = removeEvent
  BY <1>3 DEF executeNull, executeObject
<1>4. ASSUME executeFunction(a) \/ executeEvent(a)
      PROVE  removeEvent' \in {removeEvent, [removeEvent EXCEPT ![a] = TRUE]}
  BY <1>4 DEF executeFunction, executeEvent
<1>5. removeEvent' \in {removeEvent, [removeEvent EXCEPT ![a] = TRUE]}
  BY <1>3, <1>4 DEF execute
<1>6. removeEvent'[b] = removeEvent[b]
  BY <1>1, <1>5
<1> QED BY <1>2, <1>6

\* An erase leaves nothing that was not at one of the positions kept.
LEMMA KeepOnly ==
    ASSUME NEW s \in Seq(Adapter), NEW K \in SUBSET (1..Len(s)), NEW q \in Keep(s, K),
           NEW i \in 1..Len(q), Len(q) \in Nat
    PROVE  \E k \in K : q[i] = s[k]
<1>1. CASE K = 1..Len(s)
  BY <1>1 DEF Keep
<1>2. CASE K # 1..Len(s)
  <2>1. PICK f \in Increasing(K) : q = [j \in 1..Cardinality(K) |-> s[f[j]]]
    BY <1>2 DEF Keep
  <2>2. f \in [1..Cardinality(K) -> K]
    BY <2>1 DEF Increasing
  <2>3. IsFiniteSet(K) /\ Cardinality(K) \in Nat
    <3>1. IsFiniteSet(1..Len(s))
      BY FS_Interval
    <3>2. IsFiniteSet(K)
      BY <3>1, FS_Subset
    <3> QED BY <3>2, FS_CardinalityType
  <2>4. Len(q) = Cardinality(K)
    BY <2>1, <2>3
  <2> QED BY <2>1, <2>2, <2>4
<1> QED BY <1>1, <1>2

-----------------------------------------------------------------------------
(* An event that runs once, and in one part.                               *)

Once(a) == a \in Adapter \ Delayed /\ FiresOnce(a)

\* While the A pass runs an event that has fired may still be in the vector:
\* then it lies behind the iterator and is flagged, and endA erases it.
Spent(a) ==
    /\ fired[a] <= 1 /\ a \notin {partB[i] : i \in 1..Len(partB)}
    /\ fired[a] = 1 => a \in created
    /\ fired[a] = 1 /\ a \in Inserted =>
            /\ pass = "A" /\ removing /\ removeEvent[a]
            /\ \E i \in 1..Len(events) : i < pos /\ events[i] = a

OnceInv == \A a \in Adapter : Once(a) => Spent(a)

\* Nothing has fired in a new queue.
LEMMA OnceInit == Init => OnceInv
BY DEF Init, OnceInv, Spent

\* A step outside the passes that fires nothing and inserts only what was
\* never created.
LEMMA OnceQuiet ==
    ASSUME TypeInv, OnceInv, pass = "none", fired' = fired, partB' = partB,
           created \subseteq created', Inserted' \cap created \subseteq Inserted
    PROVE  OnceInv'
BY DEF OnceInv, Spent, Once

\* OnceInv is inductive, whatever faults occur: one step for each action.
LEMMA OnceStep == TypeInv /\ OnceInv /\ [Next]_vars => OnceInv'
<1> SUFFICES ASSUME TypeInv, OnceInv, [Next]_vars PROVE OnceInv'
  OBVIOUS
<1>a. /\ events \in Seq(Adapter) /\ Injective(events) /\ pos \in Nat \ {0}
      /\ partB \in Seq(Adapter) /\ created \subseteq Adapter
      /\ Inserted \subseteq created /\ fired \in [Adapter -> 0..2]
      /\ removing \in BOOLEAN /\ removeEvent \in [Adapter -> BOOLEAN]
  BY DEF TypeInv, TypeOK
<1>b. ASSUME events' = events PROVE Inserted' = Inserted
  BY <1>b DEF Inserted
<1>1. ASSUME NEW a \in Adapter, NEW t \in 0..Horizon \cup {Inf}, insert(a, t)
      PROVE  OnceInv'
  <2>1. t \in Time
    BY TimeAssumption DEF Time
  <2>2. Inserted' \subseteq Inserted \cup {a}
    BY <1>1, <2>1, InsertVector
  <2> QED BY <1>1, <2>2, OnceQuiet DEF insert
<1>2. ASSUME NEW x \in Source, NEW t \in 0..Horizon \cup {Inf}, changeUpdateTime(x, t)
      PROVE  OnceInv'
  <2>1. nextTime' \in [Adapter -> Time]
    BY <1>2, TypeStep DEF TypeInv, TypeOK, Next, Users
  <2>2. Inserted' = Inserted
    BY <1>2, <2>1, StableVector DEF changeUpdateTime
  <2> QED BY <1>2, <2>2, OnceQuiet DEF changeUpdateTime, history
<1>3. ASSUME NEW a \in Adapter, remove(a) PROVE OnceInv'
  <2> DEFINE K == {i \in 1..Len(events) : events[i] # a}
  <2>1. events' \in Keep(events, K) /\ a # Null
    BY <1>3 DEF remove
  <2>2. \A i \in 1..Len(events) : events[i] = Null => i \in K
    BY <2>1
  <2>3. K \in SUBSET (1..Len(events))
    OBVIOUS
  <2> HIDE DEF K
  <2>4. Inserted' \subseteq Inserted
    BY <2>1, <2>2, <2>3, KeepVector
  <2> QED BY <1>3, <2>4, OnceQuiet DEF remove, history
<1>4. ASSUME NEW t \in 0..Horizon, NEW period \in {nullPeriod, Period[Null]}, nullEventTime(t, period) PROVE OnceInv'
  <2>1. nextTime' \in [Adapter -> Time]
    BY <1>4, TypeStep DEF TypeInv, TypeOK, Next, Users
  <2>2. Inserted' = Inserted
    BY <1>4, <2>1, StableVector DEF nullEventTime
  <2> QED BY <1>4, <2>2, OnceQuiet DEF nullEventTime, Idle, history
<1>5. ASSUME NEW t \in 0..Horizon, dynamicStep(t) \/ powerflowStep(t) PROVE OnceInv'
  BY <1>5, <1>b, OnceQuiet DEF dynamicStep, powerflowStep, Idle, queue
<1>6. CASE executeEvents \/ powerflow \/ beginB \/ beginA
  <2>1. pass = "none" /\ UNCHANGED <<events, partB, fired, created>>
    BY <1>6 DEF executeEvents, powerflow, beginB, beginA, queue, history
  <2> QED BY <1>b, <2>1, OnceQuiet
<1>7. ASSUME NEW a \in Adapter, runInA(a) PROVE OnceInv'
  <2>1. /\ pass = "A" /\ pos \in 1..Len(events) /\ events[pos] = a /\ pos' = pos + 1
        /\ execute(a) /\ removing' = (removing \/ removeEvent'[a])
        /\ ~TwoPart(a) \/ partBturn[a]
        /\ UNCHANGED <<events, partB, pass, created>>
    BY <1>7, <1>a DEF runInA, AtDueEvent
  <2> SUFFICES ASSUME NEW b \in Adapter, Once(b) PROVE Spent(b)'
    BY DEF OnceInv, Once
  <2>2. Spent(b)
    BY DEF OnceInv
  <2>3. CASE b # a
    <3>1. fired'[b] = fired[b] /\ removeEvent'[b] = removeEvent[b]
      BY <2>1, <2>3, ExecuteFrame
    <3>2. removing => removing'
      BY <2>1
    <3>3. \A i \in 1..Len(events) : i < pos => i < pos'
      BY <2>1, <1>a
    <3> QED BY <1>b, <2>1, <2>2, <3>1, <3>2, <3>3 DEF Spent
  <2>4. CASE b = a
    <3>1. fired[a] = 0
      <4>1. a \in Inserted
        BY <2>1 DEF Inserted
      <4>2. \A i \in 1..Len(events) : i < pos => events[i] # a
        BY <1>a, <2>1 DEF Injective
      <4>3. fired[a] # 1 /\ fired[a] <= 1 /\ fired[a] \in 0..2
        BY <1>a, <2>2, <2>4, <4>1, <4>2 DEF Spent
      <4> QED BY <4>3
    <3>2. fired' = [fired EXCEPT ![a] =
                IF FiresOnce(a) /\ Triggers(a) /\ @ < 2 THEN @ + 1 ELSE @]
      BY <2>1 DEF execute, Fire
    <3>3. fired'[a] = IF Triggers(a) THEN 1 ELSE 0
      BY <1>a, <2>4, <3>1, <3>2 DEF Once
    <3>4. Triggers(a) => removeEvent'[a]
      <4> SUFFICES ASSUME Triggers(a) PROVE removeEvent'[a]
        OBVIOUS
      <4>1. Period[a] = 0 /\ Kind[a] \in {"function", "event"}
        BY <2>4 DEF Once, FiresOnce
      <4>2. executeFunction(a) \/ executeEvent(a)
        BY <2>1, <4>1 DEF execute, executeNull, executeObject
      <4>3. CASE executeFunction(a)
        BY <1>a, <4>1, <4>3 DEF executeFunction
      <4>4. CASE executeEvent(a)
        BY <1>a, <4>1, <4>4 DEF executeEvent, Triggers
      <4> QED BY <4>2, <4>3, <4>4
    <3>5. a \in created
      BY <1>a, <2>1 DEF Inserted
    <3>6. pos < pos'
      BY <2>1, <1>a
    <3>7. fired'[a] <= 1 /\ (fired'[a] = 1 => Triggers(a))
      BY <3>3
    <3>8. a \notin {partB'[i] : i \in 1..Len(partB')}
      BY <2>1, <2>2, <2>4 DEF Spent
    <3>9. fired'[a] = 1 => removing' /\ removeEvent'[a]
      BY <2>1, <3>4, <3>7
    <3>10. \E i \in 1..Len(events') : i < pos' /\ events'[i] = a
      BY <2>1, <3>6
    <3> QED BY <2>1, <2>4, <3>5, <3>7, <3>8, <3>9, <3>10 DEF Spent
  <2> QED BY <2>3, <2>4
<1>8. ASSUME NEW a \in Adapter, deferInA(a) \/ executeA(a) PROVE OnceInv'
  <2>1. /\ pass = "A" /\ pass' = pass /\ pos' = pos + 1 /\ TwoPart(a)
        /\ partB' = partB \/ partB' = Append(partB, a)
        /\ UNCHANGED <<events, removeEvent, removing, fired, created>>
    BY <1>8 DEF deferInA, executeA, AtDueEvent, history, TwoPart
  <2>2. ~Once(a)
    BY <2>1 DEF Once, TwoPart, FiresOnce
  <2>3. {partB'[i] : i \in 1..Len(partB')} \subseteq {partB[i] : i \in 1..Len(partB)} \cup {a}
    <3>1. CASE partB' = partB
      BY <3>1
    <3>2. CASE partB' = Append(partB, a)
      <4>1. partB \in Seq(Adapter)
        BY <1>a
      <4>2. \A i \in 1..Len(partB') : partB'[i] = a \/ \E j \in 1..Len(partB) : partB'[i] = partB[j]
        BY <3>2, <4>1
      <4> QED BY <4>2
    <3> QED BY <2>1, <3>1, <3>2
  <2>4. \A i \in 1..Len(events) : i < pos => i < pos'
    BY <2>1, <1>a
  <2> QED BY <1>b, <2>1, <2>2, <2>3, <2>4 DEF OnceInv, Spent, Once
<1>9. CASE endA
  <2> DEFINE K == {i \in 1..Len(events) :
                    ~(removing /\ i < pos /\ removeEvent[events[i]])}
  <2>1. events' \in Keep(events, K) /\ K \in SUBSET (1..Len(events))
    BY <1>9 DEF endA, EndOfA
  <2>2. pass = "A" /\ UNCHANGED <<partB, fired, created>>
    BY <1>9 DEF endA, EndOfA, history
  <2>3. events' \in Seq(Adapter)
    BY <1>9, TypeStep DEF TypeInv, TypeOK, Next, Driver, Pass
  <2> SUFFICES ASSUME NEW b \in Adapter, Once(b) PROVE Spent(b)'
    BY DEF OnceInv, Once
  <2>4. Spent(b)
    BY DEF OnceInv
  <2>5. ASSUME fired[b] = 1, b \in Inserted' PROVE FALSE
    <3>1. PICK i \in 1..Len(events') : events'[i] = b
      BY <2>5 DEF Inserted
    <3>2. Len(events') \in Nat
      BY <2>3
    <3> HIDE DEF K
    <3>3. PICK k \in K : events'[i] = events[k]
      BY <1>a, <2>1, <3>2, KeepOnly
    <3> USE DEF K
    <3>4. k \in 1..Len(events) /\ events[k] = b
      BY <2>1, <3>1, <3>3
    <3>5. b \in Inserted
      BY <3>4 DEF Inserted
    <3>6. PICK j \in 1..Len(events) : j < pos /\ events[j] = b
      BY <2>4, <2>5, <3>5 DEF Spent
    <3>7. j = k
      BY <1>a, <3>4, <3>6 DEF Injective
    <3>8. removing /\ removeEvent[b]
      BY <2>4, <2>5, <3>5 DEF Spent
    <3> QED BY <3>3, <3>4, <3>6, <3>7, <3>8
  <2> QED BY <2>2, <2>4, <2>5 DEF Spent
<1>10. ASSUME NEW a \in Adapter, runInB(a) PROVE OnceInv'
  <2>1. /\ pass = "B" /\ pos \in 1..Len(partB) /\ a = partB[pos] /\ execute(a)
        /\ UNCHANGED <<events, partB, pass, created>>
    BY <1>10, <1>a DEF runInB
  <2>2. ~Once(a)
    BY <2>1 DEF OnceInv, Spent
  <2>3. \A b \in Adapter : Once(b) => fired'[b] = fired[b]
    BY <2>1, <2>2, ExecuteFrame
  <2>4. pass # "A"
    BY <2>1
  <2> QED BY <1>b, <2>1, <2>3, <2>4 DEF OnceInv, Spent, Once
<1>11. CASE endB
  <2>1. nextTime' \in [Adapter -> Time]
    BY <1>11, TypeStep DEF TypeInv, TypeOK, Next, Driver, Pass
  <2>2. nextTime' = nextTime
    BY <1>11 DEF endB, EndOfB
  <2>3. Inserted' = Inserted
    BY <1>11, <2>1, <2>2, StableVector DEF endB
  <2>4. pass = "B" /\ partB' = <<>> /\ UNCHANGED <<fired, created>>
    BY <1>11 DEF endB, EndOfB, history
  <2> QED BY <2>3, <2>4 DEF OnceInv, Spent, Once
<1>12. CASE UNCHANGED vars
  BY <1>12, <1>b DEF vars, queue, control, history, OnceInv, Spent, Once
<1> QED
  BY <1>1, <1>2, <1>3, <1>4, <1>5, <1>6, <1>7, <1>8, <1>9, <1>10, <1>11, <1>12
     DEF Next, Driver, Pass, Users, Steps

\* For any adapters and whatever faults occur: an event that runs once and is
\* not delayed never fires a second time, although the A pass leaves it in the
\* vector until its iteration ends.
THEOREM FiresOnceOnly == Spec => []OneShotFiresOnce
<1>1. Init => TypeInv /\ OnceInv
  BY TypeInit, OnceInit
<1>2. TypeInv /\ OnceInv /\ [Next]_vars => (TypeInv /\ OnceInv)'
  BY TypeStep, OnceStep
<1>3. OnceInv => OneShotFiresOnce
  BY DEF OnceInv, OneShotFiresOnce, Once, Spent
<1> QED BY <1>1, <1>2, <1>3, PTL DEF Spec

-----------------------------------------------------------------------------
(* The two parts of an event.                                              *)

\* partB_list is empty outside the two parts of a step.  It holds each event
\* once: those that the iterator of the A pass has left behind.
PairInv ==
    /\ Injective(partB) /\ call # "B first"
    /\ \A i \in 1..Len(partB) : partB[i] \in created
    /\ pass = "none" /\ ~AfterPartA => partB = <<>>
    /\ pass = "A" => \A i \in 1..Len(partB) :
            \E j \in 1..Len(events) : j < pos /\ events[j] = partB[i]

\* What waits for its part B is due, unless its object has moved it since.
Late(a) == Due(nextTime[a]) \/ a \in overtaken

LateInv ==
    /\ pass = "A" \/ AfterPartA => \A i \in 1..Len(partB) : Late(partB[i])
    /\ pass = "B" => \A i \in 1..Len(partB) : pos <= i => Late(partB[i])

\* The empty list has no positions.
LEMMA EmptyList == Injective(<<>>) /\ 1..Len(<<>>) = {}
<1>1. Len(<<>>) = 0 /\ DOMAIN <<>> = 1..0 /\ 1..0 = {}
  OBVIOUS
<1> QED BY <1>1 DEF Injective

\* partB_list is empty in a new queue.
LEMMA PairInit == Init => PairInv /\ LateInv
BY DEF Init, PairInv, LateInv, Late, Injective, AfterPartA

\* A step outside the passes that keeps partB_list and the place of the call.
LEMMA PairQuiet ==
    ASSUME PairInv, pass = "none", pass' = "none", partB' = partB,
           created \subseteq created', call' # "B first",
           AfterPartA' => AfterPartA \/ partB = <<>>,
           AfterPartA => AfterPartA'
    PROVE  PairInv'
BY DEF PairInv, AfterPartA, Injective

\* Appending the event at the iterator of the A pass.
LEMMA PairAppend ==
    ASSUME TypeInv, PairInv, NEW a \in Adapter, AtDueEvent(a),
           partB' = Append(partB, a), UNCHANGED <<events, pass, call, created>>
    PROVE  PairInv'
<1>1. /\ events \in Seq(Adapter) /\ Injective(events) /\ partB \in Seq(Adapter)
      /\ pos \in Nat \ {0} /\ Inserted \subseteq created
  BY DEF TypeInv, TypeOK
<1>2. /\ pass = "A" /\ pos \in 1..Len(events) /\ events[pos] = a /\ pos' = pos + 1
  BY <1>1 DEF AtDueEvent
<1>3. /\ partB' \in Seq(Adapter) /\ Len(partB') = Len(partB) + 1 /\ Len(partB) \in Nat
      /\ partB'[Len(partB) + 1] = a
      /\ \A i \in 1..Len(partB) : partB'[i] = partB[i]
      /\ DOMAIN partB' = 1..(Len(partB) + 1) /\ DOMAIN partB = 1..Len(partB)
  BY <1>1
<1>4. \A i \in 1..(Len(partB) + 1) : i \in 1..Len(partB) \/ i = Len(partB) + 1
  BY <1>3
<1>5. \A i \in 1..Len(partB) : partB[i] # a
  <2> SUFFICES ASSUME NEW i \in 1..Len(partB), partB[i] = a PROVE FALSE
    OBVIOUS
  <2>1. PICK j \in 1..Len(events) : j < pos /\ events[j] = a
    BY <1>2 DEF PairInv
  <2> QED BY <1>1, <1>2, <2>1 DEF Injective
<1>6. Injective(partB')
  <2> SUFFICES ASSUME NEW i \in 1..(Len(partB) + 1), NEW j \in 1..(Len(partB) + 1),
                      partB'[i] = partB'[j]
               PROVE  i = j
    BY <1>3 DEF Injective
  <2>1. CASE i \in 1..Len(partB) /\ j \in 1..Len(partB)
    <3>1. partB[i] = partB[j]
      BY <1>3, <2>1
    <3>2. Injective(partB)
      BY DEF PairInv
    <3> QED BY <1>3, <2>1, <3>1, <3>2 DEF Injective
  <2>2. CASE i = Len(partB) + 1 \/ j = Len(partB) + 1
    BY <1>3, <1>4, <1>5, <2>2
  <2> QED BY <1>4, <2>1, <2>2
<1>7. a \in created
  BY <1>1, <1>2 DEF Inserted
<1>8. \A i \in 1..Len(partB') : partB'[i] \in created'
  BY <1>3, <1>4, <1>7 DEF PairInv
<1>9. ASSUME NEW i \in 1..Len(partB')
      PROVE  \E j \in 1..Len(events') : j < pos' /\ events'[j] = partB'[i]
  <2>1. CASE i = Len(partB) + 1
    <3>1. pos < pos'
      BY <1>1, <1>2
    <3> QED BY <1>2, <1>3, <2>1, <3>1
  <2>2. CASE i \in 1..Len(partB)
    <3>1. PICK j \in 1..Len(events) : j < pos /\ events[j] = partB[i]
      BY <1>2, <2>2 DEF PairInv
    <3>2. j < pos'
      BY <1>1, <1>2, <3>1
    <3> QED BY <1>3, <2>2, <3>1, <3>2
  <2> QED BY <1>3, <1>4, <2>1, <2>2
<1>10. call' # "B first" /\ pass' = "A"
  BY <1>2 DEF PairInv
<1> QED BY <1>6, <1>8, <1>9, <1>10 DEF PairInv

\* PairInv is inductive as long as the power flow does not fail.
LEMMA PairStep ==
    ASSUME PowerflowSucceeds
    PROVE  TypeInv /\ DeliveryInv /\ PairInv /\ [Next]_vars => PairInv'
<1> SUFFICES ASSUME TypeInv, DeliveryInv, PairInv, [Next]_vars PROVE PairInv'
  OBVIOUS
<1>a. /\ events \in Seq(Adapter) /\ pos \in Nat \ {0} /\ partB \in Seq(Adapter)
  BY DEF TypeInv, TypeOK
<1>0. PassInCall
  BY DEF DeliveryInv
<1>1. ASSUME Users PROVE PairInv'
  <2>1. /\ pass = "none" /\ UNCHANGED <<pass, call, partB>>
        /\ created \subseteq created'
    BY <1>1 DEF Users, insert, changeUpdateTime, remove, nullEventTime, Idle,
                control, history
  <2> QED BY <2>1, PairQuiet DEF AfterPartA, PairInv
<1>2. ASSUME Steps PROVE PairInv'
  <2>1. /\ pass = "none" /\ call = "idle" /\ UNCHANGED <<pass, partB, created>>
        /\ call' \in {"executeEvents", "A, powerflow"}
    BY <1>2 DEF Steps, dynamicStep, powerflowStep, Idle, queue
  <2> QED BY <2>1, PairQuiet DEF AfterPartA
<1>3. CASE executeEvents
  <2>1. /\ pass = "none" /\ call = "executeEvents" /\ UNCHANGED <<pass, partB, created>>
        /\ partB = <<>>
    BY <1>3 DEF executeEvents, queue, history, PairInv, AfterPartA
  <2>2. call' \in {"idle", "A"}
    BY <1>3, <2>1 DEF executeEvents
  <2> QED BY <2>1, <2>2, PairQuiet DEF AfterPartA
<1>4. CASE powerflow
  <2>1. /\ pass = "none" /\ call = "powerflow" /\ UNCHANGED <<pass, partB, created>>
        /\ call' = "B"
    BY <1>4 DEF powerflow, queue, history, Following, PowerflowSucceeds
  <2> QED BY <2>1, PairQuiet DEF AfterPartA
<1>5. CASE beginA
  <2>1. /\ pass = "none" /\ call \in {"A", "A, powerflow"} /\ UNCHANGED <<partB, created>>
    BY <1>5 DEF beginA, queue
  <2>2. partB = <<>>
    BY <2>1 DEF PairInv, AfterPartA
  <2>3. \/ pass' = "A" /\ call' = call
        \/ pass' = "none" /\ call' \in {"B", "powerflow"}
    BY <1>5, <2>1 DEF beginA, Following
  <2> QED BY <2>1, <2>2, <2>3, EmptyList DEF PairInv, AfterPartA
<1>6. ASSUME NEW a \in Adapter, runInA(a) PROVE PairInv'
  <2>1. pass = "A" /\ pos' = pos + 1 /\ UNCHANGED <<events, partB, call, pass, created>>
    BY <1>6 DEF runInA, AtDueEvent
  <2>2. \A j \in 1..Len(events) : j < pos => j < pos'
    BY <1>a, <2>1
  <2> QED BY <2>1, <2>2 DEF PairInv
<1>7. ASSUME NEW a \in Adapter, deferInA(a) PROVE PairInv'
  BY <1>7, PairAppend DEF deferInA, history
<1>8. ASSUME NEW a \in Adapter, executeA(a) PROVE PairInv'
  <2>1. AtDueEvent(a) /\ UNCHANGED <<events, pass, call, created>>
    BY <1>8 DEF executeA
  <2>2. CASE partB' = Append(partB, a)
    BY <2>1, <2>2, PairAppend
  <2>3. CASE partB' = partB
    <3>1. pass = "A" /\ pos' = pos + 1
      BY <2>1 DEF AtDueEvent
    <3>2. \A j \in 1..Len(events) : j < pos => j < pos'
      BY <1>a, <3>1
    <3> QED BY <2>1, <2>3, <3>1, <3>2 DEF PairInv
  <2> QED BY <1>8, <2>2, <2>3 DEF executeA
<1>9. CASE endA
  <2>1. /\ pass = "A" /\ pass' = "none" /\ call' \in {"B", "powerflow"}
        /\ UNCHANGED <<partB, created>>
    BY <1>0, <1>9 DEF endA, EndOfA, history, Following, PassInCall
  <2> QED BY <2>1 DEF PairInv, AfterPartA
<1>10. CASE beginB
  <2>1. pass' = "B" /\ UNCHANGED <<call, partB, created>>
    BY <1>10 DEF beginB, queue, history
  <2> QED BY <2>1 DEF PairInv
<1>11. ASSUME NEW a \in Adapter, runInB(a) PROVE PairInv'
  <2>1. pass = "B" /\ UNCHANGED <<events, partB, pass, call, created>>
    BY <1>11 DEF runInB
  <2> QED BY <2>1 DEF PairInv
<1>12. CASE endB
  <2>1. partB' = <<>> /\ pass' = "none" /\ call' = "idle"
    BY <1>0, <1>12 DEF endB, EndOfB, Following, PassInCall, PairInv
  <2> QED BY <2>1, EmptyList DEF PairInv, AfterPartA
<1>13. CASE UNCHANGED vars
  <2>1. UNCHANGED <<events, partB, call, pass, pos, created>>
    BY <1>13 DEF vars, queue, control, history
  <2> QED BY <2>1 DEF PairInv, AfterPartA
<1> QED
  BY <1>1, <1>2, <1>3, <1>4, <1>5, <1>6, <1>7, <1>8, <1>9, <1>10, <1>11, <1>12, <1>13
     DEF Next, Driver, Pass

\* As long as no power flow fails between the two parts, one part A is never
\* followed by two parts B, whatever is inserted, removed or rechecked between.
THEOREM Pairing ==
    ASSUME PowerflowSucceeds
    PROVE  Spec => []OnePartBPerPartA
<1> DEFINE Inv == TypeInv /\ DeliveryInv /\ PairInv
<1>1. Init => Inv
  BY TypeInit, DeliveryInit, PairInit
<1>2. Inv /\ [Next]_vars => Inv'
  BY TypeStep, DeliveryStep, PairStep
<1>3. Inv => OnePartBPerPartA
  BY DEF PairInv, OnePartBPerPartA
<1> QED BY <1>1, <1>2, <1>3, PTL DEF Spec

\* A step that leaves partB_list alone and moves no event that is in it.
LEMMA LateQuiet ==
    ASSUME LateInv, partB' = partB, clock' = clock,
           \A i \in 1..Len(partB) : \/ partB[i] \in overtaken'
                                    \/ /\ nextTime'[partB[i]] = nextTime[partB[i]]
                                       /\ partB[i] \notin overtaken,
           pass' = "A" \/ AfterPartA' => pass = "A" \/ AfterPartA,
           pass' # "B"
    PROVE  LateInv'
BY DEF LateInv, Late, Due

\* LateInv is inductive as long as the power flow does not fail.
LEMMA LateStep ==
    ASSUME PowerflowSucceeds
    PROVE  TypeInv /\ DeliveryInv /\ PairInv /\ LateInv /\ [Next]_vars => LateInv'
<1> SUFFICES ASSUME TypeInv, DeliveryInv, PairInv, LateInv, [Next]_vars PROVE LateInv'
  OBVIOUS
<1>a. /\ events \in Seq(Adapter) /\ Injective(events) /\ pos \in Nat \ {0}
      /\ partB \in Seq(Adapter) /\ nextTime \in [Adapter -> Time]
      /\ Len(partB) \in Nat /\ \A i \in 1..Len(partB) : partB[i] \in Adapter
  BY DEF TypeInv, TypeOK
<1>0. PassInCall
  BY DEF DeliveryInv
<1>e. ASSUME partB' = <<>> PROVE LateInv'
  BY <1>e, EmptyList DEF LateInv
<1>n. ASSUME pass = "none", ~AfterPartA, partB' = partB PROVE LateInv'
  <2>1. partB = <<>>
    BY <1>n DEF PairInv
  <2> QED BY <1>e, <1>n, <2>1
<1>1. ASSUME NEW a \in Adapter, NEW t \in 0..Horizon \cup {Inf}, insert(a, t)
      PROVE  LateInv'
  <2>1. /\ pass = "none" /\ pass' = pass /\ partB' = partB /\ clock' = clock
        /\ a \notin created /\ nextTime' = [nextTime EXCEPT ![a] = t] /\ call' = call
        /\ overtaken' = overtaken
    BY <1>1 DEF insert, control
  <2>2. \A i \in 1..Len(partB) : nextTime'[partB[i]] = nextTime[partB[i]]
    BY <1>a, <2>1 DEF PairInv
  <2> QED BY <2>1, <2>2, LateQuiet DEF AfterPartA
<1>2. ASSUME NEW x \in Source, NEW t \in 0..Horizon \cup {Inf}, changeUpdateTime(x, t)
      PROVE  LateInv'
  <2>1. /\ pass = "none" /\ partB' = partB /\ UNCHANGED <<clock, pass, call>>
        /\ overtaken' = {a \in Waiting : a \in overtaken \/ nextTime'[a] # nextTime[a]}
    BY <1>2 DEF changeUpdateTime, control
  <2>2. \A i \in 1..Len(partB) : partB[i] \in Waiting
    BY DEF Waiting
  <2>3. \A i \in 1..Len(partB) : \/ partB[i] \in overtaken'
                                 \/ /\ nextTime'[partB[i]] = nextTime[partB[i]]
                                    /\ partB[i] \notin overtaken
    BY <2>1, <2>2
  <2> QED BY <2>1, <2>3, LateQuiet DEF AfterPartA
<1>3. ASSUME NEW a \in Adapter, remove(a) PROVE LateInv'
  BY <1>3, LateQuiet DEF remove, control, history, AfterPartA
<1>4. ASSUME NEW t \in 0..Horizon, NEW period \in {nullPeriod, Period[Null]}, nullEventTime(t, period) PROVE LateInv'
  BY <1>4, <1>n DEF nullEventTime, Idle, AfterPartA
<1>5. ASSUME Steps PROVE LateInv'
  BY <1>5, <1>n DEF Steps, dynamicStep, powerflowStep, Idle, AfterPartA, queue
<1>6. CASE executeEvents \/ beginA
  BY <1>6, <1>n DEF executeEvents, beginA, AfterPartA, queue
<1>7. CASE powerflow
  BY <1>7, LateQuiet DEF powerflow, AfterPartA, queue, history
<1>8. ASSUME NEW a \in Adapter, AtDueEvent(a), partB' = partB, clock' = clock,
             pass' = pass, overtaken' = overtaken,
             \A b \in Adapter \ {a} : nextTime'[b] = nextTime[b]
      PROVE  LateInv'
  <2>1. pass = "A" /\ pos \in 1..Len(events) /\ events[pos] = a
    BY <1>8, <1>a DEF AtDueEvent
  <2>2. ASSUME NEW i \in 1..Len(partB) PROVE partB[i] # a
    <3>1. PICK j \in 1..Len(events) : j < pos /\ events[j] = partB[i]
      BY <2>1 DEF PairInv
    <3> QED BY <1>a, <2>1, <3>1 DEF Injective
  <2> QED BY <1>8, <1>a, <2>1, <2>2, LateQuiet
<1>9. ASSUME NEW a \in Adapter, AtDueEvent(a), partB' = Append(partB, a),
             UNCHANGED <<clock, pass, nextTime, overtaken>>
      PROVE  LateInv'
  <2>1. pass = "A" /\ pass' = "A" /\ Due(nextTime[a])
    BY <1>9 DEF AtDueEvent
  <2>2. \A i \in 1..Len(partB') : partB'[i] = a \/ \E j \in 1..Len(partB) : partB'[i] = partB[j]
    BY <1>9, <1>a
  <2>3. \A i \in 1..Len(partB') : Late(partB'[i])
    BY <2>1, <2>2 DEF LateInv, Late
  <2> QED BY <1>9, <2>1, <2>3 DEF LateInv, Late, Due
<1>10. ASSUME NEW a \in Adapter, runInA(a) PROVE LateInv'
  <2>1. \A b \in Adapter \ {a} : nextTime'[b] = nextTime[b]
    BY <1>10, ExecuteType DEF runInA
  <2> QED BY <1>8, <1>10, <2>1 DEF runInA
<1>11. ASSUME NEW a \in Adapter, deferInA(a) PROVE LateInv'
  BY <1>9, <1>11 DEF deferInA, history
<1>12. ASSUME NEW a \in Adapter, executeA(a) PROVE LateInv'
  <2>1. AtDueEvent(a) /\ UNCHANGED <<clock, pass, overtaken>>
    BY <1>12 DEF executeA
  <2>2. CASE PartBDelay[a] > 0
    <3>1. partB' = partB /\ nextTime' = [nextTime EXCEPT ![a] = Plus(@, PartBDelay[a])]
      BY <1>12, <2>2 DEF executeA
    <3>2. \A b \in Adapter \ {a} : nextTime'[b] = nextTime[b]
      BY <1>a, <3>1
    <3> QED BY <1>8, <2>1, <3>1, <3>2
  <2>3. CASE ~(PartBDelay[a] > 0)
    BY <1>9, <1>12, <2>1, <2>3 DEF executeA
  <2> QED BY <2>2, <2>3
<1>13. CASE endA
  <2>1. /\ pass = "A" /\ pass' = "none"
        /\ UNCHANGED <<partB, clock, nextTime, overtaken>>
    BY <1>13 DEF endA, EndOfA, history
  <2> QED BY <2>1, LateQuiet
<1>14. CASE beginB
  <2>1. /\ pass = "none" /\ pass' = "B" /\ UNCHANGED <<partB, clock, nextTime, overtaken>>
        /\ call = "B"
    BY <1>14 DEF beginB, queue, history, PairInv
  <2> QED BY <2>1 DEF LateInv, Late, AfterPartA, Due
<1>15. ASSUME NEW a \in Adapter, runInB(a) PROVE LateInv'
  <2>1. /\ pass = "B" /\ pass' = "B" /\ pos \in 1..Len(partB) /\ a = partB[pos]
        /\ pos' = pos + 1 /\ UNCHANGED <<partB, clock, overtaken>>
    BY <1>15, <1>a DEF runInB
  <2>2. \A b \in Adapter \ {a} : nextTime'[b] = nextTime[b]
    BY <1>15, ExecuteType DEF runInB
  <2>3. ASSUME NEW i \in 1..Len(partB), pos' <= i
        PROVE  Due(nextTime'[partB[i]]) \/ partB[i] \in overtaken'
    <3>1. pos <= i /\ i # pos
      BY <1>a, <2>1, <2>3
    <3>2. partB[i] # a
      <4>1. Injective(partB)
        BY DEF PairInv
      <4>2. partB \in Seq(Adapter)
        BY <1>a
      <4>3. DOMAIN partB = 1..Len(partB)
        BY <4>2
      <4> QED BY <2>1, <3>1, <4>1, <4>3 DEF Injective
    <3>3. Due(nextTime[partB[i]]) \/ partB[i] \in overtaken
      BY <2>1, <3>1 DEF LateInv, Late
    <3> QED BY <1>a, <2>1, <2>2, <3>2, <3>3
  <2> QED BY <2>1, <2>3 DEF LateInv, Late, AfterPartA, Due
<1>16. CASE endB
  BY <1>16, <1>e DEF endB
<1>17. CASE UNCHANGED vars
  BY <1>17 DEF vars, queue, control, history, LateInv, Late, AfterPartA, Due
<1> QED
  BY <1>1, <1>2, <1>3, <1>4, <1>5, <1>6, <1>7, <1>10, <1>11, <1>12, <1>13, <1>14,
     <1>15, <1>16, <1>17 DEF Next, Driver, Pass, Users

\* As long as no power flow fails, no handler, of a part A or of a part B, runs
\* before the time of its event, unless its object has asked for a later time
\* while its part B was waiting.
THEOREM Punctual ==
    ASSUME PowerflowSucceeds
    PROVE  Spec => NeverEarly
<1> DEFINE Inv == TypeInv /\ DeliveryInv /\ PairInv /\ LateInv
<1>1. Init => Inv
  BY TypeInit, DeliveryInit, PairInit
<1>2. Inv /\ [Next]_vars => Inv'
  BY TypeStep, DeliveryStep, PairStep, LateStep
<1>3. Inv => [\A a \in Adapter : runInA(a) \/ runInB(a) =>
                    Due(nextTime[a]) \/ a \in overtaken]_vars
  <2> SUFFICES ASSUME Inv, NEW a \in Adapter, runInA(a) \/ runInB(a)
               PROVE  Due(nextTime[a]) \/ a \in overtaken
    OBVIOUS
  <2>1. CASE runInA(a)
    BY <2>1 DEF runInA, AtDueEvent
  <2>2. CASE runInB(a)
    <3>0. pos \in Nat \ {0} /\ Len(partB) \in Nat
      BY DEF TypeInv, TypeOK
    <3>1. pass = "B" /\ pos \in 1..Len(partB) /\ a = partB[pos] /\ pos <= pos
      BY <2>2, <3>0 DEF runInB
    <3> QED BY <3>1 DEF LateInv, Late
  <2> QED BY <2>1, <2>2
<1> QED BY <1>1, <1>2, <1>3, PTL DEF Spec, NeverEarly

-----------------------------------------------------------------------------
(* No update of an object is lost.                                         *)

\* Parts B of objects are not delayed (nothing in the repository sets
\* partBdelay), and an Event or a Collector is not the source of an object's
\* adapter.  (A part B whose delay reaches the period of its object finds the
\* next update not later than itself, and leaves the adapter at maxTime.)
Prompt ==
    /\ \A a \in Adapter : Kind[a] = "object" => PartBDelay[a] = 0
    /\ \A a, b \in Adapter : Kind[a] = "object" /\ Kind[b] = "event"
            => Target[a] # Target[b]

IsObject(a) == Kind[a] = "object"

\* The iterator of the B pass has not reached position i of partB_list.
Ahead(i) == i \in 1..Len(partB) /\ (pass = "B" => pos <= i)

\* The adapter is not late for the update its object asks for, or is parked
\* because the object asked while the part B was waiting.
InTime(a) == \/ nextTime[a] <= ownNext[Target[a]]
             \/ a \in overtaken /\ nextTime[a] = Inf

\* What waits for its part B had its part A no earlier than its time.
HadPartA(a) == nextTime[a] <= ownLast[Target[a]] \/ a \in overtaken

\* An object in the queue is in time for the update it asks for, and what waits
\* for its part B is not after what the A pass has still to visit.
AskedInv ==
    /\ \A a \in Inserted : IsObject(a) => InTime(a)
    /\ \A a \in Adapter : IsObject(a) => ~partBturn[a]
    /\ \A i \in 1..Len(partB) : Ahead(i) /\ IsObject(partB[i]) => HadPartA(partB[i])
    /\ pass = "A" => \A i \in 1..Len(partB), j \in 1..Len(events) :
            pos <= j => nextTime[partB[i]] <= nextTime[events[j]]

\* updateB never moves the update time back, and moves it past the update
\* that has had its part A.
LEMMA AfterGrows ==
    ASSUME NEW t \in Time, NEW p \in Nat \ {0}, NEW last \in Time
    PROVE  /\ t <= After(t, p, last)
           /\ last >= t /\ t < Inf => t < After(t, p, last)
<1>0. t \in Nat /\ t <= Inf /\ Inf \in Nat /\ last \in Nat
  BY TimeAssumption DEF Time
<1>1. CASE last < t \/ t >= Inf
  BY <1>0, <1>1 DEF After
<1>2. CASE ~(last < t \/ t >= Inf)
  <2> DEFINE k == (last - t) \div p + 1
  <2>1. (last - t) \div p \in Nat
    BY <1>0, <1>2
  <2>2. k \in Nat \ {0}
    BY <2>1
  <2>3. After(t, p, last) = Plus(t, k * p)
    BY <1>2 DEF After
  <2> HIDE DEF k
  <2> DEFINE d == k * p
  <2>4. d \in Nat /\ d > 0
    BY <2>2
  <2> HIDE DEF d
  <2>5. t < Plus(t, d)
    BY <1>0, <1>2, <2>4 DEF Plus
  <2>6. After(t, p, last) = Plus(t, d)
    BY <2>3 DEF d
  <2>7. After(t, p, last) \in Int
    BY <1>0, <2>4, <2>6 DEF Plus
  <2> QED BY <1>0, <2>5, <2>6, <2>7
<1> QED BY <1>1, <1>2

\* The queue is empty at first.
LEMMA AskedInit == Init => AskedInv
<1> SUFFICES ASSUME Init PROVE AskedInv
  OBVIOUS
<1>1. /\ events = <<Null>> /\ partB = <<>> /\ pass = "none"
      /\ \A a \in Adapter : ~partBturn[a]
  BY DEF Init
<1>2. Inserted = {Null}
  BY <1>1 DEF Inserted
<1>3. ~IsObject(Null)
  BY AdapterAssumption DEF IsObject
<1> QED BY <1>1, <1>2, <1>3, EmptyList DEF AskedInv

\* A step that moves no event and no object.
LEMMA AskedQuiet ==
    ASSUME AskedInv, Inserted' \subseteq Inserted,
           UNCHANGED <<nextTime, ownNext, ownLast, partBturn, partB, overtaken>>,
           \A i \in 1..Len(partB) : Ahead(i)' => Ahead(i), pass' # "A"
    PROVE  AskedInv'
BY DEF AskedInv, InTime, HadPartA, IsObject

\* With an empty partB_list only the first two parts matter.
LEMMA AskedEmpty ==
    ASSUME AskedInv, partB' = <<>>, partBturn' = partBturn,
           \A a \in Inserted' : IsObject(a) => InTime(a)'
    PROVE  AskedInv'
BY EmptyList DEF AskedInv, IsObject

\* insert: the new adapter copies the update time of its object.
LEMMA AskedInsert ==
    ASSUME Prompt, TypeInv, PairInv, AskedInv, NEW a \in Adapter, NEW t \in Time,
           insert(a, t)
    PROVE  AskedInv'
<1>1. /\ pass = "none" /\ a \notin created /\ nextTime' = [nextTime EXCEPT ![a] = t]
      /\ UNCHANGED <<pass, pos, partB, partBturn, ownLast, overtaken>>
      /\ IsObject(a) => t = ownNext[Target[a]]
      /\ ownNext' = IF Kind[a] = "event" THEN [ownNext EXCEPT ![Target[a]] = t] ELSE ownNext
  BY DEF insert, control, IsObject
<1>2. /\ nextTime \in [Adapter -> Time] /\ ownNext \in [Source -> Time]
      /\ Inserted \subseteq Adapter /\ Inserted \subseteq created
      /\ partB \in Seq(Adapter) /\ \A i \in 1..Len(partB) : partB[i] \in Adapter
  BY DEF TypeInv, TypeOK
<1>3. Inserted' \subseteq Inserted \cup {a}
  BY InsertVector
<1>4. \A b \in Adapter : Target[b] \in Source
  BY AdapterAssumption
<1>5. \A b \in Adapter : IsObject(b) => ownNext'[Target[b]] = ownNext[Target[b]]
  BY <1>1, <1>2, <1>4 DEF Prompt, IsObject
<1>6. \A i \in 1..Len(partB) : nextTime'[partB[i]] = nextTime[partB[i]]
  BY <1>1, <1>2 DEF PairInv
<1>7. ASSUME NEW b \in Inserted', IsObject(b) PROVE InTime(b)'
  <2>1. CASE b = a
    <3>1. nextTime'[a] = t /\ ownNext'[Target[a]] = t
      BY <1>1, <1>2, <1>5, <1>7, <2>1
    <3>2. t <= t
      BY TimeAssumption DEF Time
    <3> QED BY <2>1, <3>1, <3>2 DEF InTime
  <2>2. CASE b # a
    <3>1. b \in Inserted /\ b \in Adapter
      BY <1>2, <1>3, <2>2
    <3>2. nextTime'[b] = nextTime[b]
      BY <1>1, <1>2, <2>2, <3>1
    <3>3. InTime(b)
      BY <1>7, <3>1 DEF AskedInv
    <3> QED BY <1>1, <1>5, <1>7, <3>1, <3>2, <3>3 DEF InTime
  <2> QED BY <2>1, <2>2
<1>8. \A i \in 1..Len(partB) : Ahead(i)' <=> Ahead(i)
  BY <1>1 DEF Ahead
<1>9. IsObject(a)' <=> IsObject(a)
  BY DEF IsObject
<1>10. \A i \in 1..Len(partB) : Ahead(i) /\ IsObject(partB[i]) => HadPartA(partB[i])'
  BY <1>1, <1>6 DEF AskedInv, HadPartA
<1> QED BY <1>1, <1>7, <1>8, <1>10 DEF AskedInv, IsObject

\* The A pass leaves the event at its iterator behind without putting it in
\* partB_list: it is not an object.
LEMMA AskedPassed ==
    ASSUME TypeInv, PairInv, AskedInv, NEW a \in Adapter, AtDueEvent(a), ~IsObject(a),
           UNCHANGED <<events, partB, pass, ownLast, overtaken>>,
           \A b \in Adapter \ {a} : nextTime'[b] = nextTime[b],
           \A b \in Adapter : IsObject(b) => ownNext'[Target[b]] = ownNext[Target[b]]
                                          /\ (partBturn'[b] <=> partBturn[b])
    PROVE  AskedInv'
<1>1. /\ events \in Seq(Adapter) /\ Injective(events) /\ pos \in Nat \ {0}
      /\ Len(events) \in Nat /\ \A i \in 1..Len(events) : events[i] \in Adapter
      /\ DOMAIN events = 1..Len(events)
      /\ Inserted \subseteq Adapter /\ \A i \in 1..Len(partB) : partB[i] \in Adapter
  BY DEF TypeInv, TypeOK
<1>2. /\ pass = "A" /\ pos \in 1..Len(events) /\ events[pos] = a /\ pos' = pos + 1
  BY <1>1 DEF AtDueEvent
<1>3. \A j \in 1..Len(events) : pos' <= j => pos <= j /\ nextTime'[events[j]] = nextTime[events[j]]
  BY <1>1, <1>2 DEF Injective
<1>4. ASSUME NEW i \in 1..Len(partB) PROVE nextTime'[partB[i]] = nextTime[partB[i]]
  <2>1. PICK j \in 1..Len(events) : j < pos /\ events[j] = partB[i]
    BY <1>2 DEF PairInv
  <2>2. partB[i] # a
    BY <1>1, <1>2, <2>1 DEF Injective
  <2> QED BY <1>1, <2>2
<1>5. Inserted' = Inserted
  BY DEF Inserted
<1>6. \A b \in Inserted : IsObject(b) => InTime(b)'
  BY <1>1 DEF AskedInv, InTime
<1>7. \A i \in 1..Len(partB), j \in 1..Len(events) :
            pos' <= j => nextTime'[partB[i]] <= nextTime'[events[j]]
  BY <1>2, <1>3, <1>4 DEF AskedInv
<1>8. \A i \in 1..Len(partB) : IsObject(partB[i]) => HadPartA(partB[i])'
  BY <1>2, <1>4 DEF AskedInv, HadPartA, Ahead
<1> QED BY <1>2, <1>5, <1>6, <1>7, <1>8 DEF AskedInv, IsObject, Ahead

\* The event at the iterator of the A pass joins partB_list; the part A of an
\* object sets the time of its last update, no earlier than before.
LEMMA AskedDeferred ==
    ASSUME TypeInv, DeliveryInv, PairInv, AskedInv, NEW a \in Adapter, AtDueEvent(a),
           UNCHANGED <<events, pass, nextTime, ownNext, partBturn, overtaken>>,
           partB' = Append(partB, a),
           ownLast' = IF IsObject(a) THEN [ownLast EXCEPT ![Target[a]] = nextTime[a]]
                                     ELSE ownLast
    PROVE  AskedInv'
<1>1. /\ events \in Seq(Adapter) /\ pos \in Nat \ {0}
      /\ Len(events) \in Nat /\ \A i \in 1..Len(events) : events[i] \in Adapter
      /\ partB \in Seq(Adapter) /\ Len(partB) \in Nat
      /\ \A i \in 1..Len(partB) : partB[i] \in Adapter
      /\ nextTime \in [Adapter -> Time] /\ ownLast \in [Source -> Time]
  BY DEF TypeInv, TypeOK
<1>2. /\ pass = "A" /\ pos \in 1..Len(events) /\ events[pos] = a /\ pos' = pos + 1
  BY <1>1 DEF AtDueEvent
<1>3. /\ Len(partB') = Len(partB) + 1 /\ partB'[Len(partB) + 1] = a
      /\ \A i \in 1..Len(partB) : partB'[i] = partB[i]
      /\ \A i \in 1..(Len(partB) + 1) : i \in 1..Len(partB) \/ i = Len(partB) + 1
  BY <1>1
<1>4. Time \subseteq Int /\ \A b \in Adapter : nextTime[b] \in Time /\ Target[b] \in Source
  BY <1>1, TimeAssumption, AdapterAssumption DEF Time
<1>5. \A i \in 1..Len(partB) : nextTime[partB[i]] <= nextTime[a]
  <2>1. pos <= pos
    BY <1>1
  <2>2. \A i \in 1..Len(partB), j \in 1..Len(events) :
            pos <= j => nextTime[partB[i]] <= nextTime[events[j]]
    BY <1>2 DEF AskedInv
  <2>3. \A i \in 1..Len(partB) : nextTime[partB[i]] <= nextTime[events[pos]]
    BY <1>2, <2>1, <2>2
  <2> QED BY <1>2, <2>3
<1>6. ASSUME NEW i \in 1..Len(partB'), IsObject(partB'[i])
      PROVE  HadPartA(partB[i])'
  <2> DEFINE b == partB'[i]
  <2>1. b \in Adapter /\ nextTime[b] <= nextTime[a]
    <3>0. nextTime[a] \in Int
      BY <1>4
    <3>1. nextTime[a] <= nextTime[a]
      BY <3>0
    <3>2. (i \in 1..Len(partB) /\ b = partB[i]) \/ b = a
      BY <1>3
    <3> HIDE DEF b
    <3> QED BY <1>1, <1>5, <3>1, <3>2
  <2>2. CASE IsObject(a) /\ Target[b] = Target[a]
    <3>1. ownLast'[Target[b]] = nextTime[a]
      BY <1>1, <1>4, <2>1, <2>2
    <3> QED BY <2>1, <3>1 DEF HadPartA
  <2>3. CASE ~(IsObject(a) /\ Target[b] = Target[a])
    <3>1. ownLast'[Target[b]] = ownLast[Target[b]]
      BY <1>1, <1>4, <2>1, <2>3
    <3>2. i \in 1..Len(partB) /\ b = partB[i]
      BY <1>3, <1>6, <2>3
    <3>3. HadPartA(partB[i])
      BY <1>2, <1>6, <3>2 DEF AskedInv, Ahead
    <3> QED BY <3>1, <3>2, <3>3 DEF HadPartA
  <2> QED BY <2>2, <2>3
<1>7. ASSUME NEW i \in 1..Len(partB'), NEW j \in 1..Len(events), pos' <= j
      PROVE  nextTime[partB'[i]] <= nextTime[events[j]]
  <2>1. pos <= j /\ pos < j
    BY <1>1, <1>2, <1>7
  <2>2. CASE i \in 1..Len(partB)
    BY <1>2, <1>3, <2>1, <2>2 DEF AskedInv
  <2>3. CASE i = Len(partB) + 1
    <3>1. nextTime[events[pos]] <= nextTime[events[j]]
      <4>1. pos <= pos
        BY <1>1
      <4> QED BY <1>2, <2>1, <4>1 DEF DeliveryInv, OrderInv
    <3> QED BY <1>2, <1>3, <2>3, <3>1
  <2> QED BY <1>3, <2>2, <2>3
<1>8. Inserted' = Inserted
  BY DEF Inserted
<1> QED BY <1>6, <1>7, <1>8 DEF AskedInv, InTime, IsObject

\* Part B: the object's next update is later than the one whose part A ran, so
\* its adapter is not left at maxTime, unless the object has asked for another
\* time since.
LEMMA AskedRunInB ==
    ASSUME Prompt, TypeInv, TypeInv', PairInv, AskedInv, NEW a \in Adapter, runInB(a)
    PROVE  AskedInv'
<1>1. /\ pass = "B" /\ pass' = "B" /\ pos \in 1..Len(partB) /\ a = partB[pos]
      /\ pos' = pos + 1 /\ UNCHANGED <<partB, events, partBturn, overtaken>> /\ execute(a)
  BY DEF runInB, TypeInv, TypeOK
<1>2. /\ nextTime \in [Adapter -> Time] /\ ownNext \in [Source -> Time]
      /\ ownLast \in [Source -> Time] /\ pos \in Nat
      /\ partB \in Seq(Adapter) /\ \A i \in 1..Len(partB) : partB[i] \in Adapter
      /\ DOMAIN partB = 1..Len(partB) /\ Len(partB) \in Nat /\ Inserted \subseteq Adapter
  BY DEF TypeInv, TypeOK
<1>3. \A b \in Adapter : Target[b] \in Source
  BY AdapterAssumption
<1>4. \A b \in Adapter \ {a} : nextTime'[b] = nextTime[b]
  BY <1>1, ExecuteType
<1>5. ownLast' = ownLast
  BY <1>1 DEF execute, executeNull, executeFunction, executeEvent, executeObject, sources
<1>6. Inserted' = Inserted
  BY <1>1 DEF Inserted
<1>7. ASSUME NEW i \in 1..Len(partB), pos' <= i
      PROVE  Ahead(i) /\ nextTime'[partB[i]] = nextTime[partB[i]]
  <2>1. pos <= i /\ pos # i
    BY <1>1, <1>2, <1>7
  <2>2. partB[i] # a
    BY <1>1, <1>2, <2>1 DEF PairInv, Injective
  <2> QED BY <1>1, <1>2, <1>4, <2>1, <2>2 DEF Ahead
<1>8. \A i \in 1..Len(partB) : pos' <= i /\ IsObject(partB[i]) => HadPartA(partB[i])'
  BY <1>1, <1>5, <1>7 DEF AskedInv, HadPartA
<1>9. ASSUME \A b \in Inserted : IsObject(b) => InTime(b)'
      PROVE  AskedInv'
  BY <1>1, <1>6, <1>8, <1>9 DEF AskedInv, IsObject, Ahead
<1>10. CASE ~IsObject(a)
  <2>1. \A b \in Adapter : IsObject(b) => ownNext'[Target[b]] = ownNext[Target[b]]
    <3>1. CASE executeNull(a) \/ executeFunction(a)
      BY <3>1 DEF executeNull, executeFunction, sources
    <3>2. CASE executeEvent(a)
      <4>1. Kind[a] = "event" /\ \A x \in Source \ {Target[a]} : ownNext'[x] = ownNext[x]
        BY <1>2, <3>2 DEF executeEvent
      <4> QED BY <1>3, <4>1 DEF Prompt, IsObject
    <3> QED BY <1>1, <1>10, <3>1, <3>2 DEF execute, executeObject, IsObject
  <2>2. \A b \in Inserted : IsObject(b) => InTime(b)'
    BY <1>1, <1>2, <1>4, <1>10, <2>1 DEF AskedInv, InTime
  <2> QED BY <1>9, <2>2
<1>11. CASE IsObject(a)
  <2> DEFINE s == Target[a]
             time == After(ownNext[s], Period[a], ownLast[s])
  <2>1. s \in Source /\ Period[a] \in Nat \ {0}
    BY <1>3, <1>11, TimeAssumption DEF IsObject
  <2>2. executeObject(a)
    BY <1>1, <1>11 DEF execute, executeNull, executeFunction, executeEvent, IsObject
  <2>3. /\ ownNext' = [ownNext EXCEPT ![s] = time]
        /\ nextTime' = [nextTime EXCEPT ![a] = IF time <= nextTime[a] THEN Inf ELSE time]
    BY <2>2 DEF executeObject
  <2>4. time \in Time /\ ownNext[s] \in Time /\ ownLast[s] \in Time /\ nextTime[a] \in Time
    BY <1>2, <2>1, AfterType
  <2>5. /\ ownNext[s] <= time
        /\ ownLast[s] >= ownNext[s] /\ ownNext[s] < Inf => ownNext[s] < time
    BY <2>1, <2>4, AfterGrows
  <2> HIDE DEF time
  <2>6. HadPartA(a)
    <3>1. Ahead(pos)
      BY <1>1, <1>2 DEF Ahead
    <3> QED BY <1>1, <1>11, <3>1 DEF AskedInv
  <2>7. ASSUME NEW b \in Inserted, IsObject(b) PROVE InTime(b)'
    <3>0. InTime(b) /\ b \in Adapter /\ Target[b] \in Source
      BY <1>2, <1>3, <2>7 DEF AskedInv
    <3>1. CASE b = a
      <4>2. ownNext'[s] = time /\ nextTime'[a] = IF time <= nextTime[a] THEN Inf ELSE time
        BY <1>2, <2>1, <2>3
      <4>3. CASE a \in overtaken
        BY <1>1, <2>4, <3>1, <4>2, <4>3, TimeAssumption DEF InTime, Time
      <4>4. CASE a \notin overtaken
        <5>1. nextTime[a] <= ownNext[s] /\ nextTime[a] <= ownLast[s]
          BY <2>6, <3>0, <3>1, <4>4 DEF InTime, HadPartA
        <5>2. time <= nextTime[a] => time = Inf
          BY <2>4, <2>5, <5>1, TimeAssumption DEF Time
        <5>3. nextTime'[a] <= ownNext'[s]
          BY <2>4, <4>2, <5>2, TimeAssumption DEF Time
        <5> QED BY <3>1, <5>3 DEF InTime
      <4> QED BY <4>3, <4>4
    <3>2. CASE b # a /\ Target[b] = s
      <4>1. nextTime'[b] = nextTime[b] /\ ownNext'[Target[b]] = time
        BY <1>2, <1>4, <2>1, <2>3, <3>0, <3>2
      <4>2. nextTime[b] \in Time
        BY <1>2, <3>0
      <4>3. CASE nextTime[b] <= ownNext[s]
        <5>1. nextTime'[b] <= ownNext'[Target[b]]
          BY <2>4, <2>5, <4>1, <4>2, <4>3, TimeAssumption DEF Time
        <5> QED BY <5>1 DEF InTime
      <4>4. CASE b \in overtaken /\ nextTime[b] = Inf
        BY <1>1, <4>1, <4>4 DEF InTime
      <4> QED BY <3>0, <3>2, <4>3, <4>4 DEF InTime
    <3>3. CASE Target[b] # s
      <4>1. nextTime'[b] = nextTime[b] /\ ownNext'[Target[b]] = ownNext[Target[b]]
        BY <1>2, <1>4, <2>3, <3>0, <3>3
      <4> QED BY <1>1, <3>0, <4>1 DEF InTime
    <3> QED BY <3>1, <3>2, <3>3
  <2> QED BY <1>9, <2>7
<1> QED BY <1>10, <1>11

\* AskedInv is inductive as long as no power flow fails.
LEMMA AskedStep ==
    ASSUME PowerflowSucceeds, Prompt
    PROVE  TypeInv /\ TypeInv' /\ DeliveryInv /\ PairInv /\ AskedInv /\ [Next]_vars
                => AskedInv'
<1> SUFFICES ASSUME TypeInv, TypeInv', DeliveryInv, PairInv, AskedInv, [Next]_vars
             PROVE  AskedInv'
  OBVIOUS
<1>a. /\ nextTime \in [Adapter -> Time] /\ ownNext' \in [Source -> Time]
      /\ nextTime' \in [Adapter -> Time]
      /\ pos \in Nat \ {0} /\ Len(events) \in Nat /\ Inserted \subseteq Adapter
  BY DEF TypeInv, TypeOK
<1>0. PassInCall
  BY DEF DeliveryInv
<1>n. ASSUME pass = "none", ~AfterPartA PROVE partB = <<>>
  BY <1>n DEF PairInv
<1>1. ASSUME NEW a \in Adapter, NEW t \in 0..Horizon \cup {Inf}, insert(a, t)
      PROVE  AskedInv'
  <2>1. t \in Time
    BY TimeAssumption DEF Time
  <2> QED BY <1>1, <2>1, AskedInsert
<1>2. ASSUME NEW x \in Source, NEW t \in 0..Horizon \cup {Inf}, changeUpdateTime(x, t)
      PROVE  AskedInv'
  <2>1. /\ pass = "none" /\ UNCHANGED <<partB, partBturn, ownLast, pass, pos>>
        /\ events' \in StableSortOf(events, nextTime')
        /\ overtaken' = {b \in Waiting : b \in overtaken \/ nextTime'[b] # nextTime[b]}
    BY <1>2 DEF changeUpdateTime, control
  <2>2. \A b \in Adapter : nextTime'[b] = IF b \in Inserted THEN updatedTime(b, ownNext')
                                          ELSE nextTime[b]
    BY <1>2 DEF changeUpdateTime
  <2>3. Inserted' = Inserted
    BY <1>a, <2>1, StableVector
  <2>4. ASSUME NEW b \in Inserted', IsObject(b) PROVE InTime(b)'
    <3>1. b \in Inserted /\ b \in Adapter /\ Target[b] \in Source
      BY <1>a, <2>3, AdapterAssumption
    <3>2. nextTime'[b] = ownNext'[Target[b]]
      BY <2>2, <2>4, <3>1 DEF updatedTime, IsObject
    <3>3. ownNext'[Target[b]] \in Int
      BY <1>a, <3>1, TimeAssumption DEF Time
    <3> QED BY <3>2, <3>3 DEF InTime
  <2>5. ASSUME NEW i \in 1..Len(partB), IsObject(partB[i]) PROVE HadPartA(partB[i])'
    <3>1. HadPartA(partB[i]) /\ partB[i] \in Waiting
      BY <2>1, <2>5 DEF AskedInv, Ahead, Waiting
    <3> QED BY <2>1, <3>1 DEF HadPartA
  <2> QED BY <2>1, <2>4, <2>5 DEF AskedInv, IsObject
<1>3. ASSUME NEW a \in Adapter, remove(a) PROVE AskedInv'
  <2> DEFINE K == {i \in 1..Len(events) : events[i] # a}
  <2>1. /\ events' \in Keep(events, K) /\ a # Null /\ pass = "none"
        /\ UNCHANGED <<pass, pos, nextTime, ownNext, ownLast, partBturn, partB, overtaken>>
    BY <1>3 DEF remove, sources, control, history
  <2>2. \A i \in 1..Len(events) : events[i] = Null => i \in K
    BY <2>1
  <2>3. K \in SUBSET (1..Len(events))
    OBVIOUS
  <2> HIDE DEF K
  <2>4. Inserted' \subseteq Inserted
    BY <2>1, <2>2, <2>3, KeepVector
  <2> QED BY <2>1, <2>4, AskedQuiet DEF Ahead
<1>4. ASSUME NEW t \in 0..Horizon, NEW period \in {nullPeriod, Period[Null]}, nullEventTime(t, period) PROVE AskedInv'
  <2>1. /\ pass = "none" /\ call = "idle"
        /\ UNCHANGED <<partB, partBturn, ownNext, overtaken>>
        /\ nextTime' = [nextTime EXCEPT ![Null] = t]
        /\ events' \in StableSortOf(events, nextTime')
    BY <1>4 DEF nullEventTime, Idle, sources, history
  <2>2. Inserted' = Inserted
    BY <1>a, <2>1, StableVector
  <2>3. \A b \in Inserted' : IsObject(b) => InTime(b)'
    BY <1>a, <2>1, <2>2, AdapterAssumption DEF AskedInv, InTime, IsObject
  <2>4. partB' = <<>>
    BY <1>n, <2>1 DEF AfterPartA
  <2> QED BY <2>1, <2>3, <2>4, AskedEmpty
<1>5. CASE Steps \/ executeEvents \/ powerflow \/ beginB
  <2>1. /\ pass' \in {"none", "B"}
        /\ UNCHANGED <<events, nextTime, ownNext, ownLast, partBturn, partB, pos, overtaken>>
        /\ pos = 1 /\ pass = "none"
    BY <1>0, <1>5 DEF Steps, dynamicStep, powerflowStep, executeEvents, powerflow, beginB,
                      Idle, queue, sources, history, PassInCall
  <2>2. Inserted' = Inserted
    BY <2>1 DEF Inserted
  <2> QED BY <2>1, <2>2, AskedQuiet DEF Ahead
<1>6. CASE beginA
  <2>1. /\ pass = "none" /\ call \in {"A", "A, powerflow"}
        /\ UNCHANGED <<events, nextTime, ownNext, partBturn, partB, overtaken>>
    BY <1>6 DEF beginA, queue, sources
  <2>2. partB' = <<>>
    BY <1>n, <2>1 DEF AfterPartA
  <2>3. Inserted' = Inserted
    BY <2>1 DEF Inserted
  <2> QED BY <2>1, <2>2, <2>3, AskedEmpty DEF AskedInv, InTime
<1>7. ASSUME NEW a \in Adapter, runInA(a) PROVE AskedInv'
  <2>1. /\ AtDueEvent(a) /\ UNCHANGED <<events, partB, pass, overtaken>> /\ execute(a)
        /\ partBturn' = [partBturn EXCEPT ![a] = FALSE]
        /\ ~TwoPart(a) \/ partBturn[a]
    BY <1>7 DEF runInA
  <2>2. ~IsObject(a)
    BY <2>1 DEF AskedInv, TwoPart, IsObject
  <2>3. \A b \in Adapter \ {a} : nextTime'[b] = nextTime[b]
    BY <2>1, ExecuteType
  <2>4. ownLast' = ownLast
    BY <2>1 DEF execute, executeNull, executeFunction, executeEvent, executeObject, sources
  <2>5. \A b \in Adapter : IsObject(b) => ownNext'[Target[b]] = ownNext[Target[b]]
    <3>1. CASE executeNull(a) \/ executeFunction(a)
      BY <3>1 DEF executeNull, executeFunction, sources
    <3>2. CASE executeEvent(a)
      <4>1. Kind[a] = "event" /\ \A x \in Source \ {Target[a]} : ownNext'[x] = ownNext[x]
        BY <3>2 DEF executeEvent, TypeInv, TypeOK
      <4> QED BY <4>1, AdapterAssumption DEF Prompt, IsObject
    <3> QED BY <2>1, <2>2, <3>1, <3>2 DEF execute, executeObject, IsObject
  <2>6. \A b \in Adapter : IsObject(b) => (partBturn'[b] <=> partBturn[b])
    BY <2>1, <2>2 DEF TypeInv, TypeOK
  <2> QED BY <2>1, <2>2, <2>3, <2>4, <2>5, <2>6, AskedPassed
<1>8. ASSUME NEW a \in Adapter, deferInA(a) PROVE AskedInv'
  <2>1. ~IsObject(a)
    BY <1>8, AdapterAssumption DEF deferInA, IsObject
  <2> QED BY <1>8, <2>1, AskedDeferred DEF deferInA, sources, history
<1>9. ASSUME NEW a \in Adapter, executeA(a) PROVE AskedInv'
  <2>1. IsObject(a) /\ PartBDelay[a] = 0
    BY <1>9 DEF executeA, IsObject, Prompt
  <2>2. /\ AtDueEvent(a) /\ partB' = Append(partB, a)
        /\ ownLast' = [ownLast EXCEPT ![Target[a]] = nextTime[a]]
        /\ UNCHANGED <<events, pass, nextTime, ownNext, partBturn, overtaken>>
    BY <1>9, <2>1 DEF executeA
  <2> QED BY <2>1, <2>2, AskedDeferred
<1>10. CASE endA
  <2> DEFINE K == {i \in 1..Len(events) : ~(removing /\ i < pos /\ removeEvent[events[i]])}
  <2>1. /\ pass = "A" /\ pass' = "none" /\ events' \in Keep(events, K)
        /\ UNCHANGED <<nextTime, ownNext, ownLast, partBturn, partB, overtaken>>
    BY <1>10 DEF endA, EndOfA, sources, history
  <2>2. \A i \in 1..Len(events) : events[i] = Null => i \in K
    BY DEF TypeInv, NullKept
  <2>3. K \in SUBSET (1..Len(events))
    OBVIOUS
  <2> HIDE DEF K
  <2>4. Inserted' \subseteq Inserted
    BY <2>1, <2>2, <2>3, KeepVector
  <2> QED BY <2>1, <2>4, AskedQuiet DEF Ahead
<1>11. ASSUME NEW a \in Adapter, runInB(a) PROVE AskedInv'
  BY <1>11, AskedRunInB
<1>12. CASE endB
  <2>1. /\ partB' = <<>> /\ events' \in StableSortOf(events, nextTime')
        /\ UNCHANGED <<nextTime, ownNext, partBturn, overtaken>>
    BY <1>12 DEF endB, EndOfB, sources, history
  <2>2. Inserted' = Inserted
    BY <1>a, <2>1, StableVector
  <2> QED BY <2>1, <2>2, AskedEmpty DEF AskedInv, InTime
<1>13. CASE UNCHANGED vars
  <2>1. UNCHANGED <<events, partB, nextTime, ownNext, ownLast, partBturn, pass, pos,
                    overtaken>>
    BY <1>13 DEF vars, queue, sources, control, history
  <2>2. Inserted' = Inserted
    BY <2>1 DEF Inserted
  <2> QED BY <2>1, <2>2 DEF AskedInv, InTime, HadPartA, Ahead, IsObject
<1> QED
  BY <1>1, <1>2, <1>3, <1>4, <1>5, <1>6, <1>7, <1>8, <1>9, <1>10, <1>11, <1>12, <1>13
     DEF Next, Driver, Pass, Users

\* As long as no power flow fails and parts B of objects are not delayed, no
\* adapter of an object is scheduled after the update its object asks for,
\* however many adapters the object has and whatever is inserted, removed or
\* rechecked between the passes.  The one exception is an object that asks for
\* another time while its part B waits: its adapter may end at maxTime.
THEOREM UpdatesKept ==
    ASSUME PowerflowSucceeds, Prompt
    PROVE  Spec => []NoLostUpdate
<1> DEFINE Inv == TypeInv /\ DeliveryInv /\ PairInv /\ AskedInv
<1>1. Init => Inv
  BY TypeInit, DeliveryInit, PairInit, AskedInit
<1>2. Inv /\ [Next]_vars => Inv'
  BY TypeStep, DeliveryStep, PairStep, AskedStep
<1>3. Inv => NoLostUpdate
  BY DEF AskedInv, InTime, NoLostUpdate, IsObject
<1> QED BY <1>1, <1>2, <1>3, PTL DEF Spec

-----------------------------------------------------------------------------
(* The queue implements EventAgenda.                                       *)

\* Only an adapter that runs once is flagged, and only after it was inserted.
FlagInv ==
    \A a \in Adapter : removeEvent[a] =>
        a \in created /\ Kind[a] \in {"function", "event"}

\* What the passes have still to run is owed: the due events ahead of the
\* iterator of the A pass, and what waits for its part B.
DebtInv ==
    /\ pass = "A" => \A i \in 1..Len(events) :
            pos <= i /\ Due(nextTime[events[i]]) => events[i] \in owed
    /\ \A i \in 1..Len(partB) : Ahead(i) => partB[i] \in owed

\* execute() flags only what runs once, and takes no flag back.
LEMMA ExecuteFlags ==
    ASSUME TypeInv, NEW a \in Adapter, execute(a)
    PROVE  /\ removeEvent[a] => removeEvent'[a]
           /\ removeEvent'[a] => removeEvent[a] \/ Kind[a] \in {"function", "event"}
<1>1. removeEvent \in [Adapter -> BOOLEAN]
  BY DEF TypeInv, TypeOK
<1>2. ASSUME executeNull(a) \/ executeObject(a) PROVE removeEvent' = removeEvent
  BY <1>2 DEF executeNull, executeObject
<1>3. ASSUME executeFunction(a) \/ executeEvent(a)
      PROVE  /\ removeEvent' \in {removeEvent, [removeEvent EXCEPT ![a] = TRUE]}
             /\ Kind[a] \in {"function", "event"}
  BY <1>3 DEF executeFunction, executeEvent
<1>4. CASE executeNull(a) \/ executeObject(a)
  BY <1>2, <1>4
<1>5. CASE executeFunction(a) \/ executeEvent(a)
  BY <1>1, <1>3, <1>5
<1> QED BY <1>4, <1>5 DEF execute

\* The next multiple of a period after last lies after last.
LEMMA AfterPasses ==
    ASSUME NEW t \in Time, NEW p \in Nat \ {0}, NEW last \in Time, t <= last
    PROVE  last < After(t, p, last) \/ After(t, p, last) = Inf
<1>a. t \in Nat /\ last \in Nat /\ Inf \in Nat /\ t <= Inf
  BY TimeAssumption DEF Time
<1>b. CASE t >= Inf
  BY <1>a, <1>b DEF After
<1>c. CASE ~(t >= Inf)
  <2>0. t \in Nat /\ last \in Nat /\ Inf \in Nat /\ t < Inf
    BY <1>a, <1>c
  <2> DEFINE x == last - t
             q == x \div p
             d == (q + 1) * p
  <2>1. x \in Nat
    BY <2>0
  <2>2. After(t, p, last) = Plus(t, d)
    BY <2>0 DEF After
  <2> HIDE DEF x
  <2>3. x = p * (x \div p) + (x % p) /\ (x % p) < p /\ x \div p \in Nat /\ x % p \in Nat
    BY <2>1
  <2> HIDE DEF q
  <2>4. x = p * q + (x % p) /\ q \in Nat
    BY <2>3 DEF q
  <2>5. d = p * q + p /\ d \in Nat
    BY <2>4
  <2>6. p * q \in Nat
    BY <2>4
  <2> HIDE DEF d
  <2>7. x < d
    BY <2>3, <2>4, <2>5, <2>6
  <2>8. last = t + x
    BY <2>0 DEF x
  <2>9. last < Plus(t, d) \/ Plus(t, d) = Inf
    BY <2>0, <2>1, <2>5, <2>7, <2>8 DEF Plus
  <2> QED BY <2>2, <2>9
<1> QED BY <1>b, <1>c

\* execute() flags an event or moves it to a later time, if not to maxTime.
LEMMA ExecuteLater ==
    ASSUME TypeInv, NEW a \in Adapter, execute(a), ~removeEvent'[a]
    PROVE  nextTime[a] < nextTime'[a] \/ nextTime'[a] = Inf
<1>0. /\ nextTime \in [Adapter -> Time] /\ removeEvent \in [Adapter -> BOOLEAN]
      /\ ownNext \in [Source -> Time] /\ ownLast \in [Source -> Time]
      /\ Period[a] \in Nat /\ Target[a] \in Source /\ nullPeriod \in Nat
  BY AdapterAssumption, TimeAssumption DEF TypeInv, TypeOK
<1> DEFINE n == nextTime[a]
           o == ownNext[Target[a]]
           p == Period[a]
<1>1. /\ n \in Time /\ n \in Nat /\ n <= Inf /\ Inf \in Nat
      /\ o \in Time /\ o \in Nat /\ p \in Nat
  BY <1>0, TimeAssumption DEF Time
<1>2. ASSUME NEW d \in Nat, d > 0 PROVE n < Plus(n, d) \/ Plus(n, d) = Inf
  BY <1>1, <1>2 DEF Plus
<1>3. CASE executeNull(a)
  <2>1. nextTime'[a] = IF nullPeriod > 0 THEN Plus(n, nullPeriod) ELSE Inf
    BY <1>0, <1>3 DEF executeNull
  <2> QED BY <1>0, <1>2, <2>1
<1>4. CASE executeFunction(a)
  <2>1. p > 0
    BY <1>0, <1>4 DEF executeFunction
  <2>2. nextTime'[a] = Plus(n, p)
    BY <1>0, <1>4, <2>1 DEF executeFunction
  <2> QED BY <1>1, <1>2, <2>1, <2>2
<1>5. CASE executeEvent(a)
  <2>1. ~(p = 0 /\ n >= o)
    BY <1>0, <1>5 DEF executeEvent
  <2>2. /\ nextTime'[a] = ownNext'[Target[a]]
        /\ ownNext' = IF p > 0 /\ n >= o
             THEN [ownNext EXCEPT ![Target[a]] = After(o, p, n)] ELSE ownNext
    BY <1>0, <1>5, <2>1 DEF executeEvent
  <2>3. CASE n >= o
    <3>1. p > 0 /\ nextTime'[a] = After(o, p, n)
      BY <1>0, <1>1, <2>1, <2>2, <2>3
    <3>2. o <= n /\ p \in Nat \ {0}
      BY <1>1, <2>3, <3>1
    <3> HIDE DEF n, o, p
    <3>3. n < After(o, p, n) \/ After(o, p, n) = Inf
      BY <1>1, <3>2, AfterPasses
    <3> QED BY <3>1, <3>3 DEF n
  <2>4. CASE ~(n >= o)
    BY <1>1, <2>2, <2>4
  <2> QED BY <2>3, <2>4
<1>6. CASE executeObject(a)
  <2> DEFINE time == After(o, p, ownLast[Target[a]])
  <2>1. nextTime'[a] = IF time <= n THEN Inf ELSE time
    BY <1>0, <1>6 DEF executeObject
  <2>2. time \in Time
    <3>1. p \in Nat \ {0} /\ ownLast[Target[a]] \in Time
      BY <1>0, <1>6, TimeAssumption DEF executeObject
    <3> QED BY <1>1, <3>1, AfterType
  <2>3. time \in Int
    BY <2>2, TimeAssumption DEF Time
  <2> HIDE DEF time
  <2> QED BY <1>1, <2>1, <2>3
<1> QED BY <1>3, <1>4, <1>5, <1>6 DEF execute

\* FlagInv is inductive as long as the power flow does not fail.
LEMMA FlagStep == TypeInv /\ PairInv /\ FlagInv /\ [Next]_vars => FlagInv'
<1> SUFFICES ASSUME TypeInv, PairInv, FlagInv, [Next]_vars PROVE FlagInv'
  OBVIOUS
<1>a. /\ partB \in Seq(Adapter) /\ events \in Seq(Adapter) /\ Inserted \subseteq created
      /\ pos \in Nat \ {0}
  BY DEF TypeInv, TypeOK
<1>1. ASSUME removeEvent' = removeEvent, created \subseteq created' PROVE FlagInv'
  BY <1>1 DEF FlagInv
<1>2. ASSUME NEW a \in Adapter, execute(a), a \in created, created' = created
      PROVE  FlagInv'
  <2> SUFFICES ASSUME NEW b \in Adapter, removeEvent'[b]
               PROVE  b \in created /\ Kind[b] \in {"function", "event"}
    BY <1>2 DEF FlagInv
  <2>1. CASE b = a
    BY <1>2, <2>1, ExecuteFlags DEF FlagInv
  <2>2. CASE b # a
    <3>1. removeEvent'[b] = removeEvent[b]
      BY <1>2, <2>2, ExecuteFrame
    <3> QED BY <3>1 DEF FlagInv
  <2> QED BY <2>1, <2>2
<1>3. ASSUME Users PROVE FlagInv'
  BY <1>1, <1>3 DEF Users, insert, changeUpdateTime, remove, nullEventTime, history
<1>4. ASSUME Steps PROVE FlagInv'
  BY <1>1, <1>4 DEF Steps, dynamicStep, powerflowStep, queue
<1>5. CASE executeEvents \/ powerflow \/ beginA \/ endA \/ beginB \/ endB
  BY <1>1, <1>5 DEF executeEvents, powerflow, beginA, endA, beginB, endB, EndOfA, EndOfB,
                    queue, history
<1>6. ASSUME NEW a \in Adapter, deferInA(a) \/ executeA(a) PROVE FlagInv'
  BY <1>1, <1>6 DEF deferInA, executeA, history
<1>7. ASSUME NEW a \in Adapter, runInA(a) PROVE FlagInv'
  <2>1. execute(a) /\ created' = created /\ pos \in 1..Len(events) /\ a = events[pos]
    BY <1>a, <1>7 DEF runInA, AtDueEvent
  <2>2. a \in created
    BY <1>a, <2>1 DEF Inserted
  <2> QED BY <1>2, <2>1, <2>2
<1>8. ASSUME NEW a \in Adapter, runInB(a) PROVE FlagInv'
  <2>1. execute(a) /\ created' = created /\ pos \in 1..Len(partB) /\ a = partB[pos]
    BY <1>a, <1>8 DEF runInB
  <2>2. a \in created
    BY <2>1 DEF PairInv
  <2> QED BY <1>2, <2>1, <2>2
<1>9. CASE UNCHANGED vars
  BY <1>1, <1>9 DEF vars, queue, history
<1> QED BY <1>3, <1>4, <1>5, <1>6, <1>7, <1>8, <1>9 DEF Next, Driver, Pass

\* In a new queue nothing is flagged and nothing waits.
LEMMA AgendaInit == Init => FlagInv /\ DebtInv
<1> SUFFICES ASSUME Init PROVE FlagInv /\ DebtInv
  OBVIOUS
<1>1. FlagInv
  BY DEF Init, FlagInv
<1>2. partB = <<>> /\ pass = "none"
  BY DEF Init
<1> QED BY <1>1, <1>2, EmptyList DEF DebtInv

\* A step outside the A pass that changes neither what is owed nor partB_list.
LEMMA DebtQuiet ==
    ASSUME DebtInv, partB' = partB, owed' = owed, pass' # "A",
           \A i \in 1..Len(partB) : Ahead(i)' => Ahead(i)
    PROVE  DebtInv'
BY DEF DebtInv

\* With nothing waiting only the A pass matters.
LEMMA DebtEmpty ==
    ASSUME partB' = <<>>, pass' # "A"
    PROVE  DebtInv'
BY EmptyList DEF DebtInv

\* A step of the A pass that has served the event at the iterator.
LEMMA DebtServed ==
    ASSUME TypeInv, PairInv, DebtInv, NEW a \in Adapter, AtDueEvent(a),
           UNCHANGED <<events, partB, pass, clock>>, owed' = owed \ {a},
           \A b \in Adapter \ {a} : nextTime'[b] = nextTime[b]
    PROVE  DebtInv' /\ a \in owed
<1>a. /\ events \in Seq(Adapter) /\ Injective(events) /\ pos \in Nat \ {0}
      /\ partB \in Seq(Adapter) /\ DOMAIN events = 1..Len(events)
      /\ \A i \in 1..Len(events) : events[i] \in Adapter
  BY DEF TypeInv, TypeOK
<1>1. /\ pass = "A" /\ pos \in 1..Len(events) /\ events[pos] = a /\ pos' = pos + 1
      /\ Due(nextTime[a]) /\ pos <= pos
  BY <1>a DEF AtDueEvent
<1>2. a \in owed
  BY <1>1 DEF DebtInv
<1>3. ASSUME NEW i \in 1..Len(partB) PROVE partB[i] \in owed \ {a}
  <2>1. partB[i] \in owed
    BY <1>1 DEF DebtInv, Ahead
  <2>2. PICK j \in 1..Len(events) : j < pos /\ events[j] = partB[i]
    BY <1>1 DEF PairInv
  <2>3. partB[i] # a
    BY <1>a, <1>1, <2>2 DEF Injective
  <2> QED BY <2>1, <2>3
<1>4. ASSUME NEW i \in 1..Len(events), pos' <= i, Due(nextTime[events[i]])'
      PROVE  events[i] \in owed \ {a}
  <2>1. pos <= i /\ i # pos
    BY <1>a, <1>1, <1>4
  <2>2. events[i] # a
    BY <1>a, <1>1, <2>1 DEF Injective
  <2>3. Due(nextTime[events[i]])
    BY <1>a, <1>4, <2>2 DEF Due
  <2> QED BY <1>1, <2>1, <2>2, <2>3 DEF DebtInv
<1> QED BY <1>1, <1>2, <1>3, <1>4 DEF DebtInv

\* A step of the A pass after which the event at the iterator waits for its
\* part B.
LEMMA DebtDeferred ==
    ASSUME TypeInv, DebtInv, NEW a \in Adapter, AtDueEvent(a),
           UNCHANGED <<events, pass, clock, owed, nextTime>>, partB' = Append(partB, a)
    PROVE  DebtInv'
<1>a. /\ events \in Seq(Adapter) /\ pos \in Nat \ {0} /\ partB \in Seq(Adapter)
  BY DEF TypeInv, TypeOK
<1>1. /\ pass = "A" /\ pos \in 1..Len(events) /\ events[pos] = a /\ pos' = pos + 1
      /\ Due(nextTime[a]) /\ pos <= pos
  BY <1>a DEF AtDueEvent
<1>2. a \in owed
  BY <1>1 DEF DebtInv
<1>3. \A i \in 1..Len(partB') : partB'[i] = a \/ \E j \in 1..Len(partB) : partB'[i] = partB[j]
  BY <1>a
<1>4. \A j \in 1..Len(partB) : partB[j] \in owed
  BY <1>1 DEF DebtInv, Ahead
<1>5. \A i \in 1..Len(partB') : partB'[i] \in owed'
  BY <1>2, <1>3, <1>4
<1>6. \A i \in 1..Len(events) : pos' <= i => pos <= i
  BY <1>a, <1>1
<1>7. \A i \in 1..Len(events) : pos' <= i /\ Due(nextTime[events[i]])' => events[i] \in owed
  BY <1>1, <1>6 DEF DebtInv, Due
<1> QED BY <1>5, <1>7 DEF DebtInv

\* DebtInv is inductive as long as the power flow does not fail.
LEMMA DebtStep ==
    ASSUME PowerflowSucceeds
    PROVE  TypeInv /\ DeliveryInv /\ PairInv /\ DebtInv /\ [Next]_vars => DebtInv'
<1> SUFFICES ASSUME TypeInv, DeliveryInv, PairInv, DebtInv, [Next]_vars PROVE DebtInv'
  OBVIOUS
<1>a. /\ events \in Seq(Adapter) /\ pos \in Nat \ {0} /\ partB \in Seq(Adapter)
      /\ nextTime \in [Adapter -> Time] /\ Len(partB) \in Nat
      /\ Injective(partB) /\ DOMAIN partB = 1..Len(partB)
  <2>1. /\ events \in Seq(Adapter) /\ pos \in Nat \ {0} /\ partB \in Seq(Adapter)
        /\ nextTime \in [Adapter -> Time]
    BY DEF TypeInv, TypeOK
  <2>2. Len(partB) \in Nat /\ DOMAIN partB = 1..Len(partB)
    BY <2>1
  <2>3. Injective(partB)
    BY DEF PairInv
  <2> QED BY <2>1, <2>2, <2>3
<1>0. PassInCall /\ OrderInv
  BY DEF DeliveryInv
<1>q. ASSUME pass = "none", partB' = partB, owed' = owed,
             pass' = "none" \/ (pass' = "B" /\ pos' = 1)
      PROVE  DebtInv'
  BY <1>q, DebtQuiet DEF Ahead
<1>e. ASSUME pass = "none", ~AfterPartA, partB' = partB, pass' # "A" PROVE DebtInv'
  BY <1>e, DebtEmpty DEF PairInv
<1>1. ASSUME Users PROVE DebtInv'
  <2>1. pass = "none" /\ pass' = pass /\ partB' = partB /\ owed' = owed
    BY <1>1 DEF Users, insert, changeUpdateTime, remove, nullEventTime, Idle, control, history
  <2>2. pass' # "A" /\ \A i \in 1..Len(partB) : Ahead(i)' => Ahead(i)
    BY <2>1 DEF Ahead
  <2> QED BY <2>1, <2>2, DebtQuiet
<1>2. ASSUME Steps PROVE DebtInv'
  <2>1. pass = "none" /\ call = "idle" /\ UNCHANGED <<pass, partB>>
    BY <1>2 DEF Steps, dynamicStep, powerflowStep, Idle, queue
  <2> QED BY <1>e, <2>1 DEF AfterPartA
<1>3. CASE executeEvents \/ powerflow \/ beginB
  <2>1. pass = "none" /\ pos = 1 /\ UNCHANGED <<pos, partB, owed>> /\ pass' \in {"none", "B"}
    BY <1>0, <1>3 DEF executeEvents, powerflow, beginB, queue, history, PassInCall
  <2> QED BY <1>q, <2>1
<1>4. CASE beginA
  <2>1. /\ pass = "none" /\ ~AfterPartA /\ UNCHANGED <<events, partB, nextTime, clock>>
    BY <1>4 DEF beginA, queue, AfterPartA
  <2>2. CASE pass' # "A"
    BY <1>e, <2>1, <2>2
  <2>3. CASE pass' = "A"
    <3>1. owed' = {a \in Inserted : Due(nextTime[a])} /\ partB' = <<>>
      BY <1>4, <2>1, <2>3 DEF beginA, PairInv
    <3>2. \A i \in 1..Len(events) : Due(nextTime[events[i]])' => events[i] \in owed'
      BY <2>1, <3>1 DEF Due, Inserted
    <3> QED BY <2>1, <3>1, <3>2, EmptyList DEF DebtInv
  <2> QED BY <2>2, <2>3
<1>5. ASSUME NEW a \in Adapter, runInA(a) PROVE DebtInv'
  <2>1. owed' = owed \ {a} /\ \A b \in Adapter \ {a} : nextTime'[b] = nextTime[b]
    BY <1>5, ExecuteType DEF runInA
  <2> QED BY <1>5, <2>1, DebtServed DEF runInA
<1>6. ASSUME NEW a \in Adapter, deferInA(a) PROVE DebtInv'
  BY <1>6, DebtDeferred DEF deferInA, history
<1>7. ASSUME NEW a \in Adapter, executeA(a) PROVE DebtInv'
  <2>1. AtDueEvent(a) /\ UNCHANGED <<events, pass, clock>>
    BY <1>7 DEF executeA
  <2>2. CASE PartBDelay[a] > 0
    <3>1. partB' = partB /\ nextTime' = [nextTime EXCEPT ![a] = Plus(@, PartBDelay[a])]
          /\ owed' = owed \ {a}
      BY <1>7, <2>2 DEF executeA
    <3>2. \A b \in Adapter \ {a} : nextTime'[b] = nextTime[b]
      BY <1>a, <3>1
    <3> QED BY <2>1, <3>1, <3>2, DebtServed
  <2>3. CASE ~(PartBDelay[a] > 0)
    BY <1>7, <2>1, <2>3, DebtDeferred DEF executeA
  <2> QED BY <2>2, <2>3
<1>8. CASE endA
  <2>1. pass = "A" /\ pass' = "none" /\ UNCHANGED <<partB, owed>>
    BY <1>8 DEF endA, EndOfA, history
  <2> QED BY <2>1, DebtQuiet DEF Ahead
<1>9. ASSUME NEW a \in Adapter, runInB(a) PROVE DebtInv'
  <2>1. /\ pass = "B" /\ pass' = "B" /\ pos \in 1..Len(partB) /\ a = partB[pos]
        /\ pos' = pos + 1 /\ UNCHANGED <<partB, clock>>
    BY <1>9, <1>a DEF runInB
  <2>2. owed' = owed \ {a}
    BY <1>9, ExecuteType DEF runInB
  <2>3. ASSUME NEW i \in 1..Len(partB), pos' <= i PROVE partB[i] \in owed'
    <3>1. pos <= i /\ i # pos
      BY <1>a, <2>1, <2>3
    <3>2. partB[i] # a
      BY <1>a, <2>1, <3>1 DEF Injective
    <3>3. partB[i] \in owed
      BY <2>1, <3>1 DEF DebtInv, Ahead
    <3> QED BY <2>2, <3>2, <3>3
  <2> QED BY <2>1, <2>3 DEF DebtInv, Ahead
<1>10. CASE endB
  BY <1>10, DebtEmpty DEF endB, EndOfB
<1>11. CASE UNCHANGED vars
  BY <1>11 DEF vars, queue, control, history, DebtInv, Ahead, Due
<1> QED BY <1>1, <1>2, <1>3, <1>4, <1>5, <1>6, <1>7, <1>8, <1>9, <1>10, <1>11
        DEF Next, Driver, Pass

\* The state of the agenda that the state of the queue stands for
AgendaVars == <<clock, phase, agenda, Unflagged(owed)>>

\* When an event is planned: what is owed, now.
PlannedTime(a) == IF a \in owed /\ ~Due(nextTime[a]) THEN clock ELSE nextTime[a]

\* What is planned, and when.
LEMMA AgendaIs ==
    /\ Agenda!Planned = Unflagged(Inserted)
    /\ \A a \in Unflagged(Inserted) : agenda[a] = PlannedTime(a)
    /\ agenda = [a \in Unflagged(Inserted) |-> PlannedTime(a)]
BY DEF Agenda!Planned, agenda, PlannedTime

\* What is due on the agenda.
LEMMA DueIs ==
    ASSUME TypeInv
    PROVE  /\ Agenda!DueNow = {a \in Unflagged(Inserted) : Due(nextTime[a]) \/ a \in owed}
           /\ \A a \in Adapter : a \in owed => PlannedTime(a) <= clock + Tol
<1>1. clock \in Nat /\ Tol \in Nat
  BY TimeAssumption DEF TypeInv, TypeOK
<1>2. clock <= clock + Tol
  BY <1>1
<1>3. \A a \in Unflagged(Inserted) :
            agenda[a] <= clock + Tol <=> Due(nextTime[a]) \/ a \in owed
  BY <1>2, AgendaIs DEF PlannedTime, Due
<1> QED BY <1>2, <1>3, AgendaIs DEF Agenda!DueNow, PlannedTime, Due

\* The phase of each call and pass.
LEMMA PhaseIs ==
    /\ pass = "none" /\ call = "idle" => phase = "idle"
    /\ pass = "none" /\ call \in {"executeEvents", "A", "A, powerflow"} => phase = "called"
    /\ pass \in {"A", "B"} \/ AfterPartA => phase = "serving"
BY DEF phase, Idle, AfterPartA

\* A step that the agenda does not see.
LEMMA AgendaStutters ==
    ASSUME UNCHANGED <<clock, owed, removeEvent, nextTime>>, phase' = phase,
           Unflagged(Inserted)' = Unflagged(Inserted)
    PROVE  UNCHANGED AgendaVars
<1>1. agenda' = agenda
  BY DEF agenda, Due
<1>2. Unflagged(owed)' = Unflagged(owed)
  BY DEF Unflagged
<1> QED BY <1>1, <1>2 DEF AgendaVars

\* The first event of a sorted vector comes before all others.
LEMMA FirstIsEarliest ==
    ASSUME TypeInv, Sorted(events, nextTime), NEW a \in Inserted
    PROVE  /\ getNextTime <= nextTime[a] /\ getNextTime \in Time /\ nextTime[a] \in Time
           /\ a \in Adapter
<1>1. events \in Seq(Adapter) /\ nextTime \in [Adapter -> Time]
  BY DEF TypeInv, TypeOK
<1>2. PICK i \in 1..Len(events) : events[i] = a
  BY DEF Inserted
<1>3. 1 \in 1..Len(events) /\ (i = 1 \/ 1 < i) /\ events[1] \in Adapter /\ a \in Adapter
  BY <1>1, <1>2
<1>4. getNextTime \in Time /\ nextTime[a] \in Time
  BY <1>1, <1>3 DEF getNextTime
<1>5. getNextTime \in Int /\ nextTime[a] \in Int
  BY <1>4, TimeAssumption DEF Time
<1>6. CASE i = 1
  BY <1>2, <1>3, <1>4, <1>5, <1>6 DEF getNextTime
<1>7. CASE 1 < i
  BY <1>2, <1>3, <1>4, <1>7 DEF getNextTime, Sorted
<1> QED BY <1>3, <1>4, <1>6, <1>7

\* dynamicStep and powerflowStep advance the clock.
LEMMA StepAdvances ==
    ASSUME TypeInv, DeliveryInv, NEW t \in 0..Horizon, dynamicStep(t) \/ powerflowStep(t)
    PROVE  Agenda!Advance
<1>1. /\ pass = "none" /\ call = "idle" /\ pass' = "none" /\ StepTo(t)
      /\ UNCHANGED <<events, nextTime, removeEvent>>
      /\ call' \in {"executeEvents", "A, powerflow"}
  BY DEF dynamicStep, powerflowStep, Idle, queue
<1>2. Sorted(events, nextTime) /\ owed = {} /\ owed' = {} /\ clock' = t
  BY <1>1 DEF DeliveryInv, OrderInv, OwedInv, AfterPartA, StepTo
<1>3. phase = "idle" /\ phase' = "called"
  <2>1. phase = "idle"
    BY <1>1, PhaseIs
  <2>2. phase' = "called"
    BY <1>1 DEF phase, Idle
  <2> QED BY <2>1, <2>2
<1>4. Unflagged(owed)' = Unflagged(owed) /\ Inserted' = Inserted
  BY <1>1, <1>2 DEF Unflagged, Inserted
<1>5. agenda' = agenda
  BY <1>1, <1>2, <1>4 DEF agenda, Unflagged
<1>6. ASSUME NEW a \in Unflagged(Inserted) PROVE t <= agenda[a]
  <2>1. a \in Inserted /\ agenda[a] = nextTime[a]
    BY <1>2, AgendaIs DEF PlannedTime, Unflagged
  <2>2. getNextTime <= nextTime[a] /\ getNextTime \in Int /\ nextTime[a] \in Int
    BY <1>2, <2>1, FirstIsEarliest, TimeAssumption DEF Time
  <2>3. t <= getNextTime
    <3> DEFINE n == getNextTime
    <3>1. t = n \/ t < n
      BY <1>1 DEF StepTo
    <3>2. n \in Int /\ t \in Int
      BY <2>2
    <3> HIDE DEF n
    <3>3. t <= n
      BY <3>1, <3>2
    <3> QED BY <3>3 DEF n
  <2> QED BY <2>1, <2>2, <2>3
<1>7. \A a \in Agenda!Planned : clock' <= agenda[a]
  BY <1>2, <1>6, AgendaIs
<1> QED BY <1>3, <1>4, <1>5, <1>7 DEF Agenda!Advance

\* executeEvents without an event that is due ends the step.
LEMMA ExecuteSkips ==
    ASSUME TypeInv, DeliveryInv, PairInv, executeEvents
    PROVE  Agenda!Skip \/ UNCHANGED AgendaVars
<1>1. /\ pass = "none" /\ call = "executeEvents" /\ pass' = "none"
      /\ UNCHANGED <<clock, owed, events, nextTime, removeEvent>>
  BY DEF executeEvents, queue, history
<1>2. Sorted(events, nextTime) /\ partB = <<>> /\ owed = {} /\ phase = "called"
  BY <1>1, PhaseIs DEF DeliveryInv, OrderInv, OwedInv, PairInv, AfterPartA
<1>3. Unflagged(Inserted)' = Unflagged(Inserted)
  BY <1>1 DEF Unflagged, Inserted
<1>4. CASE Due(getNextTime)
  <2>1. call' = "A"
    BY <1>2, <1>4 DEF executeEvents
  <2>2. phase' = "called"
    BY <1>1, <2>1 DEF phase, Idle
  <2> QED BY <1>1, <1>2, <1>3, <2>2, AgendaStutters
<1>5. CASE ~Due(getNextTime)
  <2>1. call' = "idle"
    BY <1>5 DEF executeEvents
  <2>2. phase' = "idle"
    BY <1>1, <2>1 DEF phase, Idle
  <2>3. ASSUME NEW a \in Unflagged(Inserted) PROVE ~Due(nextTime[a])
    <3>1. getNextTime <= nextTime[a] /\ getNextTime \in Int /\ nextTime[a] \in Int
      BY <1>2, FirstIsEarliest, TimeAssumption DEF Time, Unflagged
    <3>2. clock + Tol \in Int
      BY TimeAssumption DEF TypeInv, TypeOK
    <3> QED BY <1>5, <3>1, <3>2 DEF Due
  <2>4. Agenda!DueNow = {}
    BY <1>2, <2>3, DueIs
  <2>5. agenda' = agenda /\ Unflagged(owed)' = Unflagged(owed)
    BY <1>1, <1>3 DEF agenda, Due, Unflagged
  <2> QED BY <1>1, <1>2, <2>2, <2>4, <2>5 DEF Agenda!Skip
<1> QED BY <1>4, <1>5

\* beginA finds what is due.
LEMMA BeginBegins ==
    ASSUME TypeInv, DeliveryInv, beginA
    PROVE  Agenda!Begin
<1>1. /\ pass = "none" /\ call \in {"A", "A, powerflow"}
      /\ UNCHANGED <<clock, events, nextTime, removeEvent>>
  BY DEF beginA, queue
<1>2. Sorted(events, nextTime) /\ owed = {} /\ phase = "called"
  BY <1>1, PhaseIs DEF DeliveryInv, OrderInv, OwedInv, AfterPartA
<1>3. Unflagged(Inserted)' = Unflagged(Inserted)
  BY <1>1 DEF Unflagged, Inserted
<1>4. agenda' = agenda
  <2>1. \A a \in owed' : Due(nextTime[a])
    BY <1>2 DEF beginA
  <2>2. \A a \in Unflagged(Inserted) : PlannedTime(a)' = PlannedTime(a)
    BY <1>1, <1>2, <2>1 DEF PlannedTime, Due
  <2>3. agenda' = [a \in Unflagged(Inserted)' |-> PlannedTime(a)']
    BY DEF agenda, PlannedTime
  <2> QED BY <1>3, <2>2, <2>3, AgendaIs
<1>5. CASE Due(getNextTime)
  <2>1. pass' = "A" /\ owed' = {a \in Inserted : Due(nextTime[a])}
    BY <1>5 DEF beginA
  <2>2. phase' = "serving"
    BY <2>1 DEF phase, Idle
  <2>3. Unflagged(owed)' = Agenda!DueNow
    BY <1>1, <1>2, <2>1, DueIs DEF Unflagged
  <2> QED BY <1>1, <1>2, <1>4, <2>2, <2>3 DEF Agenda!Begin
<1>6. CASE ~Due(getNextTime)
  <2>1. pass' = "none" /\ call' = Following /\ owed' = {}
    BY <1>1, <1>2, <1>6 DEF beginA
  <2>2. call' \in {"B", "powerflow"}
    BY <1>1, <2>1 DEF Following
  <2>3. phase' = "serving"
    BY <2>1, <2>2 DEF phase, Idle
  <2>4. ASSUME NEW a \in Unflagged(Inserted) PROVE ~Due(nextTime[a])
    <3>1. getNextTime <= nextTime[a] /\ getNextTime \in Int /\ nextTime[a] \in Int
      BY <1>2, FirstIsEarliest, TimeAssumption DEF Time, Unflagged
    <3>2. clock + Tol \in Int
      BY TimeAssumption DEF TypeInv, TypeOK
    <3> QED BY <1>6, <3>1, <3>2 DEF Due
  <2>5. Agenda!DueNow = {}
    BY <1>2, <2>4, DueIs
  <2>6. Unflagged(owed)' = {}
    BY <2>1 DEF Unflagged
  <2> QED BY <1>1, <1>2, <1>4, <2>3, <2>5, <2>6 DEF Agenda!Begin
<1> QED BY <1>5, <1>6

\* A step that runs an event which is owed serves it.  One that is flagged is
\* not on the agenda any more.
LEMMA RunServes ==
    ASSUME TypeInv, TypeInv', NEW a \in Adapter, a \in owed, owed' = owed \ {a},
           phase = "serving", phase' = "serving", clock' = clock, events' = events,
           \A b \in Adapter \ {a} :
                nextTime'[b] = nextTime[b] /\ removeEvent'[b] = removeEvent[b],
           removeEvent[a] => removeEvent'[a],
           ~removeEvent'[a] => nextTime[a] < nextTime'[a] \/ nextTime'[a] = Inf
    PROVE  Agenda!Serve(a) \/ UNCHANGED AgendaVars
<1>0. /\ Inserted \subseteq Adapter /\ owed \subseteq Adapter
      /\ removeEvent \in [Adapter -> BOOLEAN] /\ removeEvent' \in [Adapter -> BOOLEAN]
      /\ nextTime \in [Adapter -> Time] /\ nextTime' \in [Adapter -> Time]
  BY DEF TypeInv, TypeOK
<1>1. Inserted' = Inserted
  BY DEF Inserted
<1>p. /\ \A b \in Adapter \ {a} : PlannedTime(b)' = PlannedTime(b)
      /\ PlannedTime(a)' = nextTime'[a]
      /\ agenda' = [b \in Unflagged(Inserted)' |-> PlannedTime(b)']
  BY DEF PlannedTime, agenda, Due
<1>2. CASE removeEvent[a]
  <2>1. \A b \in Adapter : removeEvent'[b] = removeEvent[b]
    BY <1>0, <1>2
  <2>2. Unflagged(Inserted)' = Unflagged(Inserted) /\ a \notin Unflagged(Inserted)
    BY <1>0, <1>1, <1>2, <2>1 DEF Unflagged
  <2>3. Unflagged(owed)' = Unflagged(owed)
    BY <1>0, <1>2, <2>1 DEF Unflagged
  <2>4. \A b \in Unflagged(Inserted) : PlannedTime(b)' = PlannedTime(b)
    BY <1>0, <1>p, <2>2 DEF Unflagged
  <2>5. agenda' = agenda
    BY <1>p, <2>2, <2>4, AgendaIs
  <2> QED BY <2>3, <2>5 DEF AgendaVars
<1>3. CASE ~removeEvent[a]
  <2>1. a \in Unflagged(owed) /\ Unflagged(owed)' = Unflagged(owed) \ {a}
    BY <1>0, <1>3 DEF Unflagged
  <2>2. a \in Agenda!Planned => a \in Agenda!DueNow
    BY AgendaIs, DueIs
  <2>3. CASE removeEvent'[a] \/ a \notin Inserted
    <3>1. Unflagged(Inserted)' = Unflagged(Inserted) \ {a}
      BY <1>0, <1>1, <2>3 DEF Unflagged
    <3>2. \A b \in Unflagged(Inserted) \ {a} : PlannedTime(b)' = agenda[b]
      BY <1>0, <1>p, AgendaIs DEF Unflagged
    <3>3. agenda' = [b \in Unflagged(Inserted) \ {a} |-> agenda[b]]
      BY <1>p, <3>1, <3>2
    <3>4. agenda' = Agenda!Only(agenda, Agenda!Planned \ {a})
      BY <3>3, AgendaIs DEF Agenda!Only
    <3> QED BY <2>1, <2>2, <3>4 DEF Agenda!Serve
  <2>4. CASE ~removeEvent'[a] /\ a \in Inserted
    <3>1. Unflagged(Inserted)' = Unflagged(Inserted) /\ a \in Unflagged(Inserted)
      BY <1>0, <1>1, <1>3, <2>4 DEF Unflagged
    <3>2. \A b \in Unflagged(Inserted) \ {a} : PlannedTime(b)' = agenda[b]
      BY <1>0, <1>p, AgendaIs DEF Unflagged
    <3> DEFINE t == nextTime'[a]
    <3>3. t \in 0..Inf /\ t > agenda[a]
      <4>1. agenda[a] = PlannedTime(a) /\ (nextTime[a] < t \/ t = Inf)
        BY <2>4, <3>1, AgendaIs
      <4>2. nextTime[a] \in Int /\ t \in 0..Inf /\ clock \in 0..Horizon
        BY <1>0, TimeAssumption DEF Time, TypeInv, TypeOK
      <4> HIDE DEF t
      <4> QED BY <4>1, <4>2, TimeAssumption DEF PlannedTime, Due
    <3>4. agenda' = [agenda EXCEPT ![a] = t]
      <4>1. agenda' = [b \in Unflagged(Inserted) |-> PlannedTime(b)']
        BY <1>p, <3>1
      <4>2. DOMAIN agenda = Unflagged(Inserted)
        BY DEF agenda
      <4>3. [agenda EXCEPT ![a] = t]
                = [b \in Unflagged(Inserted) |-> IF b = a THEN t ELSE agenda[b]]
        BY <4>2 DEF agenda
      <4> QED BY <1>p, <3>2, <4>1, <4>3
    <3>5. a \in Agenda!Planned
      BY <3>1, AgendaIs
    <3> HIDE DEF t
    <3> QED BY <2>1, <2>2, <3>3, <3>4, <3>5 DEF Agenda!Serve
  <2> QED BY <2>3, <2>4
<1> QED BY <1>2, <1>3

\* Both passes serve what they run.
LEMMA PassesServe ==
    ASSUME TypeInv, TypeInv', DebtInv, NEW a \in Adapter, runInA(a) \/ runInB(a)
    PROVE  Agenda!Serve(a) \/ UNCHANGED AgendaVars
<1>0. /\ events \in Seq(Adapter) /\ pos \in Nat \ {0} /\ partB \in Seq(Adapter)
  BY DEF TypeInv, TypeOK
<1>1. /\ execute(a) /\ UNCHANGED <<clock, events, pass>>
      /\ pass \in {"A", "B"}
  BY DEF runInA, runInB, AtDueEvent
<1>2. phase = "serving" /\ phase' = "serving"
  BY <1>1 DEF phase, Idle
<1>3. CASE runInA(a)
  <2>1. /\ pass = "A" /\ pos \in 1..Len(events) /\ a = events[pos]
        /\ Due(nextTime[a]) /\ pos <= pos
    BY <1>0, <1>3 DEF runInA, AtDueEvent
  <2>2. a \in owed
    BY <2>1 DEF DebtInv
  <2> QED BY <1>1, <1>2, <2>2, ExecuteType, ExecuteFrame, ExecuteFlags, ExecuteLater, RunServes
<1>4. CASE runInB(a)
  <2>1. pass = "B" /\ pos \in 1..Len(partB) /\ a = partB[pos] /\ pos <= pos
    BY <1>0, <1>4 DEF runInB
  <2>2. a \in owed
    BY <2>1 DEF DebtInv, Ahead
  <2> QED BY <1>1, <1>2, <2>2, ExecuteType, ExecuteFrame, ExecuteFlags, ExecuteLater, RunServes
<1> QED BY <1>3, <1>4

\* The part A of an object whose part B is delayed counts as served; its part B
\* is planned.  Otherwise the agenda waits for the part B.
LEMMA PartAServes ==
    ASSUME TypeInv, TypeInv', DebtInv, NEW a \in Adapter, executeA(a) \/ deferInA(a)
    PROVE  Agenda!Serve(a) \/ UNCHANGED AgendaVars
<1>0. /\ events \in Seq(Adapter) /\ pos \in Nat \ {0} /\ nextTime \in [Adapter -> Time]
      /\ clock \in 0..Horizon
  BY DEF TypeInv, TypeOK
<1>1. /\ pass = "A" /\ pos \in 1..Len(events) /\ a = events[pos]
      /\ Due(nextTime[a]) /\ pos <= pos /\ UNCHANGED <<clock, events, pass, removeEvent>>
  BY <1>0 DEF executeA, deferInA, AtDueEvent
<1>2. phase = "serving" /\ phase' = "serving"
  BY <1>1 DEF phase, Idle
<1>3. CASE executeA(a) /\ PartBDelay[a] > 0
  <2>1. owed' = owed \ {a} /\ nextTime' = [nextTime EXCEPT ![a] = Plus(@, PartBDelay[a])]
    BY <1>3 DEF executeA
  <2>2. a \in owed
    BY <1>1 DEF DebtInv
  <2>3. nextTime[a] < nextTime'[a]
    <3>1. nextTime'[a] = Plus(nextTime[a], PartBDelay[a]) /\ nextTime[a] \in Time
      BY <1>0, <2>1
    <3>2. PartBDelay[a] \in Nat /\ nextTime[a] \in Nat /\ nextTime[a] < Inf /\ Inf \in Nat
      BY <1>0, <1>1, <3>1, TimeAssumption DEF Due, Time
    <3> QED BY <1>3, <3>1, <3>2 DEF Plus
  <2>4. \A b \in Adapter \ {a} :
            nextTime'[b] = nextTime[b] /\ removeEvent'[b] = removeEvent[b]
    BY <1>0, <1>1, <2>1
  <2>5. removeEvent[a] => removeEvent'[a]
    BY <1>1
  <2> QED BY <1>1, <1>2, <2>1, <2>2, <2>3, <2>4, <2>5, RunServes
<1>4. CASE ~(executeA(a) /\ PartBDelay[a] > 0)
  <2>1. UNCHANGED <<nextTime, owed>>
    BY <1>4 DEF executeA, deferInA, history
  <2>2. Unflagged(Inserted)' = Unflagged(Inserted)
    BY <1>1 DEF Unflagged, Inserted
  <2> QED BY <1>1, <1>2, <2>1, <2>2, AgendaStutters
<1> QED BY <1>3, <1>4

\* An erase leaves what lies at the positions kept.
LEMMA KeepExactly ==
    ASSUME TypeInv, TypeInv', NEW K \in SUBSET (1..Len(events)), events' \in Keep(events, K)
    PROVE  \A b : b \in Inserted' <=> \E k \in K : events[k] = b
<1>1. events \in Seq(Adapter) /\ Injective(events) /\ events' \in Seq(Adapter)
  BY DEF TypeInv, TypeOK
<1>2. Len(events') \in Nat
  BY <1>1
<1>3. Inserted' = Elems(events')
  BY DEF Inserted, Elems
<1>4. \A k \in K : events[k] \in Elems(events')
  BY <1>1, KeepLemma
<1>5. \A i \in 1..Len(events') : \E k \in K : events'[i] = events[k]
  BY <1>1, <1>2, KeepOnly
<1>6. ASSUME NEW b, b \in Inserted' PROVE \E k \in K : events[k] = b
  <2>1. PICK i \in 1..Len(events') : events'[i] = b
    BY <1>6 DEF Inserted
  <2> QED BY <1>5, <2>1
<1>7. ASSUME NEW b, NEW k \in K, events[k] = b PROVE b \in Inserted'
  BY <1>3, <1>4, <1>7
<1> QED BY <1>6, <1>7

\* remove withdraws an event, unless it is flagged and the agenda has it no more.
LEMMA RemoveWithdraws ==
    ASSUME TypeInv, TypeInv', NEW a \in Adapter, remove(a)
    PROVE  Agenda!Withdraw(a) \/ UNCHANGED AgendaVars
<1> DEFINE K == {i \in 1..Len(events) : events[i] # a}
<1>1. /\ a \in Inserted /\ a # Null /\ events' \in Keep(events, K)
      /\ UNCHANGED <<clock, call, pass, owed, removeEvent, nextTime>>
  BY DEF remove, control, history
<1>2. phase' = phase
  BY <1>1 DEF phase, Idle
<1>3. K \in SUBSET (1..Len(events))
  OBVIOUS
<1>4. \A b : b \in Inserted' <=> \E k \in K : events[k] = b
  <2> HIDE DEF K
  <2> QED BY <1>1, <1>3, KeepExactly
<1>5. Inserted' = Inserted \ {a}
  <2>1. \A b : b \in Inserted' <=> \E k \in 1..Len(events) : events[k] = b /\ b # a
    BY <1>4
  <2> QED BY <2>1 DEF Inserted
<1>6. Unflagged(Inserted)' = Unflagged(Inserted) \ {a}
  BY <1>1, <1>5 DEF Unflagged
<1>7. CASE removeEvent[a]
  <2>1. Unflagged(Inserted)' = Unflagged(Inserted)
    BY <1>6, <1>7 DEF Unflagged
  <2> QED BY <1>1, <1>2, <2>1, AgendaStutters
<1>8. CASE ~removeEvent[a]
  <2>1. a \in Agenda!Planned \ {Null}
    BY <1>1, <1>8, AgendaIs DEF Unflagged
  <2>2. agenda' = [b \in Unflagged(Inserted) \ {a} |-> PlannedTime(b)]
    BY <1>1, <1>6 DEF agenda, PlannedTime, Due
  <2>3. \A b \in Unflagged(Inserted) \ {a} : agenda[b] = PlannedTime(b)
    BY AgendaIs
  <2>4. agenda' = Agenda!Only(agenda, Agenda!Planned \ {a})
    BY <2>2, <2>3, AgendaIs DEF Agenda!Only
  <2>5. Unflagged(owed)' = Unflagged(owed)
    BY <1>1 DEF Unflagged
  <2> QED BY <1>1, <1>2, <2>1, <2>4, <2>5 DEF Agenda!Withdraw
<1> QED BY <1>7, <1>8

\* A call that moves events other than functions; what is owed stays due.
LEMMA RecheckReplans ==
    ASSUME TypeInv, TypeInv',
           UNCHANGED <<clock, call, pass, owed, removeEvent>>,
           events' \in StableSortOf(events, nextTime'),
           \A a \in Adapter : Kind[a] = "function" => nextTime'[a] = nextTime[a]
    PROVE  Agenda!Replan
<1>1. /\ nextTime' \in [Adapter -> Time] /\ Inserted \subseteq Adapter
      /\ clock \in 0..Horizon /\ owed \subseteq Adapter
  BY DEF TypeInv, TypeOK
<1>2. Inserted' = Inserted
  BY <1>1, StableVector
<1>3. Unflagged(Inserted)' = Unflagged(Inserted) /\ Unflagged(owed)' = Unflagged(owed)
  BY <1>2 DEF Unflagged
<1>4. phase' = phase
  BY DEF phase, Idle
<1>5. agenda' = [a \in Unflagged(Inserted) |-> PlannedTime(a)']
  BY <1>3 DEF agenda, PlannedTime
<1>6. Unflagged(Inserted) \subseteq Adapter /\ Unflagged(owed) \subseteq owed
  BY <1>1 DEF Unflagged
<1>7. \A a \in Adapter : PlannedTime(a)' \in 0..Inf
  BY <1>1, TimeAssumption DEF PlannedTime, Time
<1>8. agenda' \in [Agenda!Planned -> 0..Inf]
  BY <1>5, <1>6, <1>7, AgendaIs
<1>9. \A a \in Agenda!Planned \ {b \in Adapter : Kind[b] # "function"} : agenda'[a] = agenda[a]
  BY <1>5, <1>6, AgendaIs DEF PlannedTime, Due
<1>10. \A a \in owed : PlannedTime(a)' <= clock + Tol
  BY <1>1, TimeAssumption DEF PlannedTime, Due
<1>11. \A a \in Unflagged(owed) \cap Agenda!Planned : agenda'[a] <= clock + Tol
  BY <1>5, <1>6, <1>10, AgendaIs
<1> QED BY <1>3, <1>4, <1>8, <1>9, <1>11 DEF Agenda!Replan

\* The power flow and the lock of the B pass change nothing that is planned.
LEMMA BetweenPartsStutters ==
    ASSUME PowerflowSucceeds, DeliveryInv, PairInv, powerflow \/ beginB
    PROVE  UNCHANGED AgendaVars
<1>1. /\ pass = "none" /\ call \in {"powerflow", "B", "B first"}
      /\ UNCHANGED <<clock, owed, events, nextTime, removeEvent>>
  BY DEF powerflow, beginB, queue, history
<1>2. call # "B first"
  BY DEF PairInv
<1>3. phase = "serving"
  BY <1>1, <1>2, PhaseIs DEF AfterPartA
<1>4. phase' = "serving"
  <2>1. CASE powerflow
    <3>1. call' = "B" /\ pass' = "none"
      BY <2>1, <1>1 DEF powerflow, PowerflowSucceeds, Following
    <3> QED BY <3>1 DEF phase, Idle
  <2>2. CASE beginB
    BY <2>2 DEF beginB, phase, Idle
  <2> QED BY <2>1, <2>2
<1>5. Unflagged(Inserted)' = Unflagged(Inserted)
  BY <1>1 DEF Unflagged, Inserted
<1> QED BY <1>1, <1>3, <1>4, <1>5, AgendaStutters

\* endA erases only what is flagged.
LEMMA EndAStutters ==
    ASSUME TypeInv, TypeInv', DeliveryInv, PairInv, endA
    PROVE  UNCHANGED AgendaVars
<1> DEFINE K == {i \in 1..Len(events) : ~(removing /\ i < pos /\ removeEvent[events[i]])}
<1>1. /\ pass = "A" /\ pass' = "none" /\ call' = Following /\ events' \in Keep(events, K)
      /\ UNCHANGED <<clock, owed, removeEvent, nextTime>>
  BY DEF endA, EndOfA, history
<1>2. call \in {"A", "A, powerflow"}
  BY <1>1 DEF DeliveryInv, PassInCall
<1>3. call' \in {"B", "powerflow"}
  BY <1>1, <1>2 DEF Following
<1>4. phase = "serving" /\ phase' = "serving"
  <2>1. phase = "serving"
    BY <1>1 DEF phase, Idle
  <2>2. phase' = "serving"
    BY <1>1, <1>3 DEF phase, Idle
  <2> QED BY <2>1, <2>2
<1>5. K \in SUBSET (1..Len(events))
  OBVIOUS
<1>6. \A b : b \in Inserted' <=> \E k \in K : events[k] = b
  <2> HIDE DEF K
  <2> QED BY <1>1, <1>5, KeepExactly
<1>7. \A b : ~removeEvent[b] => (b \in Inserted' <=> b \in Inserted)
  BY <1>6 DEF Inserted
<1>8. Unflagged(Inserted)' = Unflagged(Inserted)
  BY <1>1, <1>7 DEF Unflagged
<1> QED BY <1>1, <1>4, <1>8, AgendaStutters

\* When the B pass ends nothing is owed, and the sort moves no event in time.
LEMMA EndBEnds ==
    ASSUME TypeInv, TypeInv', DeliveryInv, PairInv, endB
    PROVE  Agenda!End
<1>1. /\ pass = "B" /\ pos > Len(partB) /\ pass' = "none" /\ call' = Following
      /\ events' \in StableSortOf(events, nextTime)
      /\ UNCHANGED <<clock, owed, removeEvent, nextTime>>
  BY DEF endB, EndOfB, history
<1>2. call = "B"
  BY <1>1 DEF DeliveryInv, PassInCall, PairInv
<1>3. call' = "idle"
  BY <1>1, <1>2 DEF Following
<1>4. phase = "serving" /\ phase' = "idle"
  <2>1. phase = "serving"
    BY <1>1 DEF phase, Idle
  <2>2. phase' = "idle"
    BY <1>1, <1>3 DEF phase, Idle
  <2> QED BY <2>1, <2>2
<1>5. owed = {}
  <2>1. pos \in Nat /\ Len(partB) \in Nat
    BY DEF TypeInv, TypeOK
  <2>2. \A i \in 1..Len(partB) : ~(pos <= i)
    BY <1>1, <2>1
  <2> QED BY <1>1, <2>2 DEF DeliveryInv, OwedInv
<1>6. nextTime' \in [Adapter -> Time]
  BY DEF TypeInv, TypeOK
<1>7. Inserted' = Inserted
  BY <1>1, <1>6, StableVector
<1>8. agenda' = agenda
  BY <1>1, <1>7 DEF agenda, Due, Unflagged
<1>9. Unflagged(owed)' = Unflagged(owed) /\ Unflagged(owed) = {}
  BY <1>1, <1>5 DEF Unflagged
<1> QED BY <1>1, <1>4, <1>8, <1>9 DEF Agenda!End

-----------------------------------------------------------------------------
(* insert plans an event.                                                  *)

\* A set of numbers that is not empty has a smallest one.
LEMMA Smallest ==
    ASSUME NEW T \in SUBSET Nat, T # {}
    PROVE  \E m \in T : \A n \in T : m <= n
<1>1. PICK m \in T : \A n \in T : ~(<<n, m>> \in OpToRel(<, Nat))
  BY NatLessThanWellFounded, WFMin
<1>2. ASSUME NEW n \in T PROVE m <= n
  <2>1. m \in Nat /\ n \in Nat
    OBVIOUS
  <2>2. ~(n < m)
    BY <1>1, <2>1 DEF OpToRel
  <2> QED BY <2>1, <2>2
<1> QED BY <1>2

\* The positions that checkDuplicates keeps
FirstOfRun(q) == {i \in 1..Len(q) : i > 1 => ~SameObject(q[i - 1], q[i])}

\* Of a run of duplicates in a sorted vector the first one is kept, which is not
\* later than the others.
LEMMA TwinKept ==
    ASSUME NEW q \in Seq(Adapter), NEW t \in [Adapter -> Time], Sorted(q, t),
           NEW i \in 1..Len(q), i \notin FirstOfRun(q)
    PROVE  \E k \in FirstOfRun(q) : SameObject(q[k], q[i]) /\ t[q[k]] <= t[q[i]]
<1>1. Len(q) \in Nat /\ \A k \in 1..Len(q) : q[k] \in Adapter
  OBVIOUS
<1>2. i > 1 /\ SameObject(q[i - 1], q[i])
  BY DEF FirstOfRun
<1> DEFINE T == {m \in 1..Len(q) : m <= i /\ SameObject(q[m], q[i])}
<1>3. i \in T
  BY <1>1, <1>2 DEF SameObject
<1>4. PICK m \in T : \A n \in T : m <= n
  <2>1. T \in SUBSET Nat /\ T # {}
    BY <1>1, <1>3
  <2> HIDE DEF T
  <2> QED BY <2>1, Smallest
<1>5. m \in 1..Len(q) /\ m <= i /\ SameObject(q[m], q[i])
  OBVIOUS
<1>6. m \in FirstOfRun(q)
  <2> SUFFICES ASSUME m > 1, SameObject(q[m - 1], q[m]) PROVE FALSE
    BY <1>5 DEF FirstOfRun
  <2>1. m - 1 \in 1..Len(q) /\ m - 1 <= i /\ ~(m <= m - 1)
    BY <1>1, <1>5
  <2>2. SameObject(q[m - 1], q[i])
    BY <1>5 DEF SameObject
  <2>3. m - 1 \in T
    BY <2>1, <2>2
  <2> HIDE DEF T
  <2> QED BY <1>4, <2>1, <2>3
<1>7. t[q[m]] <= t[q[i]]
  <2>1. t[q[m]] \in Int
    BY <1>1, <1>5, TimeAssumption DEF Time
  <2>2. m = i \/ m < i
    BY <1>1, <1>5
  <2>3. CASE m = i
    BY <2>1, <2>3
  <2>4. CASE m < i
    BY <1>5, <2>4 DEF Sorted
  <2> QED BY <2>2, <2>3, <2>4
<1> QED BY <1>5, <1>6, <1>7

\* What insert leaves in the vector: what was there and the new event, except
\* for those with a twin that is not later.
LEMMA InsertTwins ==
    ASSUME TypeInv, TypeInv', NEW a \in Adapter, NEW t \in Time, insert(a, t)
    PROVE  /\ Inserted' \subseteq Inserted \cup {a}
           /\ \A d \in (Inserted \cup {a}) \ Inserted' : \E b \in Inserted' :
                    SameObject(b, d) /\ nextTime'[b] <= nextTime'[d]
<1> DEFINE s == Append(events, a)
<1>1. /\ events \in Seq(Adapter) /\ Injective(events) /\ a \notin Inserted
      /\ nextTime' \in [Adapter -> Time]
  BY DEF TypeInv, TypeOK, insert
<1>2. s \in Seq(Adapter) /\ Len(s) = Len(events) + 1
      /\ s[Len(events) + 1] = a
      /\ \A i \in 1..Len(events) : s[i] = events[i]
  BY <1>1
<1>3. Injective(s)
  BY <1>1, <1>2 DEF Injective, Inserted
<1>4. Elems(s) = Inserted \cup {a}
  BY <1>1, <1>2 DEF Elems, Inserted
<1>5. PICK q \in SortOf(s, nextTime') : events' \in checkDuplicates(q)
  BY DEF insert
<1> HIDE DEF s
<1>6. q \in Seq(Adapter) /\ Injective(q) /\ Elems(q) = Elems(s) /\ Sorted(q, nextTime')
  BY <1>1, <1>2, <1>3, <1>5, SortLemma
<1>7. events' \in Keep(q, FirstOfRun(q)) /\ FirstOfRun(q) \in SUBSET (1..Len(q))
  BY <1>5 DEF checkDuplicates, FirstOfRun
<1>8. Elems(events') \subseteq Elems(q) /\ \A k \in FirstOfRun(q) : q[k] \in Elems(events')
  BY <1>6, <1>7, KeepLemma
<1>9. Inserted' = Elems(events')
  BY DEF Inserted, Elems
<1>10. ASSUME NEW d \in (Inserted \cup {a}) \ Inserted'
       PROVE  \E b \in Inserted' : SameObject(b, d) /\ nextTime'[b] <= nextTime'[d]
  <2>1. PICK i \in 1..Len(q) : q[i] = d
    BY <1>4, <1>6 DEF Elems
  <2>2. i \notin FirstOfRun(q)
    BY <1>8, <1>9, <1>10, <2>1
  <2>3. PICK k \in FirstOfRun(q) : SameObject(q[k], q[i]) /\ nextTime'[q[k]] <= nextTime'[q[i]]
    BY <1>1, <1>6, <2>2, TwinKept
  <2> QED BY <1>8, <1>9, <2>1, <2>3
<1> QED BY <1>4, <1>6, <1>8, <1>9, <1>10

\* insert plans an event, and may drop a duplicate.
LEMMA InsertPlans ==
    ASSUME TypeInv, TypeInv', DeliveryInv, PairInv, FlagInv, NEW a \in Adapter,
           NEW t \in Time, insert(a, t)
    PROVE  Agenda!Plan(a, t)
<1> DEFINE P == Unflagged(Inserted)
           times == [b \in P \cup {a} |-> IF b = a THEN t ELSE agenda[b]]
           S == Unflagged(Inserted')
<1>1. /\ nextTime \in [Adapter -> Time] /\ Inserted \subseteq Adapter
      /\ removeEvent \in [Adapter -> BOOLEAN] /\ a \notin Inserted
  BY DEF TypeInv, TypeOK, insert
<1>2. /\ nextTime' = [nextTime EXCEPT ![a] = t] /\ a \notin created
      /\ UNCHANGED <<clock, call, pass, owed, removeEvent>>
  BY DEF insert, control
<1>3. ~removeEvent[a] /\ a \notin P
  BY <1>1, <1>2 DEF FlagInv, Unflagged
<1>4. Unflagged(Inserted)' = S /\ Unflagged(owed)' = Unflagged(owed)
  BY <1>2 DEF Unflagged
<1>5. phase' = phase
  BY <1>2 DEF phase, Idle
<1>6. S \in SUBSET (P \cup {a})
  <2>1. Inserted' \subseteq Inserted \cup {a}
    BY InsertTwins
  <2> QED BY <2>1 DEF Unflagged
<1>o. a \notin owed
  <2>1. pass = "none" /\ (AfterPartA => \A b \in owed : b \in created)
    BY DEF insert, DeliveryInv, OwedInv, PairInv
  <2> QED BY <1>2, <2>1 DEF DeliveryInv, OwedInv
<1>7. \A b \in P \cup {a} : times[b] = PlannedTime(b)'
  <2>1. \A b \in P : b # a /\ b \in Adapter /\ agenda[b] = PlannedTime(b)
    BY <1>1, <1>3, AgendaIs DEF Unflagged
  <2>2. \A b \in P : PlannedTime(b)' = PlannedTime(b)
    BY <1>1, <1>2, <2>1 DEF PlannedTime, Due
  <2>3. PlannedTime(a)' = t
    BY <1>1, <1>2, <1>o DEF PlannedTime
  <2> QED BY <2>1, <2>2, <2>3
<1>8. agenda' = [b \in S |-> times[b]]
  <2>1. agenda' = [b \in S |-> PlannedTime(b)']
    BY <1>4 DEF agenda, PlannedTime
  <2> HIDE DEF times, S
  <2> QED BY <1>6, <1>7, <2>1
<1>9. ASSUME NEW d \in (P \cup {a}) \ S
      PROVE  \E b \in S : /\ <<b, d>> \in {p \in Adapter \X Adapter : SameObject(p[1], p[2])}
                          /\ times[b] <= times[d] \/ d \in Unflagged(owed)
  <2>1. d \in Inserted \cup {a} /\ d \notin Inserted' /\ d \in Adapter
    BY <1>1, <1>3 DEF Unflagged
  <2>2. PICK b \in Inserted' : SameObject(b, d) /\ nextTime'[b] <= nextTime'[d]
    BY <2>1, InsertTwins
  <2>3. b \in Adapter
    <3>1. Inserted' \subseteq Inserted \cup {a}
      BY InsertTwins
    <3> QED BY <1>1, <3>1
  <2>4. ~removeEvent[b]
    BY <2>2, <2>3 DEF FlagInv, SameObject
  <2>5. b \in S
    BY <2>4 DEF Unflagged
  <2>6. times[b] = PlannedTime(b)' /\ times[d] = PlannedTime(d)'
    <3> HIDE DEF times, S
    <3> QED BY <1>6, <1>7, <1>9, <2>5
  <2>7. d \in owed => d \in Unflagged(owed)
    BY <2>1, <2>2 DEF FlagInv, SameObject, Unflagged
  <2>8. d \notin owed => PlannedTime(b)' <= PlannedTime(d)'
    <3>1. /\ nextTime' \in [Adapter -> Time] /\ clock' \in 0..Horizon
      BY DEF TypeInv, TypeOK
    <3>2. nextTime'[b] \in Int /\ nextTime'[d] \in Int /\ clock' \in Int /\ Tol \in Nat
      BY <2>1, <2>3, <3>1, TimeAssumption DEF Time
    <3>3. PlannedTime(b)' <= nextTime'[b]
      BY <3>2 DEF PlannedTime, Due
    <3>4. d \notin owed => PlannedTime(d)' = nextTime'[d]
      BY <1>2 DEF PlannedTime
    <3>5. PlannedTime(b)' \in Int
      BY <3>2 DEF PlannedTime
    <3> QED BY <2>2, <3>2, <3>3, <3>4, <3>5
  <2> HIDE DEF times, S
  <2> QED BY <2>1, <2>2, <2>3, <2>5, <2>6, <2>7, <2>8
<1>10. Agenda!Planned = P
  BY AgendaIs
<1>11. /\ a \notin Agenda!Planned
       /\ agenda' = Agenda!Only(times, S)
  BY <1>3, <1>8, <1>10 DEF Agenda!Only
<1>12. DOMAIN agenda' = S
  BY <1>8
<1> HIDE DEF P, S
<1> QED BY <1>2, <1>4, <1>5, <1>6, <1>9, <1>10, <1>11, <1>12 DEF Agenda!Plan

-----------------------------------------------------------------------------
\* Every step of the queue is a step of the agenda or is not seen by it.
LEMMA AgendaStep ==
    ASSUME PowerflowSucceeds
    PROVE  /\ TypeInv /\ TypeInv' /\ DeliveryInv /\ PairInv
           /\ FlagInv /\ DebtInv /\ [Next]_vars
           => Agenda!Next \/ UNCHANGED AgendaVars
<1> SUFFICES ASSUME TypeInv, TypeInv', DeliveryInv, PairInv, FlagInv, DebtInv,
                    [Next]_vars
             PROVE  Agenda!Next \/ UNCHANGED AgendaVars
  OBVIOUS
<1>1. ASSUME NEW a \in Adapter, NEW t \in 0..Horizon \cup {Inf}, insert(a, t)
      PROVE  Agenda!Next
  <2>1. t \in Time /\ t \in 0..Inf
    BY TimeAssumption DEF Time
  <2>2. Agenda!Plan(a, t)
    BY <1>1, <2>1, InsertPlans
  <2> QED BY <2>1, <2>2 DEF Agenda!Next
<1>2. ASSUME NEW s \in Source, NEW t \in 0..Horizon \cup {Inf}, changeUpdateTime(s, t)
      PROVE  Agenda!Next
  <2>1. /\ UNCHANGED <<clock, call, pass, owed, removeEvent>>
        /\ events' \in StableSortOf(events, nextTime')
    BY <1>2 DEF changeUpdateTime, control
  <2>2. \A a \in Adapter : Kind[a] = "function" => nextTime'[a] = nextTime[a]
    BY <1>2 DEF changeUpdateTime, updatedTime
  <2>3. Agenda!Replan
    BY <2>1, <2>2, RecheckReplans
  <2> QED BY <2>3 DEF Agenda!Next
<1>3. ASSUME NEW a \in Adapter, remove(a) PROVE Agenda!Next \/ UNCHANGED AgendaVars
  BY <1>3, RemoveWithdraws DEF Agenda!Next
<1>4. ASSUME NEW t \in 0..Horizon, NEW period \in {nullPeriod, Period[Null]}, nullEventTime(t, period) PROVE Agenda!Next
  <2>1. /\ UNCHANGED <<clock, call, pass, owed, removeEvent>>
        /\ events' \in StableSortOf(events, nextTime')
        /\ nextTime' = [nextTime EXCEPT ![Null] = t]
    BY <1>4 DEF nullEventTime, Idle, control, history
  <2>2. nextTime \in [Adapter -> Time] /\ Kind[Null] = "null"
    BY AdapterAssumption DEF TypeInv, TypeOK
  <2>3. \A a \in Adapter : Kind[a] = "function" => nextTime'[a] = nextTime[a]
    BY <2>1, <2>2
  <2>4. Agenda!Replan
    BY <2>1, <2>3, RecheckReplans
  <2> QED BY <2>4 DEF Agenda!Next
<1>5. ASSUME NEW t \in 0..Horizon, dynamicStep(t) \/ powerflowStep(t) PROVE Agenda!Next
  BY <1>5, StepAdvances DEF Agenda!Next
<1>6. CASE executeEvents
  BY <1>6, ExecuteSkips DEF Agenda!Next
<1>7. CASE powerflow \/ beginB
  BY <1>7, BetweenPartsStutters
<1>8. CASE beginA
  BY <1>8, BeginBegins DEF Agenda!Next
<1>9. ASSUME NEW a \in Adapter, runInA(a) \/ runInB(a)
      PROVE  Agenda!Next \/ UNCHANGED AgendaVars
  BY <1>9, PassesServe DEF Agenda!Next
<1>10. ASSUME NEW a \in Adapter, executeA(a) \/ deferInA(a)
       PROVE  Agenda!Next \/ UNCHANGED AgendaVars
  BY <1>10, PartAServes DEF Agenda!Next
<1>11. CASE endA
  BY <1>11, EndAStutters
<1>12. CASE endB
  BY <1>12, EndBEnds DEF Agenda!Next
<1>13. CASE UNCHANGED vars
  <2>1. UNCHANGED <<clock, owed, removeEvent, nextTime, events, pass, call>>
    BY <1>13 DEF vars, queue, control, history
  <2>2. phase' = phase
    BY <2>1 DEF phase, Idle
  <2>3. Unflagged(Inserted)' = Unflagged(Inserted)
    BY <2>1 DEF Unflagged, Inserted
  <2> QED BY <2>1, <2>2, <2>3, AgendaStutters
<1> QED
  BY <1>1, <1>2, <1>3, <1>4, <1>5, <1>6, <1>7, <1>8, <1>9, <1>10, <1>11, <1>12, <1>13
     DEF Next, Driver, Pass, Users, Steps

\* A new queue is an agenda with the null event.
LEMMA AgendaStarts == Init => Agenda!Init
<1> SUFFICES ASSUME Init PROVE Agenda!Init
  OBVIOUS
<1>1. /\ clock = 0 /\ events = <<Null>> /\ owed = {} /\ call = "idle" /\ pass = "none"
      /\ nextTime = [a \in Adapter |-> Inf] /\ removeEvent = [a \in Adapter |-> FALSE]
  BY DEF Init
<1>2. Null \in Adapter
  BY AdapterAssumption
<1>3. Inserted = {Null}
  BY <1>1 DEF Inserted
<1>4. Unflagged(Inserted) = {Null} /\ Unflagged(owed) = {}
  BY <1>1, <1>2, <1>3 DEF Unflagged
<1>5. agenda = [a \in {Null} |-> Inf]
  BY <1>1, <1>2, <1>4 DEF agenda
<1>6. phase = "idle"
  BY <1>1 DEF phase, Idle
<1> QED BY <1>1, <1>4, <1>5, <1>6 DEF Agenda!Init

\* As long as no power flow fails, the queue of any adapters is an agenda: the
\* simulation never goes past a planned event, each step serves what is due,
\* each event once, before time goes on, what is served is over or comes later,
\* and insert, remove and recheck, at any point between the passes, change the
\* plan only as they promise.
THEOREM AgendaKept ==
    ASSUME PowerflowSucceeds
    PROVE  Spec => ImplementsAgenda
<1> DEFINE Inv == TypeInv /\ DeliveryInv /\ PairInv /\ FlagInv /\ DebtInv
<1>1. Init => Inv /\ Agenda!Init
  BY TypeInit, DeliveryInit, PairInit, AgendaInit, AgendaStarts
<1>2. Inv /\ [Next]_vars => Inv'
  BY TypeStep, DeliveryStep, PairStep, FlagStep, DebtStep
<1>3. Inv /\ Inv' /\ [Next]_vars => [Agenda!Next]_AgendaVars
  BY AgendaStep
<1>4. AgendaVars = Agenda!vars
  BY DEF AgendaVars, Agenda!vars
<1>5. Inv /\ Inv' /\ [Next]_vars => [Agenda!Next]_(Agenda!vars)
  BY <1>3, <1>4 DEF AgendaVars, Agenda!vars
<1> QED BY <1>1, <1>2, <1>5, PTL DEF Spec, ImplementsAgenda, Agenda!Spec
=============================================================================
