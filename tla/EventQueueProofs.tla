------------------------- MODULE EventQueueProofs -------------------------
(***************************************************************************)
(* Proofs about EventQueue for any set of adapters, sources and periods.   *)
(***************************************************************************)
EXTENDS EventQueue, FiniteSetTheorems, TLAPS

Elems(s) == {s[i] : i \in 1..Len(s)}

-----------------------------------------------------------------------------
(* The algorithms on the vector.                                           *)

\* A reordering of the vector holds the same adapters, each once.
LEMMA ReorderLemma ==
    ASSUME NEW s \in Seq(Adapter), Injective(s), NEW p \in Perms(Len(s))
    PROVE  /\ Reorder(s, p) \in Seq(Adapter)
           /\ Len(Reorder(s, p)) = Len(s)
           /\ Injective(Reorder(s, p))
           /\ Elems(Reorder(s, p)) = Elems(s)
<1> DEFINE q == Reorder(s, p)
           n == Len(s)
<1>1. n \in Nat /\ s \in [1..n -> Adapter] /\ DOMAIN s = 1..n
  OBVIOUS
<1>2. p \in [1..n -> 1..n] /\ Injective(p)
      /\ \A k \in 1..n : \E i \in 1..n : p[i] = k
  BY DEF Perms
<1>3. q = [i \in 1..n |-> s[p[i]]]
  BY DEF Reorder
<1>4. q \in Seq(Adapter) /\ Len(q) = n /\ DOMAIN q = 1..n
  BY <1>1, <1>2, <1>3
<1>5. Injective(q)
  <2> SUFFICES ASSUME NEW i \in 1..n, NEW j \in 1..n, q[i] = q[j]
               PROVE  i = j
    BY <1>4 DEF Injective
  <2>1. q[i] = s[p[i]] /\ q[j] = s[p[j]] /\ p[i] \in 1..n /\ p[j] \in 1..n
    BY <1>2, <1>3
  <2>2. p[i] = p[j]
    BY <1>1, <2>1 DEF Injective
  <2>3. DOMAIN p = 1..n
    BY <1>2
  <2> QED BY <1>2, <2>2, <2>3 DEF Injective
<1>6. Elems(q) = Elems(s)
  <2>1. \A i \in 1..n : q[i] = s[p[i]] /\ p[i] \in 1..n
    BY <1>2, <1>3
  <2>2. \A k \in 1..n : \E i \in 1..n : s[k] = q[i]
    <3> SUFFICES ASSUME NEW k \in 1..n PROVE \E i \in 1..n : s[k] = q[i]
      OBVIOUS
    <3>1. PICK i \in 1..n : p[i] = k
      BY <1>2
    <3>2. q[i] = s[k]
      BY <2>1, <3>1
    <3> QED BY <3>2
  <2>3. \A x : x \in Elems(q) <=> \E i \in 1..n : x = q[i]
    BY <1>4 DEF Elems
  <2>4. \A x : x \in Elems(s) <=> \E i \in 1..n : x = s[i]
    BY DEF Elems
  <2> HIDE DEF q, n
  <2> QED BY <2>1, <2>2, <2>3, <2>4
<1> QED BY <1>4, <1>5, <1>6

\* std::sort and std::stable_sort rearrange the vector into time order.
LEMMA SortLemma ==
    ASSUME NEW s \in Seq(Adapter), Injective(s), NEW t \in [Adapter -> Time],
           NEW q \in SortOf(s, t) \cup StableSortOf(s, t)
    PROVE  /\ q \in Seq(Adapter) /\ Injective(q) /\ Elems(q) = Elems(s)
           /\ Sorted(q, t)
<1>1. CASE q \in SortOf(s, t)
  <2>1. PICK p \in Perms(Len(s)) : q = Reorder(s, p)
    BY <1>1 DEF SortOf
  <2> QED BY <1>1, <2>1, ReorderLemma DEF SortOf
<1>2. CASE q \in StableSortOf(s, t)
  <2>1. PICK p \in Perms(Len(s)) :
          /\ q = Reorder(s, p)
          /\ \A i, j \in 1..Len(s) : i < j =>
               \/ t[s[p[i]]] < t[s[p[j]]]
               \/ t[s[p[i]]] = t[s[p[j]]] /\ p[i] < p[j]
    BY <1>2 DEF StableSortOf
  <2>2. /\ q \in Seq(Adapter) /\ Injective(q) /\ Elems(q) = Elems(s)
        /\ Len(q) = Len(s)
    BY <2>1, ReorderLemma
  <2>3. \A i \in 1..Len(s) : q[i] = s[p[i]] /\ q[i] \in Adapter
    BY <2>1, <2>2 DEF Reorder
  <2>4. \A a \in Adapter : t[a] \in Int
    BY TimeAssumption DEF Time
  <2>5. Sorted(q, t)
    <3> SUFFICES ASSUME NEW i \in 1..Len(s), NEW j \in 1..Len(s), i < j
                 PROVE t[q[i]] <= t[q[j]]
      BY <2>2 DEF Sorted
    <3>1. t[q[i]] \in Int /\ t[q[j]] \in Int
      BY <2>3, <2>4
    <3>2. t[q[i]] < t[q[j]] \/ t[q[i]] = t[q[j]]
      BY <2>1, <2>3
    <3> QED BY <3>1, <3>2
  <2> QED BY <2>2, <2>5
<1> QED BY <1>1, <1>2

\* Erasing positions keeps the order and exactly the adapters not erased.
LEMMA KeepLemma ==
    ASSUME NEW s \in Seq(Adapter), Injective(s), NEW K \in SUBSET (1..Len(s)),
           NEW q \in Keep(s, K)
    PROVE  /\ q \in Seq(Adapter) /\ Injective(q)
           /\ Elems(q) \subseteq Elems(s)
           /\ \A k \in K : s[k] \in Elems(q)
           /\ \A t : Sorted(s, t) => Sorted(q, t)
<1>0. Len(s) \in Nat /\ DOMAIN s = 1..Len(s) /\ \A i \in 1..Len(s) : s[i] \in Adapter
  OBVIOUS
<1>1. CASE K = 1..Len(s)
  <2>1. q = s
    BY <1>1 DEF Keep
  <2> QED BY <2>1, <1>0 DEF Elems
<1>2. CASE K # 1..Len(s)
  <2> DEFINE n == Cardinality(K)
  <2>1. PICK f \in Increasing(K) : q = [i \in 1..n |-> s[f[i]]]
    BY <1>2 DEF Keep
  <2>2. IsFiniteSet(K) /\ n \in Nat
    <3>1. IsFiniteSet(1..Len(s))
      BY <1>0, FS_Interval
    <3>2. IsFiniteSet(K)
      BY <3>1, FS_Subset
    <3> QED BY <3>2, FS_CardinalityType
  <2>3. f \in [1..n -> K] /\ \A i, j \in 1..n : i < j => f[i] < f[j]
    BY <2>1 DEF Increasing
  <2>4. \A i \in 1..n : f[i] \in 1..Len(s)
    BY <2>3
  <2>5. \A i, j \in 1..n : f[i] = f[j] => i = j
    <3> SUFFICES ASSUME NEW i \in 1..n, NEW j \in 1..n, f[i] = f[j], i # j
                 PROVE FALSE
      OBVIOUS
    <3>1. i < j \/ j < i
      BY <2>2
    <3>2. f[i] \in Int /\ f[j] \in Int
      BY <2>4, <1>0
    <3> QED BY <3>1, <3>2, <2>3
  <2>6. \A k \in K : \E i \in 1..n : f[i] = k
    <3>1. f \in Injection(1..n, K)
      BY <2>3, <2>5 DEF Injection, IsInjective
    <3>2. Cardinality(1..n) = n
      BY <2>2, FS_Interval
    <3>3. f \in Surjection(1..n, K)
      BY <3>1, <3>2, <2>2, FS_Injection
    <3> QED BY <3>3 DEF Surjection
  <2>7. q \in Seq(Adapter) /\ Len(q) = n /\ DOMAIN q = 1..n
    BY <2>1, <2>2, <2>4, <1>0
  <2>8. \A i \in 1..n : q[i] = s[f[i]]
    BY <2>1
  <2>9. Injective(q)
    BY <2>4, <2>5, <2>7, <2>8, <1>0 DEF Injective
  <2>10. Elems(q) \subseteq Elems(s)
    BY <2>4, <2>7, <2>8 DEF Elems
  <2>11. \A k \in K : s[k] \in Elems(q)
    BY <2>6, <2>7, <2>8 DEF Elems
  <2>12. \A t : Sorted(s, t) => Sorted(q, t)
    BY <2>3, <2>4, <2>7, <2>8 DEF Sorted
  <2> QED BY <2>7, <2>9, <2>10, <2>11, <2>12
<1> QED BY <1>1, <1>2

-----------------------------------------------------------------------------
(* Types, and the null event.                                              *)

\* Saturating addition of times stays within 0..Inf.
LEMMA PlusType ==
    ASSUME NEW t \in Time, NEW d \in Nat
    PROVE  Plus(t, d) \in Time
BY TimeAssumption DEF Plus, Time

\* The next sample or update time stays within 0..Inf.
LEMMA AfterType ==
    ASSUME NEW t \in Time, NEW p \in Nat \ {0}, NEW last \in Time
    PROVE  After(t, p, last) \in Time
<1>1. CASE last < t \/ t >= Inf
  BY <1>1 DEF After
<1>2. CASE ~(last < t \/ t >= Inf)
  <2>1. last - t \in Nat
    BY <1>2, TimeAssumption DEF Time
  <2>2. (last - t) \div p \in Nat
    BY <2>1
  <2> DEFINE k == (last - t) \div p + 1
  <2>3. k \in Nat
    BY <2>2
  <2> HIDE DEF k
  <2>4. k * p \in Nat
    BY <2>3
  <2>5. After(t, p, last) = Plus(t, k * p)
    BY <1>2 DEF After, k
  <2> QED BY <2>4, <2>5, PlusType
<1> QED BY <1>1, <1>2

\* The null event is in the vector and is never flagged for removal.
NullKept == NullEventStays /\ ~removeEvent[Null]

TypeInv == TypeOK /\ NullKept

\* execute() of any adapter keeps the types it touches, and never flags the
\* null event.
LEMMA ExecuteType ==
    ASSUME TypeInv, NEW a \in Adapter, execute(a)
    PROVE  /\ nextTime' \in [Adapter -> Time]
           /\ removeEvent' \in [Adapter -> BOOLEAN]
           /\ ownNext' \in [Source -> Time] /\ ownLast' \in [Source -> Time]
           /\ owed' = owed \ {a}
           /\ fired' \in [Adapter -> 0..2]
           /\ ~removeEvent'[Null]
           /\ \A b \in Adapter \ {a} : nextTime'[b] = nextTime[b]
<1> USE DEF TypeInv, TypeOK, NullKept
<1>1. Target[a] \in Source /\ Period[a] \in Nat
  BY AdapterAssumption, TimeAssumption
<1>2. fired' \in [Adapter -> 0..2] /\ owed' = owed \ {a}
  BY DEF execute, Fire
<1>3. CASE executeNull(a)
  <2>1. nextTime[a] \in Time /\ nullPeriod \in Nat /\ Inf \in Time
    BY TimeAssumption DEF Time
  <2>2. Plus(nextTime[a], nullPeriod) \in Time
    BY <2>1, PlusType
  <2> QED BY <1>2, <1>3, <2>1, <2>2 DEF executeNull, sources
<1>4. CASE executeFunction(a)
  <2>1. Plus(nextTime[a], Period[a]) \in Time
    BY <1>1, PlusType
  <2>2. a # Null
    BY <1>4, AdapterAssumption DEF executeFunction
  <2>3. /\ nextTime' \in [Adapter -> Time]
        /\ \A b \in Adapter \ {a} : nextTime'[b] = nextTime[b]
    BY <1>4, <2>1 DEF executeFunction
  <2>4. removeEvent' \in [Adapter -> BOOLEAN]
    BY <1>4 DEF executeFunction
  <2>5. ~removeEvent'[Null]
    BY <1>4, <2>2, AdapterAssumption DEF executeFunction
  <2> QED BY <1>2, <1>4, <2>3, <2>4, <2>5 DEF executeFunction, sources
<1>5. CASE executeEvent(a)
  <2>1. Period[a] > 0 => After(ownNext[Target[a]], Period[a], nextTime[a]) \in Time
    BY <1>1, AfterType
  <2>2. a # Null
    BY <1>5, AdapterAssumption DEF executeEvent
  <2>3. ownNext' \in [Source -> Time]
    BY <1>1, <1>5, <2>1 DEF executeEvent
  <2>4. ownNext'[Target[a]] \in Time
    BY <1>1, <2>3
  <2>5. /\ nextTime' \in [Adapter -> Time]
        /\ \A b \in Adapter \ {a} : nextTime'[b] = nextTime[b]
    BY <1>5, <2>4 DEF executeEvent
  <2>6. removeEvent' \in [Adapter -> BOOLEAN]
    BY <1>5 DEF executeEvent
  <2>7. ~removeEvent'[Null]
    BY <1>5, <2>2, AdapterAssumption DEF executeEvent
  <2> QED BY <1>2, <1>5, <2>3, <2>5, <2>6, <2>7 DEF executeEvent
<1>6. CASE executeObject(a)
  <2>1. Period[a] > 0
    BY <1>6, TimeAssumption DEF executeObject
  <2>2. After(ownNext[Target[a]], Period[a], ownLast[Target[a]]) \in Time
    BY <1>1, <2>1, AfterType
  <2>3. Inf \in Time
    BY TimeAssumption DEF Time
  <2> QED BY <1>2, <1>6, <2>2, <2>3 DEF executeObject
<1> QED BY <1>3, <1>4, <1>5, <1>6 DEF execute

\* insert: the vector gains one adapter, or loses a duplicate of an object.
LEMMA InsertVector ==
    ASSUME TypeInv, NEW a \in Adapter, NEW t \in Time, insert(a, t)
    PROVE  /\ events' \in Seq(Adapter) /\ Injective(events')
           /\ Inserted' \subseteq Inserted \cup {a}
           /\ Null \in Inserted'
           /\ nextTime' \in [Adapter -> Time]
           /\ Sorted(events', nextTime')
<1> DEFINE s == Append(events, a)
<1>1. events \in Seq(Adapter) /\ Injective(events) /\ a \notin Inserted
  BY DEF TypeInv, TypeOK, insert
<1>2. s \in Seq(Adapter) /\ Len(s) = Len(events) + 1
      /\ s[Len(events) + 1] = a
      /\ \A i \in 1..Len(events) : s[i] = events[i]
  BY <1>1
<1>3. Injective(s)
  BY <1>1, <1>2 DEF Injective, Inserted
<1>4. Elems(s) = Inserted \cup {a}
  BY <1>1, <1>2 DEF Elems, Inserted
<1>5. nextTime' \in [Adapter -> Time]
  BY DEF TypeInv, TypeOK, insert
<1>6. PICK q \in SortOf(s, nextTime') : events' \in checkDuplicates(q)
  BY DEF insert
<1> HIDE DEF s
<1>7. q \in Seq(Adapter) /\ Injective(q) /\ Elems(q) = Elems(s) /\ Sorted(q, nextTime')
  BY <1>2, <1>3, <1>5, <1>6, SortLemma
<1> DEFINE K == {i \in 1..Len(q) : i > 1 => ~SameObject(q[i - 1], q[i])}
<1>8. events' \in Keep(q, K) /\ K \in SUBSET (1..Len(q))
  BY <1>6 DEF checkDuplicates
<1>9. PICK n \in 1..Len(q) : q[n] = Null
  BY <1>4, <1>7 DEF Elems, TypeInv, NullKept, NullEventStays
<1>10. n \in K
  BY <1>9, AdapterAssumption DEF SameObject
<1> HIDE DEF K
<1>11. /\ events' \in Seq(Adapter) /\ Injective(events')
       /\ Elems(events') \subseteq Elems(q)
       /\ q[n] \in Elems(events')
       /\ Sorted(events', nextTime')
  BY <1>7, <1>8, <1>10, KeepLemma
<1>12. Inserted' = Elems(events')
  BY DEF Inserted, Elems
<1> QED BY <1>4, <1>5, <1>7, <1>9, <1>11, <1>12

\* recheck and sort: the same adapters in time order.
LEMMA StableVector ==
    ASSUME TypeInv, nextTime' \in [Adapter -> Time],
           events' \in StableSortOf(events, nextTime')
    PROVE  /\ events' \in Seq(Adapter) /\ Injective(events')
           /\ Inserted' = Inserted
           /\ Sorted(events', nextTime')
<1>1. events \in Seq(Adapter) /\ Injective(events)
  BY DEF TypeInv, TypeOK
<1>2. Inserted' = Elems(events') /\ Inserted = Elems(events)
  BY DEF Inserted, Elems
<1> QED BY <1>1, <1>2, SortLemma

\* Erasing positions that do not hold the null event.
LEMMA KeepVector ==
    ASSUME TypeInv, NEW K \in SUBSET (1..Len(events)), events' \in Keep(events, K),
           \A i \in 1..Len(events) : events[i] = Null => i \in K
    PROVE  /\ events' \in Seq(Adapter) /\ Injective(events')
           /\ Inserted' \subseteq Inserted
           /\ Null \in Inserted'
           /\ \A t : Sorted(events, t) => Sorted(events', t)
<1>1. events \in Seq(Adapter) /\ Injective(events)
  BY DEF TypeInv, TypeOK
<1>2. Inserted' = Elems(events') /\ Inserted = Elems(events)
  BY DEF Inserted, Elems
<1>3. PICK n \in 1..Len(events) : events[n] = Null
  BY DEF TypeInv, NullKept, NullEventStays, Inserted
<1>4. n \in K
  BY <1>3
<1> QED BY <1>1, <1>2, <1>3, <1>4, KeepLemma

\* A new queue holds the null event alone.
LEMMA TypeInit == Init => TypeInv
<1> SUFFICES ASSUME Init PROVE TypeInv
  OBVIOUS
<1>1. Null \in Adapter /\ Inf \in Time /\ 0 \in Time /\ 0 \in 0..Horizon
  BY AdapterAssumption, TimeAssumption DEF Time
<1>2. events = <<Null>> /\ events \in Seq(Adapter) /\ Len(events) = 1
  BY <1>1 DEF Init
<1>3. Injective(events) /\ Inserted = {Null}
  BY <1>2 DEF Injective, Inserted
<1>4. removeEvent \in [Adapter -> BOOLEAN] /\ ~removeEvent[Null]
  BY <1>1 DEF Init
<1>5. /\ nextTime \in [Adapter -> Time] /\ partB \in Seq(Adapter)
      /\ ownNext \in [Source -> Time] /\ ownLast \in [Source -> Time]
      /\ fired \in [Adapter -> 0..2]
  BY <1>1 DEF Init
<1>6. partBturn \in [Adapter -> BOOLEAN]
  BY DEF Init
<1>7. /\ clock \in 0..Horizon /\ nullPeriod \in Nat /\ overtaken \subseteq Adapter
      /\ call \in Calls /\ pass \in {"none", "A", "B"}
      /\ pos \in Nat \ {0}
      /\ owed \subseteq Adapter /\ created \subseteq Adapter
      /\ Inserted \subseteq created
  BY <1>1, <1>3 DEF Init, Calls
<1>9. removing \in BOOLEAN
  BY DEF Init
<1>8. TypeOK
  BY <1>2, <1>3, <1>4, <1>5, <1>6, <1>7, <1>9 DEF TypeOK
<1> QED BY <1>3, <1>4, <1>8 DEF TypeInv, NullKept, NullEventStays

\* TypeInv is inductive: one step for each action.
LEMMA TypeStep == TypeInv /\ [Next]_vars => TypeInv'
<1> SUFFICES ASSUME TypeInv, [Next]_vars PROVE TypeInv'
  OBVIOUS
<1> USE DEF TypeInv, TypeOK, NullKept, NullEventStays
<1>a. /\ \A t \in 0..Horizon \cup {Inf} : t \in Time
      /\ \A t \in 0..Horizon : t \in Time
      /\ Following \in Calls /\ "idle" \in Calls
  <2>1. Following \in Calls /\ "idle" \in Calls
    BY DEF Following, Calls
  <2>2. \A t \in 0..Horizon \cup {Inf} : t \in Time
    BY TimeAssumption DEF Time
  <2> QED BY <2>1, <2>2
<1>b. ASSUME events' = events PROVE Inserted' = Inserted
  BY <1>b DEF Inserted
<1>1. ASSUME NEW a \in Adapter, NEW t \in 0..Horizon \cup {Inf}, insert(a, t)
      PROVE  TypeInv'
  <2>1. t \in Time
    BY <1>a
  <2>2. /\ events' \in Seq(Adapter) /\ Injective(events')
        /\ Inserted' \subseteq Inserted \cup {a}
        /\ Null \in Inserted'
        /\ nextTime' \in [Adapter -> Time]
    BY <1>1, <2>1, InsertVector
  <2>3. ownNext' \in [Source -> Time]
    BY <1>1, <2>1 DEF insert
  <2>4. created' \subseteq Adapter /\ Inserted' \subseteq created'
    BY <1>1, <2>2 DEF insert
  <2> QED BY <1>1, <2>2, <2>3, <2>4 DEF insert, control
<1>2. ASSUME NEW x \in Source, NEW t \in 0..Horizon \cup {Inf}, changeUpdateTime(x, t)
      PROVE  TypeInv'
  <2>1. ownNext' \in [Source -> Time]
    BY <1>2, <1>a DEF changeUpdateTime
  <2>2. \A b \in Adapter : updatedTime(b, ownNext') \in Time
    BY <2>1, AdapterAssumption DEF updatedTime
  <2>3. nextTime' \in [Adapter -> Time]
    BY <1>2, <2>2 DEF changeUpdateTime
  <2>4. events' \in Seq(Adapter) /\ Injective(events') /\ Inserted' = Inserted
    BY <1>2, <2>3, StableVector DEF changeUpdateTime
  <2>5. Waiting \subseteq Adapter
    BY DEF Waiting
  <2>6. overtaken' \subseteq Adapter
    BY <1>2, <2>5 DEF changeUpdateTime
  <2> QED BY <1>2, <2>1, <2>3, <2>4, <2>6 DEF changeUpdateTime, control
<1>3. ASSUME NEW a \in Adapter, remove(a)
      PROVE  TypeInv'
  <2> DEFINE K == {i \in 1..Len(events) : events[i] # a}
  <2>1. events' \in Keep(events, K) /\ a # Null
    BY <1>3 DEF remove
  <2>2. \A i \in 1..Len(events) : events[i] = Null => i \in K
    BY <2>1
  <2>3. K \in SUBSET (1..Len(events))
    OBVIOUS
  <2> HIDE DEF K
  <2>4. /\ events' \in Seq(Adapter) /\ Injective(events')
        /\ Inserted' \subseteq Inserted /\ Null \in Inserted'
    BY <2>1, <2>2, <2>3, KeepVector
  <2> QED BY <1>3, <2>4 DEF remove, sources, control, history
<1>4. ASSUME NEW t \in 0..Horizon, NEW period \in {nullPeriod, Period[Null]}, nullEventTime(t, period)
      PROVE  TypeInv'
  <2>1. nextTime' \in [Adapter -> Time]
    BY <1>4, <1>a DEF nullEventTime
  <2>2. events' \in Seq(Adapter) /\ Injective(events') /\ Inserted' = Inserted
    BY <1>4, <2>1, StableVector DEF nullEventTime
  <2>3. Period[Null] \in Nat /\ nullPeriod \in Nat
    BY AdapterAssumption, TimeAssumption
  <2>4. nullPeriod' \in Nat
    BY <1>4, <2>3 DEF nullEventTime
  <2> QED BY <1>4, <2>1, <2>2, <2>4 DEF nullEventTime, sources, history
<1>5. ASSUME NEW t \in 0..Horizon, dynamicStep(t) \/ powerflowStep(t)
      PROVE  TypeInv'
  BY <1>5, <1>b DEF dynamicStep, powerflowStep, StepTo, queue, sources, Calls
<1>6. CASE executeEvents \/ powerflow
  BY <1>6, <1>a, <1>b DEF executeEvents, powerflow, queue, sources, history, Calls
<1>7. CASE beginA
  BY <1>7, <1>a, <1>b DEF beginA, queue, sources, Inserted
<1>8. ASSUME NEW a \in Adapter, runInA(a) PROVE TypeInv'
  <2>1. execute(a)
    BY <1>8 DEF runInA
  <2>2. pos' \in Nat \ {0}
    BY <1>8 DEF runInA, AtDueEvent
  <2>3. partBturn' \in [Adapter -> BOOLEAN]
    BY <1>8 DEF runInA
  <2>4. removing' \in BOOLEAN
    BY <1>8, <2>1, ExecuteType DEF runInA
  <2>5. /\ nextTime' \in [Adapter -> Time]
        /\ removeEvent' \in [Adapter -> BOOLEAN]
        /\ ownNext' \in [Source -> Time] /\ ownLast' \in [Source -> Time]
        /\ owed' \subseteq Adapter
        /\ fired' \in [Adapter -> 0..2]
        /\ ~removeEvent'[Null]
    BY <2>1, ExecuteType
  <2> QED BY <1>8, <1>b, <2>2, <2>3, <2>4, <2>5 DEF runInA
<1>9. ASSUME NEW a \in Adapter, deferInA(a) PROVE TypeInv'
  <2>1. pos' \in Nat \ {0} /\ partB' \in Seq(Adapter)
    BY <1>9 DEF deferInA, AtDueEvent
  <2> QED BY <1>9, <1>b, <2>1 DEF deferInA, sources, history
<1>10. ASSUME NEW a \in Adapter, executeA(a) PROVE TypeInv'
  <2>1. pos' \in Nat \ {0}
    BY <1>10 DEF executeA, AtDueEvent
  <2>2. Target[a] \in Source /\ PartBDelay[a] \in Nat
    BY AdapterAssumption, TimeAssumption
  <2>3. Plus(nextTime[a], PartBDelay[a]) \in Time
    BY <2>2, PlusType
  <2>4. nextTime' \in [Adapter -> Time] /\ ownLast' \in [Source -> Time]
    BY <1>10, <2>2, <2>3 DEF executeA
  <2>5. partB' \in Seq(Adapter)
    <3>1. partB' = Append(partB, a) \/ partB' = partB
      BY <1>10 DEF executeA
    <3>2. partB \in Seq(Adapter)
      OBVIOUS
    <3> HIDE DEF TypeInv, TypeOK
    <3>3. Append(partB, a) \in Seq(Adapter)
      BY <3>2
    <3> QED BY <3>1, <3>2, <3>3
  <2>7. partBturn' \in [Adapter -> BOOLEAN]
    BY <1>10 DEF executeA
  <2>6. owed' \subseteq Adapter
    BY <1>10 DEF executeA
  <2> QED BY <1>10, <1>b, <2>1, <2>4, <2>5, <2>6, <2>7 DEF executeA
<1>11. CASE endA
  <2> DEFINE K == {i \in 1..Len(events) :
                    ~(removing /\ i < pos /\ removeEvent[events[i]])}
  <2>1. events' \in Keep(events, K) /\ K \in SUBSET (1..Len(events))
    BY <1>11 DEF endA, EndOfA
  <2>2. \A i \in 1..Len(events) : events[i] = Null => i \in K
    OBVIOUS
  <2> HIDE DEF K
  <2>3. /\ events' \in Seq(Adapter) /\ Injective(events')
        /\ Inserted' \subseteq Inserted /\ Null \in Inserted'
    BY <2>1, <2>2, KeepVector
  <2>4. /\ call' \in Calls /\ pass' = "none" /\ pos' = 1
        /\ UNCHANGED <<partB, nextTime, removeEvent, partBturn, ownNext, ownLast,
                       clock, nullPeriod, owed, fired, created, overtaken>>
    BY <1>11, <1>a DEF endA, EndOfA, sources, history
  <2>5. removing' \in BOOLEAN
    BY <1>11 DEF endA, EndOfA
  <2> QED BY <2>3, <2>4, <2>5
<1>12. CASE beginB
  BY <1>12, <1>b DEF beginB, queue, sources, history
<1>13. ASSUME NEW a \in Adapter, runInB(a) PROVE TypeInv'
  <2>1. /\ nextTime' \in [Adapter -> Time]
        /\ removeEvent' \in [Adapter -> BOOLEAN]
        /\ ownNext' \in [Source -> Time] /\ ownLast' \in [Source -> Time]
        /\ owed' \subseteq Adapter
        /\ fired' \in [Adapter -> 0..2]
        /\ ~removeEvent'[Null]
    BY <1>13, ExecuteType DEF runInB
  <2>2. pos' \in Nat \ {0}
    BY <1>13 DEF runInB
  <2> QED BY <1>13, <1>b, <2>1, <2>2 DEF runInB
<1>14. CASE endB
  <2>1. nextTime' = nextTime
    BY <1>14 DEF endB, EndOfB
  <2>2. events' \in Seq(Adapter) /\ Injective(events') /\ Inserted' = Inserted
    BY <1>14, <2>1, StableVector DEF endB
  <2>3. partB' \in Seq(Adapter)
    BY <1>14 DEF endB
  <2> QED BY <1>14, <1>a, <2>1, <2>2, <2>3 DEF endB, EndOfB, sources, history
<1>15. CASE UNCHANGED vars
  BY <1>15, <1>b DEF vars, queue, sources, control, history
<1> QED
  BY <1>1, <1>2, <1>3, <1>4, <1>5, <1>6, <1>7, <1>8, <1>9, <1>10, <1>11, <1>12,
     <1>13, <1>14, <1>15 DEF Next, Driver, Pass, Users, Steps

\* For any set of adapters, whatever faults occur: every variable keeps its
\* type, the vector never holds an adapter twice, and the null event stays,
\* so that the unchecked front() of getNextTime and executeEvents is defined.
THEOREM TypeCorrect == Spec => [](TypeOK /\ NullEventStays)
<1>1. TypeInv => TypeOK /\ NullEventStays
  BY DEF TypeInv, NullKept
<1> QED BY <1>1, TypeInit, TypeStep, PTL DEF Spec

\* The part of it that getNextTime rests on: no erase, of the A pass, of
\* remove or of checkDuplicates, takes the null event.
THEOREM NeverEmpty == Spec => []NullEventStays
<1>1. TypeOK /\ NullEventStays => NullEventStays
  OBVIOUS
<1> QED BY <1>1, TypeCorrect, PTL

-----------------------------------------------------------------------------
(* The queue delivers what is due.                                         *)

\* A pass runs only inside the call it belongs to.
PassInCall ==
    /\ pass = "A" => call \in {"A", "A, powerflow"}
    /\ pass = "B" => call \in {"B", "B first"}
    /\ pass = "none" => pos = 1

AfterPartA == pass = "none" /\ call \in {"powerflow", "B"}

\* The vector is in time order except from the start of the A pass to the end
\* of the B pass; during the A pass what lies ahead of the iterator still is.
OrderInv ==
    /\ pass = "none" /\ ~AfterPartA => Sorted(events, nextTime)
    /\ pass = "A" => \A i, j \in 1..Len(events) :
            pos <= i /\ i < j => nextTime[events[i]] <= nextTime[events[j]]

\* An adapter still owed an execution lies ahead of the iterator and is due,
\* or waits in partB_list ahead of the iterator of the B pass.
OwedInv ==
    /\ pass = "none" /\ ~AfterPartA => owed = {}
    /\ pass = "A" => \A a \in owed :
            \/ \E i \in 1..Len(partB) : a = partB[i]
            \/ \E i \in 1..Len(events) : pos <= i /\ a = events[i] /\ Due(nextTime[a])
    /\ AfterPartA => \A a \in owed : \E i \in 1..Len(partB) : a = partB[i]
    /\ pass = "B" => \A a \in owed : \E i \in 1..Len(partB) : pos <= i /\ a = partB[i]

DeliveryInv == PassInCall /\ OrderInv /\ OwedInv

\* Nothing is owed and one event is in order.
LEMMA DeliveryInit == Init => DeliveryInv
BY DEF Init, DeliveryInv, PassInCall, OrderInv, OwedInv, AfterPartA, Sorted

\* A step of the pass A on the adapter at the iterator.
LEMMA PassAStep ==
    ASSUME TypeInv, TypeInv', DeliveryInv, NEW a \in Adapter,
           AtDueEvent(a), events' = events, call' = call, pass' = pass, clock' = clock,
           \A b \in Adapter \ {a} : nextTime'[b] = nextTime[b],
           \/ owed' = owed \ {a} /\ partB' = partB
           \/ owed' = owed /\ partB' = Append(partB, a)
    PROVE  DeliveryInv'
<1> USE DEF TypeInv, TypeOK
<1>1. pass = "A" /\ pos \in 1..Len(events) /\ events[pos] = a /\ pos' = pos + 1
  BY DEF AtDueEvent
<1>2. \A i \in 1..Len(events) : pos' <= i => events[i] # a
  BY <1>1 DEF Injective
<1>3. \A i \in 1..Len(events) : pos' <= i => nextTime'[events[i]] = nextTime[events[i]]
  BY <1>2
<1>4. OrderInv'
  BY <1>1, <1>3 DEF DeliveryInv, OrderInv, AfterPartA
<1>5. ASSUME NEW b \in owed', b # a
      PROVE \/ \E i \in 1..Len(partB') : b = partB'[i]
            \/ \E i \in 1..Len(events) : pos' <= i /\ b = events[i] /\ Due(nextTime[b])'
  <2>1. b \in owed /\ b \in Adapter
    BY <1>5
  <2>2. CASE \E i \in 1..Len(partB) : b = partB[i]
    <3>1. PICK i \in 1..Len(partB) : b = partB[i]
      BY <2>2
    <3>2. i \in 1..Len(partB') /\ partB'[i] = partB[i]
      OBVIOUS
    <3> QED BY <3>1, <3>2
  <2>3. CASE \E i \in 1..Len(events) : pos <= i /\ b = events[i] /\ Due(nextTime[b])
    <3>1. PICK i \in 1..Len(events) : pos <= i /\ b = events[i] /\ Due(nextTime[b])
      BY <2>3
    <3>2. i # pos
      BY <1>1, <1>5, <3>1
    <3>3. pos' <= i
      BY <1>1, <3>1, <3>2
    <3>4. Due(nextTime[b])'
      BY <1>5, <2>1, <3>1 DEF Due
    <3> QED BY <3>1, <3>3, <3>4
  <2> QED BY <1>1, <2>1, <2>2, <2>3 DEF DeliveryInv, OwedInv
<1>6. a \in owed' => \E i \in 1..Len(partB') : a = partB'[i]
  <2> SUFFICES ASSUME a \in owed' PROVE \E i \in 1..Len(partB') : a = partB'[i]
    OBVIOUS
  <2>1. partB' = Append(partB, a)
    OBVIOUS
  <2>2. Len(partB) + 1 \in 1..Len(partB') /\ partB'[Len(partB) + 1] = a
    BY <2>1
  <2> QED BY <2>2
<1>7. OwedInv'
  BY <1>1, <1>5, <1>6 DEF OwedInv, AfterPartA
<1>8. PassInCall'
  BY <1>1 DEF DeliveryInv, PassInCall
<1> QED BY <1>4, <1>7, <1>8 DEF DeliveryInv

PowerflowSucceeds == ~Failing

\* DeliveryInv is inductive as long as the power flow does not fail.
LEMMA DeliveryStep ==
    ASSUME PowerflowSucceeds
    PROVE  TypeInv /\ TypeInv' /\ DeliveryInv /\ [Next]_vars => DeliveryInv'
<1> SUFFICES ASSUME TypeInv, TypeInv', DeliveryInv, [Next]_vars PROVE DeliveryInv'
  OBVIOUS
<1>0. PassInCall /\ OrderInv /\ OwedInv
  BY DEF DeliveryInv
<1>a. /\ nextTime \in [Adapter -> Time] /\ nextTime' \in [Adapter -> Time]
      /\ events \in Seq(Adapter) /\ pos \in Nat \ {0} /\ partB \in Seq(Adapter)
      /\ owed \subseteq Adapter /\ clock \in Nat /\ call \in Calls
  BY TimeAssumption DEF TypeInv, TypeOK
<1>b. ASSUME pass = "none", Sorted(events', nextTime'),
             UNCHANGED <<pass, call, pos, owed, partB>>
      PROVE  DeliveryInv'
  BY <1>0, <1>b DEF PassInCall, OrderInv, OwedInv, DeliveryInv, AfterPartA
<1>1. ASSUME NEW a \in Adapter, NEW t \in 0..Horizon \cup {Inf}, insert(a, t)
      PROVE  DeliveryInv'
  <2>1. t \in Time
    BY TimeAssumption DEF Time
  <2>2. Sorted(events', nextTime')
    BY <1>1, <2>1, InsertVector
  <2> QED BY <1>1, <1>b, <2>2 DEF insert, control
<1>2. ASSUME NEW x \in Source, NEW t \in 0..Horizon \cup {Inf}, changeUpdateTime(x, t)
      PROVE  DeliveryInv'
  <2>1. Sorted(events', nextTime')
    BY <1>2, <1>a, StableVector DEF changeUpdateTime
  <2> QED BY <1>2, <1>b, <2>1 DEF changeUpdateTime, control, history
<1>3. ASSUME NEW a \in Adapter, remove(a)
      PROVE  DeliveryInv'
  <2> DEFINE K == {i \in 1..Len(events) : events[i] # a}
  <2>1. events' \in Keep(events, K) /\ a # Null
    BY <1>3 DEF remove
  <2>2. \A i \in 1..Len(events) : events[i] = Null => i \in K
    BY <2>1
  <2>3. K \in SUBSET (1..Len(events))
    OBVIOUS
  <2> HIDE DEF K
  <2>4. Sorted(events, nextTime) => Sorted(events', nextTime)
    BY <2>1, <2>2, <2>3, KeepVector
  <2>5. UNCHANGED <<nextTime, pass, call, pos, owed, partB>> /\ pass = "none"
    BY <1>3 DEF remove, control, history
  <2> QED BY <1>0, <2>4, <2>5 DEF PassInCall, OrderInv, OwedInv, DeliveryInv, AfterPartA
<1>4. ASSUME NEW t \in 0..Horizon, NEW period \in {nullPeriod, Period[Null]}, nullEventTime(t, period)
      PROVE  DeliveryInv'
  <2>1. Sorted(events', nextTime')
    BY <1>4, <1>a, StableVector DEF nullEventTime
  <2> QED BY <1>4, <1>b, <2>1 DEF nullEventTime, Idle, control, history
<1>5. ASSUME NEW t \in 0..Horizon, dynamicStep(t) \/ powerflowStep(t)
      PROVE  DeliveryInv'
  <2>1. /\ pass = "none" /\ call = "idle" /\ pass' = "none" /\ pos' = pos
        /\ owed' = {} /\ UNCHANGED <<events, nextTime>>
        /\ call' \in {"executeEvents", "A, powerflow"}
    BY <1>5 DEF dynamicStep, powerflowStep, StepTo, Idle, queue
  <2> QED BY <1>0, <2>1 DEF PassInCall, OrderInv, OwedInv, DeliveryInv, AfterPartA
<1>6. CASE executeEvents \/ powerflow
  <2>1. /\ pass = "none" /\ pass' = "none" /\ pos' = pos
        /\ UNCHANGED <<events, nextTime, owed, partB>>
    BY <1>6 DEF executeEvents, powerflow, queue, history
  <2>2. \/ call = "executeEvents" /\ call' \in {"idle", "B first", "A"}
        \/ call = "powerflow" /\ call' = "B"
    BY <1>6 DEF executeEvents, powerflow, Following, PowerflowSucceeds
  <2> QED BY <1>0, <2>1, <2>2 DEF PassInCall, OrderInv, OwedInv, DeliveryInv, AfterPartA
<1>7. CASE beginA
  <2>1. /\ pass = "none" /\ call \in {"A", "A, powerflow"} /\ pos' = pos /\ pos = 1
        /\ UNCHANGED <<events, nextTime, partB, clock>>
    BY <1>0, <1>7 DEF beginA, queue, PassInCall
  <2>2. Sorted(events, nextTime) /\ owed = {}
    BY <1>0, <2>1 DEF OrderInv, OwedInv, AfterPartA
  <2>3. CASE Due(getNextTime)
    <3>1. pass' = "A" /\ call' = call /\ owed' = {a \in Inserted : Due(nextTime[a])}
      BY <1>7, <2>3 DEF beginA
    <3>2. \A a \in owed' : \E i \in 1..Len(events) :
                pos' <= i /\ a = events[i] /\ Due(nextTime[a])'
      <4> SUFFICES ASSUME NEW a \in owed'
                   PROVE \E i \in 1..Len(events) :
                            pos' <= i /\ a = events[i] /\ Due(nextTime[a])'
        OBVIOUS
      <4>1. a \in Inserted /\ Due(nextTime[a])
        BY <3>1
      <4>2. Due(nextTime[a])'
        BY <2>1, <4>1 DEF Due
      <4>3. PICK i \in 1..Len(events) : a = events[i]
        BY <4>1 DEF Inserted
      <4>4. pos' = 1
        BY <2>1
      <4>6. Len(events) \in Nat
        BY <1>a
      <4>5. pos' <= i
        BY <4>4, <4>6
      <4> QED BY <4>2, <4>3, <4>5
    <3> QED BY <2>1, <2>2, <3>1, <3>2
            DEF DeliveryInv, PassInCall, OrderInv, OwedInv, AfterPartA, Sorted
  <2>4. CASE ~Due(getNextTime)
    <3>1. pass' = "none" /\ call' \in {"B", "powerflow"} /\ owed' = {}
      BY <1>7, <2>1, <2>2, <2>4 DEF beginA, Following
    <3> QED BY <1>0, <2>1, <3>1 DEF PassInCall, OrderInv, OwedInv, DeliveryInv, AfterPartA
  <2> QED BY <2>3, <2>4
<1>8. ASSUME NEW a \in Adapter, runInA(a) PROVE DeliveryInv'
  <2>1. owed' = owed \ {a} /\ \A b \in Adapter \ {a} : nextTime'[b] = nextTime[b]
    BY <1>8, ExecuteType DEF runInA
  <2> QED BY <1>8, <2>1, PassAStep DEF runInA
<1>9. ASSUME NEW a \in Adapter, deferInA(a) PROVE DeliveryInv'
  BY <1>9, PassAStep DEF deferInA, history
<1>10. ASSUME NEW a \in Adapter, executeA(a) PROVE DeliveryInv'
  <2>1. \A b \in Adapter \ {a} : nextTime'[b] = nextTime[b]
    BY <1>10, <1>a DEF executeA
  <2>2. \/ owed' = owed \ {a} /\ partB' = partB
        \/ owed' = owed /\ partB' = Append(partB, a)
    BY <1>10 DEF executeA
  <2> QED BY <1>10, <2>1, <2>2, PassAStep DEF executeA
<1>11. CASE endA
  <2>1. /\ pass = "A" /\ pass' = "none" /\ pos' = 1 /\ call' \in {"B", "powerflow"}
        /\ UNCHANGED <<partB, owed, nextTime, clock>>
    BY <1>0, <1>11 DEF endA, EndOfA, history, Following, PassInCall
  <2>2. \A i \in 1..Len(events) : pos <= i => ~Due(nextTime[events[i]])
    <3> SUFFICES ASSUME NEW i \in 1..Len(events), pos <= i
                 PROVE  ~Due(nextTime[events[i]])
      OBVIOUS
    <3>1. pos \in 1..Len(events) /\ ~Due(nextTime[events[pos]])
      BY <1>11, <1>a DEF endA, LoopDone
    <3>2. nextTime[events[pos]] <= nextTime[events[i]]
      <4>1. CASE pos = i
        BY <4>1, <1>a, TimeAssumption DEF Time
      <4>2. CASE pos < i
        BY <1>0, <4>2, <2>1, <3>1 DEF OrderInv
      <4> QED BY <4>1, <4>2, <1>a
    <3>3. nextTime[events[pos]] \in Int /\ nextTime[events[i]] \in Int
      BY <1>a, <3>1, TimeAssumption DEF Time
    <3>4. clock + Tol \in Int
      BY <1>a, TimeAssumption
    <3> QED BY <3>1, <3>2, <3>3, <3>4 DEF Due
  <2>3. \A a \in owed : \E i \in 1..Len(partB) : a = partB[i]
    BY <1>0, <2>1, <2>2 DEF OwedInv
  <2> QED BY <1>0, <2>1, <2>3 DEF PassInCall, OrderInv, OwedInv, DeliveryInv, AfterPartA
<1>12. CASE beginB
  <2>1. /\ pass = "none" /\ pass' = "B" /\ call' = call /\ call \in {"B", "B first"}
        /\ pos' = 1 /\ UNCHANGED <<events, nextTime, partB, owed>>
    BY <1>0, <1>12 DEF beginB, queue, history, PassInCall
  <2>2. \A a \in owed : \E i \in 1..Len(partB) : a = partB[i]
    BY <1>0, <2>1 DEF OwedInv, AfterPartA
  <2>3. \A a \in owed' : \E i \in 1..Len(partB') : pos' <= i /\ a = partB'[i]
    <3> SUFFICES ASSUME NEW a \in owed
                 PROVE \E i \in 1..Len(partB) : 1 <= i /\ a = partB[i]
      BY <2>1
    <3>1. PICK i \in 1..Len(partB) : a = partB[i]
      BY <2>2
    <3>2. 1 <= i
      BY <1>a
    <3> QED BY <3>1, <3>2
  <2> QED BY <1>0, <2>1, <2>3 DEF PassInCall, OrderInv, OwedInv, DeliveryInv, AfterPartA
<1>13. ASSUME NEW a \in Adapter, runInB(a) PROVE DeliveryInv'
  <2>1. /\ pass = "B" /\ pos \in 1..Len(partB) /\ a = partB[pos] /\ pos' = pos + 1
        /\ UNCHANGED <<partB, call, pass>>
    BY <1>13, <1>a DEF runInB
  <2>2. owed' = owed \ {a}
    BY <1>13, ExecuteType DEF runInB
  <2>3. \A b \in owed' : \E i \in 1..Len(partB) : pos' <= i /\ b = partB[i]
    <3> SUFFICES ASSUME NEW b \in owed'
                 PROVE \E i \in 1..Len(partB) : pos' <= i /\ b = partB[i]
      OBVIOUS
    <3>1. PICK i \in 1..Len(partB) : pos <= i /\ b = partB[i]
      BY <1>0, <2>1, <2>2 DEF OwedInv
    <3>2. i # pos
      BY <2>1, <2>2, <3>1
    <3> QED BY <2>1, <3>1, <3>2, <1>a
  <2> QED BY <1>0, <2>1, <2>3 DEF PassInCall, OrderInv, OwedInv, DeliveryInv, AfterPartA
<1>14. CASE endB
  <2>1. /\ pass = "B" /\ pos > Len(partB) /\ pass' = "none" /\ pos' = 1
        /\ call' \in {"A", "idle"} /\ UNCHANGED <<nextTime, owed>>
    BY <1>0, <1>14 DEF endB, EndOfB, history, Following, PassInCall
  <2>2. Sorted(events', nextTime')
    BY <1>14, <1>a, <2>1, StableVector DEF endB
  <2>3. owed' = {}
    BY <1>0, <2>1, <1>a DEF OwedInv
  <2> QED BY <1>0, <2>1, <2>2, <2>3 DEF PassInCall, OrderInv, OwedInv, DeliveryInv, AfterPartA
<1>15. CASE UNCHANGED vars
  BY <1>0, <1>15 DEF vars, queue, sources, control, history, DeliveryInv, PassInCall, OrderInv,
               OwedInv, AfterPartA, Due
<1> QED
  BY <1>1, <1>2, <1>3, <1>4, <1>5, <1>6, <1>7, <1>8, <1>9, <1>10, <1>11, <1>12,
     <1>13, <1>14, <1>15 DEF Next, Driver, Pass, Users, Steps

\* Between steps of the driver no pass runs, so the invariant gives both facts.
LEMMA DeliverySafe ==
    TypeInv /\ DeliveryInv => FrontIsEarliest /\ DueEventsServed
<1> SUFFICES ASSUME TypeInv, DeliveryInv, Idle
             PROVE  owed = {} /\ \A a \in Inserted : getNextTime <= nextTime[a]
  BY DEF FrontIsEarliest, DueEventsServed
<1>1. Sorted(events, nextTime) /\ owed = {}
  BY DEF DeliveryInv, OrderInv, OwedInv, AfterPartA, Idle
<1>2. events \in Seq(Adapter) /\ \A b \in Adapter : nextTime[b] \in Int
  BY TimeAssumption DEF TypeInv, TypeOK, Time
<1>3. ASSUME NEW i \in 1..Len(events)
      PROVE  getNextTime <= nextTime[events[i]]
  <2>1. i = 1 \/ 1 < i
    BY <1>2
  <2>2. 1 \in 1..Len(events) /\ nextTime[events[1]] \in Int
    BY <1>2
  <2> QED BY <1>1, <2>1, <2>2 DEF Sorted, getNextTime
<1> QED BY <1>1, <1>3 DEF Inserted

\* As long as no power flow fails between the two parts of a step, and for
\* any adapters, insertions, removals and alerts: between steps the front of
\* the vector is the earliest event, and every event that was due when the A
\* pass took the lock has been executed.
THEOREM Delivery ==
    ASSUME PowerflowSucceeds
    PROVE  Spec => [](FrontIsEarliest /\ DueEventsServed)
<1>1. Init => TypeInv /\ DeliveryInv
  BY TypeInit, DeliveryInit
<1>2. TypeInv /\ DeliveryInv /\ [Next]_vars => (TypeInv /\ DeliveryInv)'
  BY TypeStep, DeliveryStep
<1> QED BY <1>1, <1>2, DeliverySafe, PTL DEF Spec

\* The part of it that the driver steps by: getNextTime is the next event.
THEOREM EarliestFirst ==
    ASSUME PowerflowSucceeds
    PROVE  Spec => []FrontIsEarliest
<1>1. FrontIsEarliest /\ DueEventsServed => FrontIsEarliest
  OBVIOUS
<1> QED BY <1>1, Delivery, PTL
=============================================================================
