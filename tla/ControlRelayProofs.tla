------------------------ MODULE ControlRelayProofs ------------------------
(***************************************************************************)
(* Proofs about ControlRelay for any number of requests, any delay, any    *)
(* mix of messages and any horizon; the last part shows that it implements *)
(* RequestService.                                                         *)
(***************************************************************************)
EXTENDS ControlRelay, WellFoundedInduction, TLAPS

Entry == [actionID : Nat, triggerTime : Time, executed : BOOLEAN,
          measure : BOOLEAN, request : 0..MaxRequests]

AdapterType(n) == [act : 1..n, request : Request, time : Time, get : BOOLEAN,
                   done : BOOLEAN]

-----------------------------------------------------------------------------
(* The inductive invariant.                                                *)

\* partB_list is empty outside the time from the end of pass A to pass B.
PartBInv == phase \in {"idle", "A"} => partB = {}

\* Nothing has happened to a request that has not been received.
FreshInv ==
    \A n \in Request : n > instructionCounter =>
        ranAt[n] = <<>> /\ n \notin cancelled /\ due[n] = 0

\* A pending entry belongs to a received request that is neither taken nor
\* cancelled, and no two pending entries belong to one request.
PendingInv ==
    /\ \A i \in Slots : ~actions[i].executed =>
            /\ actions[i].request \in 1..instructionCounter
            /\ ranAt[actions[i].request] = <<>>
            /\ actions[i].request \notin cancelled
    /\ \A i, j \in Slots :
            /\ ~actions[i].executed /\ ~actions[j].executed
            /\ actions[i].request = actions[j].request
            => i = j

Safe == AtMostOnce /\ CancelledNeverTaken /\ NoneLost /\ PendingHasAdapter

IInv == TypeOK /\ PartBInv /\ FreshInv /\ PendingInv /\ Safe

-----------------------------------------------------------------------------
(* The vector of actions.                                                  *)

\* A set of numbers that is not empty has a least element.
LEMMA LeastLemma ==
    ASSUME NEW S \in SUBSET Nat, S # {}
    PROVE  \E i \in S : \A j \in S : i <= j
<1>1. PICK i \in S : \A j \in S : ~(<<j, i>> \in OpToRel(<, Nat))
  BY NatLessThanWellFounded, WFMin
<1>2. \A j \in S : ~(j < i)
  BY <1>1 DEF OpToRel
<1> QED BY <1>2

\* getFreeAction returns an executed entry or the first one past the end.
LEMMA getFreeActionLemma ==
    ASSUME actions \in Seq(Entry)
    PROVE  \/ getFreeAction \in Slots /\ actions[getFreeAction].executed
           \/ getFreeAction = Len(actions) + 1
<1>1. Len(actions) \in Nat
  OBVIOUS
<1>2. CASE Free = {}
  BY <1>2 DEF getFreeAction
<1>3. CASE Free # {}
  <2>1. Free \in SUBSET Nat
    BY <1>1 DEF Free, Slots
  <2>2. \E i \in Free : \A j \in Free : i <= j
    BY <1>3, <2>1, LeastLemma
  <2>3. getFreeAction \in Free
    BY <1>3, <2>2 DEF getFreeAction
  <2> QED BY <2>3 DEF Free
<1> QED BY <1>2, <1>3

\* The vector F holds a new entry act with time t; every pending entry is
\* where it was and the others are free.
Extended(F, act, t) ==
    /\ F \in Seq(Entry)
    /\ act \in 1..Len(F) /\ Len(actions) <= Len(F)
    /\ F[act].request = instructionCounter' /\ F[act].triggerTime = t
    /\ ~F[act].executed
    /\ \A i \in 1..Len(F) : i # act /\ ~F[i].executed
            => i \in Slots /\ F[i] = actions[i]
    /\ \A i \in Slots : ~actions[i].executed => i # act /\ F[i] = actions[i]

\* What generateSetEvent and generateGetEvent make of the vector.
LEMMA FilledLemma ==
    ASSUME actions \in Seq(Entry), NEW id \in Nat, NEW t \in Time,
           NEW g \in BOOLEAN, instructionCounter' \in Request
    PROVE  Extended(Filled(getFreeAction, id, t, g), getFreeAction, t)
<1> DEFINE act == getFreeAction
           F == Filled(act, id, t, g)
           L == Len(actions)
           R == Resized(act)
           new == [actionID |-> IF id > 0 THEN id ELSE instructionCounter',
                   triggerTime |-> t, executed |-> FALSE, measure |-> g,
                   request |-> instructionCounter']
<1>1. L \in Nat /\ (\A i \in 1..L : actions[i] \in Entry)
  OBVIOUS
<1>2. \/ act \in 1..L /\ actions[act].executed
      \/ act = L + 1
  BY getFreeActionLemma DEF Slots
<1>3. FreeAction \in Entry /\ FreeAction.executed
  BY RelayAssumption DEF FreeAction, Entry, Time
<1>4. new \in Entry /\ new.request = instructionCounter' /\ new.triggerTime = t
      /\ ~new.executed
  BY RelayAssumption DEF Entry, Request
<1>5. F = [R EXCEPT ![act] = new]
  BY DEF Filled
<1> SUFFICES Extended(F, act, t)
  OBVIOUS
<1> HIDE DEF new, act, F
<1>6. CASE act \in 1..L /\ actions[act].executed
  <2>1. R = actions
    BY <1>1, <1>6 DEF Resized
  <2>2. F \in Seq(Entry) /\ Len(F) = L /\ F[act] = new
        /\ \A i \in 1..L : i # act => F[i] = actions[i]
    BY <1>1, <1>4, <1>5, <1>6, <2>1
  <2> QED BY <1>1, <1>4, <1>6, <2>2 DEF Slots, Extended
<1>7. CASE act = L + 1
  <2>1. R = [i \in 1..((L + 1) * 2) |-> IF i <= L THEN actions[i] ELSE FreeAction]
    BY <1>1, <1>7 DEF Resized
  <2>2. (L + 1) * 2 \in Nat /\ (L + 1) * 2 > L /\ act \in 1..((L + 1) * 2)
    BY <1>1, <1>7
  <2>3. R \in Seq(Entry) /\ Len(R) = (L + 1) * 2
    BY <1>1, <1>3, <2>1, <2>2
  <2>4. F \in Seq(Entry) /\ Len(F) = (L + 1) * 2 /\ F[act] = new
        /\ \A i \in 1..((L + 1) * 2) : i # act => F[i] = R[i]
    BY <1>4, <1>5, <2>2, <2>3
  <2>5. \A i \in 1..((L + 1) * 2) :
            (i \in 1..L /\ R[i] = actions[i]) \/ (i \notin 1..L /\ R[i].executed)
    BY <1>1, <1>3, <2>1
  <2>6. \A i \in 1..((L + 1) * 2) : i # act /\ ~F[i].executed
                    => i \in 1..L /\ F[i] = actions[i]
    BY <2>4, <2>5
  <2>7. \A i \in 1..L : i # act /\ F[i] = actions[i]
    BY <1>1, <1>7, <2>2, <2>4, <2>5
  <2> HIDE DEF L, R
  <2>8. Slots = 1..L /\ Len(actions) = L
    BY DEF Slots, L
  <2>9. Len(actions) <= Len(F)
    BY <1>1, <2>2, <2>4, <2>8
  <2>10. F[act].request = instructionCounter' /\ F[act].triggerTime = t
         /\ ~F[act].executed
    BY <1>4, <2>4
  <2>11. act \in 1..Len(F)
    BY <2>2, <2>4
  <2>12. \A i \in 1..Len(F) : i # act /\ ~F[i].executed
                    => i \in Slots /\ F[i] = actions[i]
    BY <2>4, <2>6, <2>8
  <2> QED BY <2>4, <2>7, <2>8, <2>9, <2>10, <2>11, <2>12 DEF Extended
<1> QED BY <1>2, <1>6, <1>7

-----------------------------------------------------------------------------
(* The operations preserve the invariant.                                  *)

\* The relay starts with no entry, no adapter and no request.
LEMMA InvInit == Init => IInv
<1> SUFFICES ASSUME Init PROVE IInv
  OBVIOUS
<1>1. Slots = {} /\ queue = {} /\ partB = {} /\ cancelled = {}
  BY DEF Init, Slots
<1>2. \A n \in Request : due[n] = 0 /\ ranAt[n] = <<>>
  BY DEF Init
<1>3. TypeOK
  <2>1. prevTime = 0 /\ instructionCounter = 0 /\ actions = <<>> /\ issued = {}
    BY DEF Init
  <2>2. phase = "idle" /\ erasing = FALSE
    BY DEF Init
  <2>3. 0 \in Time /\ 0 \in 0..Horizon /\ 0 \in 0..MaxRequests
    BY RelayAssumption DEF Time
  <2>4. <<>> \in Seq(Time) /\ actions \in Seq(Entry)
    BY <2>1
  <2>5. due \in [Request -> Time]
    BY <2>3 DEF Init
  <2>6. ranAt = [n \in Request |-> <<>>]
    BY DEF Init
  <2>7. ranAt \in [Request -> Seq(Time)]
    BY <2>4, <2>6, Zenon
  <2> QED BY <1>1, <2>1, <2>2, <2>3, <2>4, <2>5, <2>7 DEF TypeOK, Entry
<1>4. PartBInv /\ FreshInv /\ PendingInv
  BY <1>1, <1>2 DEF PartBInv, FreshInv, PendingInv
<1>5. Safe
  BY <1>1, <1>2 DEF Safe, AtMostOnce, CancelledNeverTaken, NoneLost,
                    PendingHasAdapter
<1> QED BY <1>3, <1>4, <1>5 DEF IInv

\* A request that becomes an entry and an adapter in the queue.
LEMMA EnqueueStep ==
    ASSUME IInv, NEW id \in Nat, NEW t \in Time, NEW g \in BOOLEAN,
           instructionCounter < MaxRequests,
           instructionCounter' = instructionCounter + 1,
           issued' \subseteq ClientIds,
           Enqueue(id, t, g),
           UNCHANGED <<driver, partB, erasing, cancelled>>
    PROVE  IInv'
<1> DEFINE n == instructionCounter + 1
           act == getFreeAction
           F == Filled(act, id, t, g)
           e == Adapter(act, n, t, g)
<1>1. n \in Request /\ instructionCounter \in Nat /\ instructionCounter' = n
  BY RelayAssumption DEF IInv, TypeOK, Request
<1>2. actions \in Seq(Entry) /\ actions' = F
  BY DEF IInv, TypeOK, Entry, Enqueue
<1>3. Extended(F, act, t)
  BY <1>1, <1>2, FilledLemma
<1>4. /\ queue' = queue \cup {e}
      /\ due' = [due EXCEPT ![n] = t]
      /\ ranAt' = ranAt /\ cancelled' = cancelled /\ partB' = partB
      /\ prevTime' = prevTime /\ phase' = phase /\ erasing' = erasing
  BY <1>1 DEF Enqueue, driver
<1>5. e.act = act /\ e.request = n /\ e.time = t /\ ~e.done
  BY DEF Adapter
<1>6. Slots' = 1..Len(F) /\ Slots \subseteq Slots' /\ Len(F) \in Nat
      /\ Len(actions) \in Nat /\ Slots = 1..Len(actions)
  BY <1>2, <1>3 DEF Slots, Extended
<1>7. e \in AdapterType(Len(F))
  BY <1>1, <1>3 DEF Adapter, AdapterType, Extended
<1>8. ranAt \in [Request -> Seq(Time)] /\ due \in [Request -> Time]
      /\ cancelled \subseteq Request
  BY DEF IInv, TypeOK
<1> HIDE DEF F, act, e, n
<1>a. /\ F \in Seq(Entry)
      /\ act \in 1..Len(F) /\ Len(actions) <= Len(F)
      /\ F[act].request = n /\ F[act].triggerTime = t
      /\ ~F[act].executed
      /\ \A i \in 1..Len(F) : i # act /\ ~F[i].executed
               => i \in Slots /\ F[i] = actions[i]
      /\ \A i \in Slots : ~actions[i].executed => i # act /\ F[i] = actions[i]
  BY <1>1, <1>3 DEF Extended
<1>9. TypeOK'
  <2>1. queue \cup partB \subseteq AdapterType(Len(F))
    BY <1>6 DEF IInv, TypeOK, AdapterType
  <2>2. due' \in [Request -> Time]
    BY <1>1, <1>4, <1>8
  <2>3. instructionCounter' \in 0..MaxRequests
    BY <1>1, RelayAssumption DEF Request
  <2>4. (queue \cup partB)' \subseteq AdapterType(Len(F))
    BY <1>4, <1>7, <2>1
  <2>5. prevTime \in 0..Horizon /\ phase \in {"idle", "A", "between", "B"}
        /\ erasing \in BOOLEAN
    BY DEF IInv, TypeOK
  <2> HIDE DEF IInv
  <2> QED BY <1>2, <1>a, <1>4, <1>6, <1>8, <2>2, <2>3, <2>4, <2>5
          DEF TypeOK, Entry, AdapterType
<1>10. PartBInv'
  BY <1>4 DEF IInv, PartBInv
<1>11. ranAt[n] = <<>> /\ n \notin cancelled /\ due[n] = 0
  BY <1>1 DEF IInv, FreshInv, n
<1>12. FreshInv'
  <2> SUFFICES ASSUME NEW k \in Request, k > n
               PROVE  ranAt[k] = <<>> /\ k \notin cancelled /\ due'[k] = 0
    BY <1>1, <1>4 DEF FreshInv
  <2>1. k > instructionCounter /\ k # n
    BY <1>1, RelayAssumption DEF n, Request
  <2>2. due'[k] = due[k]
    BY <1>1, <1>4, <1>8, <2>1
  <2> QED BY <2>1, <2>2 DEF IInv, FreshInv
<1>13. PendingInv'
  <2>1. \A i \in Slots : ~actions[i].executed =>
            /\ actions[i].request \in 1..instructionCounter
            /\ actions[i].request # n
    BY <1>1 DEF IInv, PendingInv, n
  <2>2. \A i \in Slots' : ~F[i].executed =>
            /\ F[i].request \in 1..n
            /\ ranAt[F[i].request] = <<>>
            /\ F[i].request \notin cancelled
    BY <1>1, <1>a, <1>6, <1>11, <2>1 DEF IInv, PendingInv, n
  <2>3. \A i, j \in Slots' :
            /\ ~F[i].executed /\ ~F[j].executed
            /\ F[i].request = F[j].request
            => i = j
    BY <1>a, <1>6, <2>1 DEF IInv, PendingInv
  <2> QED BY <1>1, <1>2, <1>4, <2>2, <2>3 DEF PendingInv
<1>14. AtMostOnce' /\ CancelledNeverTaken'
  BY <1>4 DEF IInv, Safe, AtMostOnce, CancelledNeverTaken, Taken
<1>15. NoneLost'
  <2> SUFFICES ASSUME NEW k \in Request, due'[k] > 0
               PROVE  \/ Taken(k) \/ k \in cancelled
                      \/ \E i \in Slots' : F[i].request = k /\ ~F[i].executed
    BY <1>2, <1>4 DEF NoneLost, Taken
  <2>1. CASE k = n
    BY <1>a, <1>6, <2>1
  <2>2. CASE k # n
    <3>1. due[k] > 0
      BY <1>1, <1>4, <1>8, <2>2
    <3> QED BY <3>1, <1>a, <1>6 DEF IInv, Safe, NoneLost
  <2> QED BY <2>1, <2>2
<1>16. PendingHasAdapter'
  <2> SUFFICES ASSUME NEW i \in Slots', ~F[i].executed
               PROVE  \E x \in queue' \cup partB' :
                         /\ x.act = i /\ ~x.done
                         /\ x.request = F[i].request /\ x.time = F[i].triggerTime
    BY <1>2 DEF PendingHasAdapter
  <2>1. CASE i = act
    BY <1>a, <1>4, <1>5, <2>1
  <2>2. CASE i # act
    BY <1>a, <1>4, <1>6, <2>2 DEF IInv, Safe, PendingHasAdapter
  <2> QED BY <2>1, <2>2
<1> QED BY <1>9, <1>10, <1>12, <1>13, <1>14, <1>15, <1>16 DEF IInv, Safe

\* executeAction on a vector: one entry becomes executed.
Marked(acts, act) == [acts EXCEPT ![act].executed = TRUE]

\* executeAction marks one entry executed and changes nothing else in it.
LEMMA MarkedLemma ==
    ASSUME NEW acts \in Seq(Entry), NEW act \in 1..Len(acts)
    PROVE  /\ Marked(acts, act) \in Seq(Entry)
           /\ Len(Marked(acts, act)) = Len(acts)
           /\ Marked(acts, act)[act].executed
           /\ \A i \in 1..Len(acts) : i # act => Marked(acts, act)[i] = acts[i]
<1> DEFINE x == [acts[act] EXCEPT !.executed = TRUE]
<1>1. acts[act] \in Entry
  OBVIOUS
<1>2. x \in Entry /\ x.executed
  BY <1>1 DEF Entry
<1>3. Marked(acts, act) = [acts EXCEPT ![act] = x]
  BY DEF Marked
<1> HIDE DEF x
<1> QED BY <1>2, <1>3

\* A request that is taken at once.
LEMMA RunNowStep ==
    ASSUME IInv, NEW id \in Nat, NEW g \in BOOLEAN,
           instructionCounter < MaxRequests,
           instructionCounter' = instructionCounter + 1,
           issued' \subseteq ClientIds,
           RunNow(id, g),
           UNCHANGED <<driver, partB, erasing, cancelled>>
    PROVE  IInv'
<1> DEFINE n == instructionCounter + 1
           act == getFreeAction
           F == Filled(act, id, prevTime, g)
<1>1. n \in Request /\ instructionCounter \in Nat /\ instructionCounter' = n
  BY RelayAssumption DEF IInv, TypeOK, Request
<1>2. actions \in Seq(Entry) /\ prevTime \in Time /\ Slots = 1..Len(actions)
      /\ Len(actions) \in Nat
  BY RelayAssumption DEF IInv, TypeOK, Entry, Time, Slots
<1>3. Extended(F, act, prevTime)
  BY <1>1, <1>2, FilledLemma
<1>4. /\ due' = [due EXCEPT ![n] = prevTime] /\ actions' = Marked(F, act)
      /\ ranAt' = IF F[act].executed THEN ranAt
                  ELSE [ranAt EXCEPT ![F[act].request] = Append(@, prevTime)]
      /\ queue' = queue /\ cancelled' = cancelled /\ partB' = partB
      /\ prevTime' = prevTime /\ phase' = phase /\ erasing' = erasing
  BY <1>1 DEF RunNow, ranOnce, Marked, driver
<1> HIDE DEF F, act
<1>5. /\ F \in Seq(Entry)
      /\ act \in 1..Len(F) /\ Len(actions) <= Len(F)
      /\ F[act].request = n /\ ~F[act].executed
      /\ \A i \in 1..Len(F) : i # act /\ ~F[i].executed
               => i \in Slots /\ F[i] = actions[i]
      /\ \A i \in Slots : ~actions[i].executed => i # act /\ F[i] = actions[i]
  BY <1>1, <1>3 DEF Extended
<1>6. ranAt \in [Request -> Seq(Time)] /\ due \in [Request -> Time]
      /\ cancelled \subseteq Request
  BY DEF IInv, TypeOK
<1> HIDE DEF n
<1>7. ranAt[n] = <<>> /\ n \notin cancelled
  BY <1>1 DEF IInv, FreshInv, n
<1>8. ranAt' = [ranAt EXCEPT ![n] = <<prevTime>>]
  BY <1>4, <1>5, <1>7
<1>9. ranAt'[n] = <<prevTime>> /\ \A k \in Request \ {n} : ranAt'[k] = ranAt[k]
  BY <1>1, <1>6, <1>8
<1>10. Slots' = 1..Len(F) /\ actions' \in Seq(Entry) /\ Slots \subseteq Slots'
       /\ \A i \in Slots' : i # act => actions'[i] = F[i]
    <2>1. /\ Marked(F, act) \in Seq(Entry) /\ Len(Marked(F, act)) = Len(F)
          /\ \A i \in 1..Len(F) : i # act => Marked(F, act)[i] = F[i]
      BY <1>5, MarkedLemma
    <2>2. Len(F) \in Nat
      BY <1>5
    <2> QED BY <1>2, <1>4, <1>5, <2>1, <2>2 DEF Slots
<1>11. \A i \in Slots' : ~actions'[i].executed =>
            i \in Slots /\ i # act /\ actions'[i] = actions[i]
  BY <1>4, <1>5, <1>10, MarkedLemma
<1>12. \A i \in Slots : ~actions[i].executed => actions'[i] = actions[i]
  BY <1>5, <1>10
<1>13. TypeOK'
  <2>1. queue \cup partB \subseteq AdapterType(Len(F))
    BY <1>2, <1>10 DEF IInv, TypeOK, AdapterType
  <2>2. due' \in [Request -> Time]
    BY <1>1, <1>2, <1>4, <1>6
  <2>3. instructionCounter' \in 0..MaxRequests
    BY <1>1, RelayAssumption DEF Request
  <2>4. prevTime \in 0..Horizon /\ phase \in {"idle", "A", "between", "B"}
        /\ erasing \in BOOLEAN
    BY DEF IInv, TypeOK
  <2>5. <<prevTime>> \in Seq(Time)
    BY <1>2
  <2>6. ranAt' \in [Request -> Seq(Time)]
    BY <1>6, <1>8, <2>5
  <2> HIDE DEF IInv
  <2> QED BY <1>4, <1>6, <1>10, <2>1, <2>2, <2>3, <2>4, <2>6
          DEF TypeOK, Entry, AdapterType
<1>14. PartBInv'
  BY <1>4 DEF IInv, PartBInv
<1>15. FreshInv'
  <2> SUFFICES ASSUME NEW k \in Request, k > n
               PROVE  ranAt'[k] = <<>> /\ k \notin cancelled /\ due'[k] = 0
    BY <1>1, <1>4 DEF FreshInv
  <2>1. k > instructionCounter /\ k # n
    BY <1>1, RelayAssumption DEF n, Request
  <2>2. due'[k] = due[k]
    BY <1>1, <1>4, <1>6, <2>1
  <2> QED BY <1>9, <2>1, <2>2 DEF IInv, FreshInv
<1>16. PendingInv'
  <2>1. \A i \in Slots : ~actions[i].executed =>
            /\ actions[i].request \in 1..n /\ actions[i].request \in Request
            /\ actions[i].request # n
            /\ ranAt[actions[i].request] = <<>>
            /\ actions[i].request \notin cancelled
    BY <1>1, RelayAssumption DEF IInv, PendingInv, n, Request
  <2>2. \A i, j \in Slots :
            /\ ~actions[i].executed /\ ~actions[j].executed
            /\ actions[i].request = actions[j].request
            => i = j
    BY DEF IInv, PendingInv
  <2>3. \A i \in Slots' : ~actions'[i].executed =>
            /\ actions'[i].request \in 1..n
            /\ ranAt'[actions'[i].request] = <<>>
            /\ actions'[i].request \notin cancelled
    BY <1>9, <1>11, <2>1
  <2>4. \A i, j \in Slots' :
            /\ ~actions'[i].executed /\ ~actions'[j].executed
            /\ actions'[i].request = actions'[j].request
            => i = j
    BY <1>11, <2>2
  <2> QED BY <1>1, <1>4, <2>3, <2>4 DEF PendingInv
<1>17. AtMostOnce'
  <2>1. \A k \in Request : Len(ranAt[k]) <= 1
    BY DEF IInv, Safe, AtMostOnce
  <2>2. Len(<<prevTime>>) = 1
    OBVIOUS
  <2>3. \A k \in Request \ {n} : Len(ranAt'[k]) <= 1
    BY <1>9, <2>1
  <2>4. Len(ranAt'[n]) <= 1
    BY <1>9, <2>2
  <2>5. \A k \in Request : Len(ranAt'[k]) <= 1
    BY <2>3, <2>4
  <2> QED BY <2>5 DEF AtMostOnce
<1>18. CancelledNeverTaken'
  BY <1>4, <1>6, <1>7, <1>9 DEF IInv, Safe, CancelledNeverTaken, Taken
<1>19. NoneLost'
  <2> SUFFICES ASSUME NEW k \in Request, due'[k] > 0
               PROVE  \/ Taken(k)' \/ k \in cancelled
                      \/ \E i \in Slots' : actions'[i].request = k
                                          /\ ~actions'[i].executed
    BY <1>4 DEF NoneLost
  <2>1. CASE k = n
    BY <1>9, <2>1 DEF Taken
  <2>2. CASE k # n
    <3>1. due[k] > 0
      BY <1>1, <1>4, <1>6, <2>2
    <3> QED BY <3>1, <1>9, <1>10, <1>12, <2>2 DEF IInv, Safe, NoneLost, Taken
  <2> QED BY <2>1, <2>2
<1>20. PendingHasAdapter'
  BY <1>4, <1>11 DEF IInv, Safe, PendingHasAdapter
<1> QED BY <1>13, <1>14, <1>15, <1>16, <1>17, <1>18, <1>19, <1>20 DEF IInv, Safe

\* executeAction from an adapter of the queue.
LEMMA TakeStep ==
    ASSUME IInv, NEW act \in Slots, ranOnce(actions, act),
           UNCHANGED <<instructionCounter, due, cancelled>>
    PROVE  /\ actions' \in Seq(Entry) /\ Slots' = Slots
           /\ ranAt' \in [Request -> Seq(Time)]
           /\ \A i \in Slots : ~actions'[i].executed
                    => i # act /\ actions'[i] = actions[i] /\ ~actions[i].executed
           /\ FreshInv' /\ PendingInv' /\ NoneLost'
           /\ AtMostOnce' /\ CancelledNeverTaken'
<1> DEFINE n == actions[act].request
<1>1. actions \in Seq(Entry) /\ prevTime \in Time /\ Slots = 1..Len(actions)
      /\ Len(actions) \in Nat /\ instructionCounter \in 0..MaxRequests
  BY RelayAssumption DEF IInv, TypeOK, Entry, Time, Slots
<1>2. ranAt \in [Request -> Seq(Time)] /\ cancelled \subseteq Request
  BY DEF IInv, TypeOK
<1>3. /\ actions' \in Seq(Entry) /\ Slots' = Slots /\ actions'[act].executed
      /\ \A i \in Slots : i # act => actions'[i] = actions[i]
  <2>1. actions' = Marked(actions, act)
    BY DEF ranOnce, Marked
  <2> QED BY <1>1, <2>1, MarkedLemma DEF Slots
<1>4. \A i \in Slots : ~actions'[i].executed
          => i # act /\ actions'[i] = actions[i] /\ ~actions[i].executed
  BY <1>3
<1>5. FreshInv /\ PendingInv /\ NoneLost /\ AtMostOnce /\ CancelledNeverTaken
  BY DEF IInv, Safe
<1>6. CASE actions[act].executed
  <2>1. ranAt' = ranAt
    BY <1>6 DEF ranOnce
  <2>2. FreshInv' /\ AtMostOnce' /\ CancelledNeverTaken'
    BY <1>5, <2>1 DEF FreshInv, AtMostOnce, CancelledNeverTaken, Taken
  <2>3. PendingInv'
    BY <1>3, <1>4, <1>5, <2>1 DEF PendingInv
  <2>4. \A i \in Slots : ~actions[i].executed => actions'[i] = actions[i]
    BY <1>3, <1>6
  <2>5. NoneLost'
    BY <1>3, <1>5, <2>1, <2>4 DEF NoneLost, Taken
  <2> QED BY <1>2, <1>3, <1>4, <2>1, <2>2, <2>3, <2>5
<1>7. CASE ~actions[act].executed
  <2>1. n \in 1..instructionCounter /\ ranAt[n] = <<>> /\ n \notin cancelled
        /\ n \in Request
    BY <1>1, <1>5, <1>7, RelayAssumption DEF PendingInv, Request
  <2>2. ranAt' = [ranAt EXCEPT ![n] = Append(@, prevTime)]
    BY <1>7 DEF ranOnce
  <2> HIDE DEF n
  <2>3. Append(<<>>, prevTime) \in Seq(Time) /\ Len(Append(<<>>, prevTime)) = 1
    BY <1>1
  <2>4. /\ ranAt' \in [Request -> Seq(Time)] /\ Len(ranAt'[n]) = 1
        /\ \A k \in Request \ {n} : ranAt'[k] = ranAt[k]
    BY <1>2, <2>1, <2>2, <2>3
  <2>5. \A i \in Slots : ~actions'[i].executed => actions[i].request # n
    BY <1>4, <1>5, <1>7 DEF PendingInv, n
  <2>6. FreshInv'
    <3> SUFFICES ASSUME NEW k \in Request, k > instructionCounter
                 PROVE  ranAt'[k] = <<>> /\ k \notin cancelled /\ due[k] = 0
      BY DEF FreshInv
    <3>1. k # n
      BY <1>1, <2>1 DEF Request
    <3> QED BY <1>5, <2>4, <3>1 DEF FreshInv
  <2>7. PendingInv'
    <3>1. \A i \in Slots : ~actions[i].executed =>
              /\ actions[i].request \in 1..instructionCounter
              /\ actions[i].request \in Request
              /\ ranAt[actions[i].request] = <<>>
              /\ actions[i].request \notin cancelled
      BY <1>1, <1>5, RelayAssumption DEF PendingInv, Request
    <3>2. \A i \in Slots' : ~actions'[i].executed =>
              /\ actions'[i].request \in 1..instructionCounter
              /\ ranAt'[actions'[i].request] = <<>>
              /\ actions'[i].request \notin cancelled
      BY <1>3, <1>4, <2>4, <2>5, <3>1
    <3>3. \A i, j \in Slots' :
              /\ ~actions'[i].executed /\ ~actions'[j].executed
              /\ actions'[i].request = actions'[j].request
              => i = j
      BY <1>3, <1>4, <1>5 DEF PendingInv
    <3> QED BY <3>2, <3>3 DEF PendingInv
  <2>8. AtMostOnce'
    <3>1. \A k \in Request \ {n} : Len(ranAt'[k]) <= 1
      BY <1>5, <2>4 DEF AtMostOnce
    <3>2. Len(ranAt'[n]) <= 1
      BY <2>4
    <3>3. \A k \in Request : Len(ranAt'[k]) <= 1
      BY <3>1, <3>2
    <3> QED BY <3>3 DEF AtMostOnce
  <2>9. CancelledNeverTaken'
    BY <1>2, <1>5, <2>1, <2>4 DEF CancelledNeverTaken, Taken
  <2>10. NoneLost'
    <3>0. due' = due /\ cancelled' = cancelled
      OBVIOUS
    <3> SUFFICES ASSUME NEW k \in Request, due'[k] > 0
                 PROVE  \/ Taken(k)' \/ k \in cancelled'
                        \/ \E i \in Slots' : actions'[i].request = k
                                           /\ ~actions'[i].executed
      BY DEF NoneLost
    <3>1. CASE k = n
      <4>1. Len(ranAt'[k]) = 1
        BY <2>4, <3>1, Zenon
      <4>2. Taken(k)'
        BY <4>1 DEF Taken
      <4> QED BY <4>2
    <3>2. CASE k # n
      <4>1. \A i \in Slots : actions[i].request = k => i # act
        BY <3>2 DEF n
      <4>2. \/ Taken(k) \/ k \in cancelled
            \/ \E i \in Slots : actions[i].request = k /\ ~actions[i].executed
        BY <1>5, <3>0 DEF NoneLost
      <4>3. ASSUME Taken(k) PROVE Taken(k)'
        BY <2>4, <3>2, <4>3 DEF Taken
      <4>4. ASSUME NEW i \in Slots, actions[i].request = k, ~actions[i].executed
            PROVE  i \in Slots' /\ actions'[i].request = k /\ ~actions'[i].executed
        BY <1>3, <4>1, <4>4
      <4> QED BY <3>0, <4>2, <4>3, <4>4
    <3> QED BY <3>1, <3>2
  <2> QED BY <1>3, <1>4, <2>4, <2>6, <2>7, <2>8, <2>9, <2>10
<1> QED BY <1>6, <1>7

\* Pass A runs a due SET adapter.
LEMMA runSetStep ==
    ASSUME IInv, NEW e \in queue, runSet(e)
    PROVE  IInv'
<1>1. e \in AdapterType(Len(actions)) /\ e.act \in Slots
  BY DEF IInv, TypeOK, AdapterType, Slots
<1>2. /\ ranOnce(actions, e.act) /\ queue' = queue \ {e} /\ partB' = partB
      /\ prevTime' = prevTime /\ phase' = phase /\ phase = "A" /\ erasing' = TRUE
      /\ issued' = issued /\ due' = due /\ cancelled' = cancelled
      /\ instructionCounter' = instructionCounter
  BY DEF runSet, driver
<1>3. /\ actions' \in Seq(Entry) /\ Slots' = Slots
      /\ ranAt' \in [Request -> Seq(Time)]
      /\ \A i \in Slots : ~actions'[i].executed
               => i # e.act /\ actions'[i] = actions[i] /\ ~actions[i].executed
      /\ FreshInv' /\ PendingInv' /\ NoneLost'
      /\ AtMostOnce' /\ CancelledNeverTaken'
  BY <1>1, <1>2, TakeStep
<1>4. TypeOK'
  BY <1>2, <1>3 DEF IInv, TypeOK, Entry
<1>5. PartBInv'
  BY <1>2 DEF IInv, PartBInv
<1>6. PendingHasAdapter'
  <2>1. PendingHasAdapter
    BY DEF IInv, Safe
  <2> QED BY <1>2, <1>3, <2>1 DEF PendingHasAdapter
<1> QED BY <1>3, <1>4, <1>5, <1>6 DEF IInv, Safe

\* Pass B runs a GET adapter, which stays in the queue.
LEMMA runGetStep ==
    ASSUME IInv, NEW e \in partB, runGet(e)
    PROVE  IInv'
<1> DEFINE d == [e EXCEPT !.done = TRUE]
<1>1. e \in AdapterType(Len(actions)) /\ e.act \in Slots /\ Slots = 1..Len(actions)
  BY DEF IInv, TypeOK, AdapterType, Slots
<1>2. d \in AdapterType(Len(actions))
  BY <1>1 DEF AdapterType
<1> HIDE DEF d
<1>3. /\ ranOnce(actions, e.act) /\ partB' = partB \ {e}
      /\ queue' \subseteq queue \cup {d} /\ queue \ {e} \subseteq queue'
      /\ prevTime' = prevTime /\ phase' = phase /\ phase = "B"
      /\ erasing' = erasing
      /\ issued' = issued /\ due' = due /\ cancelled' = cancelled
      /\ instructionCounter' = instructionCounter
  BY DEF runGet, driver, d
<1>4. /\ actions' \in Seq(Entry) /\ Slots' = Slots
      /\ ranAt' \in [Request -> Seq(Time)]
      /\ \A i \in Slots : ~actions'[i].executed
               => i # e.act /\ actions'[i] = actions[i] /\ ~actions[i].executed
      /\ FreshInv' /\ PendingInv' /\ NoneLost'
      /\ AtMostOnce' /\ CancelledNeverTaken'
  BY <1>1, <1>3, TakeStep
<1>5. TypeOK'
  <2>1. queue \cup partB \subseteq AdapterType(Len(actions))
    BY <1>1 DEF IInv, TypeOK, AdapterType
  <2>2. (queue \cup partB)' \subseteq AdapterType(Len(actions))
    BY <1>2, <1>3, <2>1
  <2> QED BY <1>1, <1>3, <1>4, <2>2 DEF IInv, TypeOK, Entry, AdapterType
<1>6. PartBInv'
  BY <1>3 DEF IInv, PartBInv
<1>7. PendingHasAdapter'
  <2>1. PendingHasAdapter
    BY DEF IInv, Safe
  <2> QED BY <1>3, <1>4, <2>1 DEF PendingHasAdapter
<1> QED BY <1>4, <1>5, <1>6, <1>7 DEF IInv, Safe

\* CANCEL marks pending entries and remembers their requests.
LEMMA receiveCancelStep ==
    ASSUME IInv, NEW id, receiveCancel(id)
    PROVE  IInv'
<1> DEFINE may == {i \in findAction(id) :
                      ~actions[i].executed /\ actions[i].triggerTime > ActionDelay}
<1>1. /\ actions \in Seq(Entry) /\ Slots = 1..Len(actions) /\ Len(actions) \in Nat
      /\ instructionCounter \in 0..MaxRequests
      /\ \A i \in Slots : actions[i] \in Entry
  <2>1. actions \in Seq(Entry) /\ instructionCounter \in 0..MaxRequests
    BY DEF IInv, TypeOK, Entry
  <2> QED BY <2>1 DEF Slots
<1>2. may \subseteq Slots /\ \A i \in may : ~actions[i].executed
  BY DEF findAction
<1>3. /\ actions' = [i \in Slots |-> IF i \in may
                            THEN [actions[i] EXCEPT !.executed = TRUE]
                            ELSE actions[i]]
      /\ cancelled' = cancelled \cup {actions[i].request : i \in may}
  BY DEF receiveCancel
<1>4. /\ prevTime' = prevTime /\ phase' = phase /\ erasing' = erasing
      /\ queue' = queue /\ partB' = partB /\ issued' = issued /\ due' = due
      /\ ranAt' = ranAt /\ instructionCounter < MaxRequests
      /\ instructionCounter' = instructionCounter + 1
  BY DEF receiveCancel, Receive, driver
<1> HIDE DEF may
<1>5. \A i \in Slots : [actions[i] EXCEPT !.executed = TRUE] \in Entry
                     /\ [actions[i] EXCEPT !.executed = TRUE].executed
  BY <1>1 DEF Entry
<1>6. /\ actions' \in Seq(Entry) /\ Slots' = Slots
      /\ \A i \in Slots : i \in may => actions'[i].executed
      /\ \A i \in Slots : i \notin may => actions'[i] = actions[i]
  <2>1. \A i \in Slots : actions'[i] \in Entry
    BY <1>1, <1>3, <1>5
  <2>2. actions' = [i \in 1..Len(actions) |-> actions'[i]]
    BY <1>1, <1>3
  <2>3. actions' \in Seq(Entry) /\ Len(actions') = Len(actions)
    BY <1>1, <2>1, <2>2
  <2>4. \A i \in Slots : i \in may => actions'[i].executed
    BY <1>3, <1>5
  <2>5. \A i \in Slots : i \notin may => actions'[i] = actions[i]
    BY <1>3
  <2> QED BY <2>3, <2>4, <2>5 DEF Slots
<1>7. \A i \in Slots : ~actions[i].executed =>
          /\ actions[i].request \in 1..instructionCounter
          /\ actions[i].request \in Request
          /\ ranAt[actions[i].request] = <<>>
          /\ actions[i].request \notin cancelled
  BY <1>1, RelayAssumption DEF IInv, PendingInv, Request
<1>8. \A i, j \in Slots :
          /\ ~actions[i].executed /\ ~actions[j].executed
          /\ actions[i].request = actions[j].request
          => i = j
  BY DEF IInv, PendingInv
<1>9. \A n : n \in cancelled' <=> n \in cancelled \/ \E i \in may : n = actions[i].request
  BY <1>3
<1>10. cancelled \subseteq Request /\ ranAt \in [Request -> Seq(Time)]
  BY DEF IInv, TypeOK
<1>11. TypeOK'
  <2>1. cancelled' \subseteq Request
    BY <1>2, <1>7, <1>9, <1>10
  <2>2. instructionCounter' \in 0..MaxRequests
    BY <1>1, <1>4, RelayAssumption
  <2> QED BY <1>4, <1>6, <2>1, <2>2 DEF IInv, TypeOK, Entry
<1>12. PartBInv'
  BY <1>4 DEF IInv, PartBInv
<1>13. FreshInv'
  <2> SUFFICES ASSUME NEW n \in Request, n > instructionCounter + 1
               PROVE  ranAt[n] = <<>> /\ n \notin cancelled' /\ due[n] = 0
    BY <1>4 DEF FreshInv
  <2>1. n > instructionCounter
    BY <1>1, RelayAssumption DEF Request
  <2>2. ranAt[n] = <<>> /\ n \notin cancelled /\ due[n] = 0
    BY <2>1 DEF IInv, FreshInv
  <2>3. \A i \in may : n # actions[i].request
    BY <1>1, <1>2, <1>7, <2>1
  <2> QED BY <1>9, <2>2, <2>3
<1>14. PendingInv'
  <2>1. \A i \in Slots : ~actions'[i].executed =>
            i \notin may /\ ~actions[i].executed /\ actions'[i] = actions[i]
    BY <1>6
  <2>2. \A i \in Slots : ~actions'[i].executed =>
            actions'[i].request \notin cancelled'
    BY <1>2, <1>7, <1>8, <1>9, <2>1
  <2>3. \A i \in Slots : ~actions'[i].executed =>
            /\ actions'[i].request \in 1..(instructionCounter + 1)
            /\ ranAt[actions'[i].request] = <<>>
    BY <1>1, <1>7, <2>1
  <2>4. \A i, j \in Slots :
          /\ ~actions'[i].executed /\ ~actions'[j].executed
          /\ actions'[i].request = actions'[j].request
          => i = j
    BY <1>8, <2>1
  <2> QED BY <1>4, <1>6, <2>2, <2>3, <2>4 DEF PendingInv
<1>15. AtMostOnce'
  BY <1>4 DEF IInv, Safe, AtMostOnce
<1>16. CancelledNeverTaken'
  <2>1. \A n \in cancelled : ~(Len(ranAt[n]) > 0)
    BY DEF IInv, Safe, CancelledNeverTaken, Taken
  <2>2. \A i \in may : ~(Len(ranAt[actions[i].request]) > 0)
    BY <1>2, <1>7
  <2> QED BY <1>4, <1>9, <2>1, <2>2 DEF CancelledNeverTaken, Taken
<1>17. NoneLost'
  <2> SUFFICES ASSUME NEW n \in Request, due[n] > 0
               PROVE  \/ Taken(n) \/ n \in cancelled'
                      \/ \E i \in Slots : actions'[i].request = n
                                         /\ ~actions'[i].executed
    BY <1>4, <1>6 DEF NoneLost, Taken
  <2>1. CASE Taken(n) \/ n \in cancelled
    BY <1>3, <2>1
  <2>2. CASE \E i \in Slots : actions[i].request = n /\ ~actions[i].executed
    BY <1>3, <1>6, <2>2
  <2> QED BY <2>1, <2>2 DEF IInv, Safe, NoneLost
<1>18. PendingHasAdapter'
  <2>1. PendingHasAdapter
    BY DEF IInv, Safe
  <2>2. \A i \in Slots : ~actions'[i].executed =>
            ~actions[i].executed /\ actions'[i] = actions[i]
    BY <1>6
  <2> QED BY <1>4, <1>6, <2>1, <2>2 DEF PendingHasAdapter
<1> QED BY <1>11, <1>12, <1>13, <1>14, <1>15, <1>16, <1>17, <1>18 DEF IInv, Safe

\* endA: partB_list takes the due adapters, of which all that have not run
\* stay in the queue or in partB_list.
LEMMA endAStep == IInv /\ endA => IInv'
<1> SUFFICES ASSUME IInv, endA PROVE IInv'
  OBVIOUS
<1>1. /\ partB' \subseteq queue /\ queue' \subseteq queue
      /\ \A e \in queue : ~e.done => e \in queue'
      /\ erasing' = FALSE /\ phase' = "between"
      /\ prevTime' = prevTime /\ instructionCounter' = instructionCounter
      /\ actions' = actions /\ issued' = issued /\ due' = due /\ ranAt' = ranAt
      /\ cancelled' = cancelled
  BY DEF endA, history
<1>2. partB = {} /\ Slots' = Slots
  BY <1>1 DEF IInv, PartBInv, endA, Slots
<1>3. TypeOK'
  BY <1>1, <1>2 DEF IInv, TypeOK
<1>4. PartBInv'
  BY <1>1 DEF PartBInv
<1>5. FreshInv' /\ PendingInv'
  BY <1>1, <1>2 DEF IInv, FreshInv, PendingInv
<1>6. AtMostOnce' /\ CancelledNeverTaken' /\ NoneLost'
  BY <1>1, <1>2 DEF IInv, Safe, AtMostOnce, CancelledNeverTaken, NoneLost, Taken
<1>7. PendingHasAdapter'
  BY <1>1, <1>2 DEF IInv, Safe, PendingHasAdapter
<1> QED BY <1>3, <1>4, <1>5, <1>6, <1>7 DEF IInv, Safe

\* Steps that change neither the entries nor the adapters.
LEMMA QuietStep ==
    ASSUME IInv, prevTime' \in 0..Horizon,
           instructionCounter' \in instructionCounter..MaxRequests,
           phase' \in {"idle", "A", "between", "B"},
           PartBInv',
           UNCHANGED <<actions, queue, partB, erasing, history>>
    PROVE  IInv'
<1>1. /\ actions' = actions /\ queue' = queue /\ partB' = partB
      /\ erasing' = erasing /\ issued' = issued /\ due' = due
      /\ ranAt' = ranAt /\ cancelled' = cancelled
  BY DEF history
<1>2. Slots' = Slots
  BY <1>1 DEF Slots
<1>3. instructionCounter \in 0..MaxRequests /\ instructionCounter' \in 0..MaxRequests
      /\ instructionCounter <= instructionCounter'
  BY RelayAssumption DEF IInv, TypeOK
<1>4. TypeOK'
  BY <1>1, <1>2, <1>3 DEF IInv, TypeOK
<1>5. FreshInv'
  BY <1>1, <1>3, RelayAssumption DEF IInv, FreshInv, Request
<1>6. PendingInv'
  BY <1>1, <1>2, <1>3 DEF IInv, PendingInv
<1>7. AtMostOnce' /\ CancelledNeverTaken' /\ NoneLost'
  BY <1>1, <1>2 DEF IInv, Safe, AtMostOnce, CancelledNeverTaken, NoneLost, Taken
<1>8. PendingHasAdapter'
  BY <1>1, <1>2 DEF IInv, Safe, PendingHasAdapter
<1> QED BY <1>4, <1>5, <1>6, <1>7, <1>8 DEF IInv, Safe

\* What every SET and GET has in common.
LEMMA ReceiveLemma ==
    ASSUME IInv, NEW kind, Receive(kind), NEW id \in ClientIds \cup {0},
           Identified(id)
    PROVE  /\ instructionCounter < MaxRequests
           /\ instructionCounter' = instructionCounter + 1
           /\ issued' \subseteq ClientIds /\ id \in Nat
<1>1. issued \subseteq ClientIds
  BY DEF IInv, TypeOK
<1> QED BY <1>1, RelayAssumption DEF Receive, Identified

\* Every branch of receiveMessage preserves the invariant.
LEMMA MessagesStep == IInv /\ Messages => IInv'
<1> SUFFICES ASSUME IInv, Messages PROVE IInv'
  OBVIOUS
<1>0. prevTime \in 0..Horizon /\ prevTime \in Time /\ prevTime + ActionDelay \in Time
      /\ 1..Horizon \subseteq Time
  BY RelayAssumption DEF IInv, TypeOK, Time
<1>1. ASSUME NEW id \in ClientIds \cup {0}, receiveSetNow(id) PROVE IInv'
  <2>1. Receive("SET now") /\ Identified(id)
        /\ UNCHANGED <<driver, partB, erasing, cancelled>>
    BY <1>1 DEF receiveSetNow
  <2>2. CASE RunNow(id, FALSE)
    BY <2>1, <2>2, ReceiveLemma, RunNowStep
  <2>3. CASE Enqueue(id, prevTime + ActionDelay, FALSE)
    BY <1>0, <2>1, <2>3, ReceiveLemma, EnqueueStep
  <2> QED BY <1>1, <2>2, <2>3 DEF receiveSetNow
<1>2. ASSUME NEW id \in ClientIds \cup {0}, receiveGetNow(id) PROVE IInv'
  <2>1. Receive("GET now") /\ Identified(id) /\ RunNow(id, TRUE)
        /\ UNCHANGED <<driver, partB, erasing, cancelled>>
    BY <1>2 DEF receiveGetNow
  <2> QED BY <2>1, ReceiveLemma, RunNowStep
<1>3. ASSUME NEW id \in ClientIds \cup {0}, NEW t \in 1..Horizon,
             receiveSetScheduled(id, t)
      PROVE  IInv'
  <2>1. Receive("SET") /\ Identified(id) /\ Enqueue(id, t, FALSE)
        /\ UNCHANGED <<driver, partB, erasing, cancelled>>
    BY <1>3 DEF receiveSetScheduled
  <2> QED BY <1>0, <2>1, ReceiveLemma, EnqueueStep
<1>4. ASSUME NEW id \in ClientIds \cup {0}, NEW t \in 1..Horizon,
             receiveGetScheduled(id, t)
      PROVE  IInv'
  <2>1. Receive("GET") /\ Identified(id) /\ Enqueue(id, t, TRUE)
        /\ UNCHANGED <<driver, partB, erasing, cancelled>>
    BY <1>4 DEF receiveGetScheduled
  <2> QED BY <1>0, <2>1, ReceiveLemma, EnqueueStep
<1>5. ASSUME NEW id \in ClientIds \cup Request, receiveCancel(id) PROVE IInv'
  BY <1>5, receiveCancelStep
<1>6. CASE receiveOther
  <2>1. /\ prevTime' = prevTime /\ phase' = phase /\ partB' = partB
        /\ instructionCounter < MaxRequests
        /\ instructionCounter' = instructionCounter + 1
        /\ UNCHANGED <<actions, queue, partB, erasing, history>>
    BY <1>6 DEF receiveOther, Receive, driver
  <2>2. instructionCounter' \in instructionCounter..MaxRequests
    BY <2>1, RelayAssumption DEF IInv, TypeOK
  <2>3. PartBInv' /\ phase' \in {"idle", "A", "between", "B"}
    BY <2>1 DEF IInv, PartBInv, TypeOK
  <2> QED BY <1>0, <2>1, <2>2, <2>3, QuietStep
<1> QED BY <1>1, <1>2, <1>3, <1>4, <1>5, <1>6 DEF Messages

\* IInv is inductive: one step for each action.
LEMMA InvStep == IInv /\ [Next]_vars => IInv'
<1> SUFFICES ASSUME IInv, [Next]_vars PROVE IInv'
  OBVIOUS
<1>0. /\ prevTime \in 0..Horizon /\ phase \in {"idle", "A", "between", "B"}
      /\ instructionCounter \in instructionCounter..MaxRequests /\ PartBInv
  BY RelayAssumption DEF IInv, TypeOK
<1>1. CASE Messages
  BY <1>1, MessagesStep
<1>2. ASSUME NEW t \in 0..Horizon, advance(t) PROVE IInv'
  <2>1. /\ prevTime' = t /\ phase' = "A" /\ phase = "idle" /\ partB' = partB
        /\ instructionCounter' = instructionCounter
        /\ UNCHANGED <<actions, queue, partB, erasing, history>>
    BY <1>2 DEF advance
  <2>2. PartBInv'
    BY <1>0, <2>1 DEF PartBInv
  <2> QED BY <1>0, <2>1, <2>2, QuietStep
<1>3. CASE endA
  BY <1>3, endAStep
<1>4. CASE beginB \/ endB
  <2>1. /\ prevTime' = prevTime /\ phase' \in {"idle", "B"}
        /\ phase' = "idle" => partB = {}
        /\ partB' = partB /\ instructionCounter' = instructionCounter
        /\ UNCHANGED <<actions, queue, partB, erasing, history>>
    BY <1>4 DEF beginB, endB
  <2>2. PartBInv'
    BY <2>1 DEF PartBInv
  <2> QED BY <1>0, <2>1, <2>2, QuietStep
<1>5. ASSUME NEW e \in queue, runSet(e) PROVE IInv'
  BY <1>5, runSetStep
<1>6. ASSUME NEW e \in partB, runGet(e) PROVE IInv'
  BY <1>6, runGetStep
<1>7. CASE UNCHANGED vars
  <2>1. /\ prevTime' = prevTime /\ phase' = phase /\ partB' = partB
        /\ instructionCounter' = instructionCounter
        /\ UNCHANGED <<actions, queue, partB, erasing, history>>
    BY <1>7 DEF vars, driver
  <2>2. PartBInv'
    BY <1>0, <2>1 DEF PartBInv
  <2> QED BY <1>0, <2>1, <2>2, QuietStep
<1> QED BY <1>1, <1>2, <1>3, <1>4, <1>5, <1>6, <1>7 DEF Next, Advance, Passes

\* For every mix of SET, GET and CANCEL messages, at any time between the
\* passes of the queue: reuse of the entries of actions loses no request,
\* takes none twice and takes none whose client was told CANCEL_SUCCESS.
THEOREM RequestsKept ==
    Spec => [](NoneLost /\ AtMostOnce /\ CancelledNeverTaken)
<1>1. IInv => NoneLost /\ AtMostOnce /\ CancelledNeverTaken
  BY DEF IInv, Safe
<1> QED BY <1>1, InvInit, InvStep, PTL DEF Spec

\* Every pending entry has an adapter that is still to run at its time.
THEOREM PendingServed == Spec => [](TypeOK /\ PendingHasAdapter)
<1>1. IInv => TypeOK /\ PendingHasAdapter
  BY DEF IInv, Safe
<1> QED BY <1>1, InvInit, InvStep, PTL DEF Spec

\* No request is taken twice, although its adapter may run again after its
\* entry has been given to another request.
THEOREM TakenOnce == Spec => []AtMostOnce
<1>1. NoneLost /\ AtMostOnce /\ CancelledNeverTaken => AtMostOnce
  OBVIOUS
<1> QED BY <1>1, RequestsKept, PTL

\* A client that was told CANCEL_SUCCESS never sees its request taken, although
\* its adapter stays in the event queue.
THEOREM CancelHolds == Spec => []CancelledNeverTaken
<1>1. NoneLost /\ AtMostOnce /\ CancelledNeverTaken => CancelledNeverTaken
  OBVIOUS
<1> QED BY <1>1, RequestsKept, PTL

\* The variables keep their types.
THEOREM TypeCorrect == Spec => []TypeOK
<1>1. TypeOK /\ PendingHasAdapter => TypeOK
  OBVIOUS
<1> QED BY <1>1, PendingServed, PTL

-----------------------------------------------------------------------------
(* An action is taken at its time.                                         *)

\* Clients send neither CANCEL nor a GET for later: no adapter outlives its
\* request.  (Either leaves an adapter behind whose entry is given to another
\* request, which it then takes before its time.)
Direct == Kinds \cap {"CANCEL", "GET"} = {}

\* The adapter e is the one of the request that has its entry.
Owns(e) ==
    /\ e.act \in Slots /\ ~actions[e.act].executed
    /\ e.request = actions[e.act].request /\ e.time = actions[e.act].triggerTime
    /\ e.get = FALSE /\ e.done = FALSE

DirectInv ==
    /\ partB = {}
    /\ \A e \in queue : Owns(e)
    /\ \A i \in Slots : ~actions[i].executed => due[actions[i].request] = actions[i].triggerTime
    /\ NotBeforeDue

\* What DirectInv says of the next state
LEMMA DirectNext ==
    ASSUME partB' = {}, NEW L, L = Len(actions'),
           \A e \in queue' : /\ e.act \in 1..L /\ ~actions'[e.act].executed
                             /\ e.request = actions'[e.act].request
                             /\ e.time = actions'[e.act].triggerTime
                             /\ e.get = FALSE /\ e.done = FALSE,
           \A i \in 1..L : ~actions'[i].executed
                => due'[actions'[i].request] = actions'[i].triggerTime,
           \A n \in Request : \A k \in 1..Len(ranAt'[n]) : ranAt'[n][k] >= due'[n]
    PROVE  DirectInv'
<1>1. Slots' = 1..L
  BY DEF Slots
<1>2. \A e \in queue' : Owns(e)'
  BY <1>1 DEF Owns
<1>3. (\A e \in queue : Owns(e))'
  BY <1>2
<1>4. NotBeforeDue'
  BY DEF NotBeforeDue
<1> QED BY <1>1, <1>3, <1>4 DEF DirectInv

\* A SET for later
LEMMA DirectEnqueue ==
    ASSUME IInv, DirectInv, NEW id \in Nat, NEW t \in Time,
           instructionCounter < MaxRequests,
           instructionCounter' = instructionCounter + 1,
           Enqueue(id, t, FALSE), partB' = partB
    PROVE  DirectInv'
<1> DEFINE n == instructionCounter + 1
           act == getFreeAction
           F == Filled(act, id, t, FALSE)
           e == Adapter(act, n, t, FALSE)
<1>1. n \in Request /\ instructionCounter \in Nat /\ instructionCounter' = n
      /\ n > instructionCounter
  BY RelayAssumption DEF IInv, TypeOK, Request
<1>2. actions \in Seq(Entry) /\ Slots = 1..Len(actions) /\ Len(actions) \in Nat
  BY DEF IInv, TypeOK, Entry, Slots
<1>3. Extended(F, act, t)
  BY <1>1, <1>2, FilledLemma
<1>4. /\ actions' = F /\ queue' = queue \cup {e} /\ ranAt' = ranAt
      /\ due' = [due EXCEPT ![n] = t]
  BY <1>1 DEF Enqueue
<1>5. /\ e.act = act /\ e.request = n /\ e.time = t /\ e.get = FALSE /\ e.done = FALSE
  BY DEF Adapter
<1>6. due \in [Request -> Time] /\ ranAt[n] = <<>>
  BY <1>1 DEF IInv, TypeOK, FreshInv
<1> HIDE DEF F, act, e, n
<1>7. /\ F \in Seq(Entry) /\ act \in 1..Len(F) /\ Len(actions) <= Len(F)
      /\ F[act].request = n /\ F[act].triggerTime = t /\ ~F[act].executed
      /\ \A i \in 1..Len(F) : i # act /\ ~F[i].executed => i \in Slots /\ F[i] = actions[i]
      /\ \A i \in Slots : ~actions[i].executed => i # act /\ F[i] = actions[i]
  BY <1>1, <1>3 DEF Extended
<1>8. \A i \in Slots : i \in 1..Len(F)
  BY <1>2, <1>7
<1>9. \A f \in queue' : /\ f.act \in 1..Len(F) /\ ~F[f.act].executed
                        /\ f.request = F[f.act].request
                        /\ f.time = F[f.act].triggerTime
                        /\ f.get = FALSE /\ f.done = FALSE
  <2>1. ASSUME NEW f \in queue
        PROVE  /\ f.act \in 1..Len(F) /\ ~F[f.act].executed
               /\ f.request = F[f.act].request /\ f.time = F[f.act].triggerTime
               /\ f.get = FALSE /\ f.done = FALSE
    BY <1>7, <1>8 DEF DirectInv, Owns
  <2> QED BY <1>4, <1>5, <1>7, <2>1
<1>10. \A i \in 1..Len(F) : ~F[i].executed => due'[F[i].request] = F[i].triggerTime
  <2>1. ASSUME NEW i \in 1..Len(F), ~F[i].executed, i # act
        PROVE  due'[F[i].request] = F[i].triggerTime
    <3>1. i \in Slots /\ F[i] = actions[i] /\ ~actions[i].executed
      BY <1>7, <2>1
    <3>2. actions[i].request \in 1..instructionCounter
          /\ due[actions[i].request] = actions[i].triggerTime
      BY <3>1 DEF IInv, PendingInv, DirectInv
    <3>3. actions[i].request # n
      BY <1>1, <3>2
    <3> QED BY <1>4, <1>6, <3>1, <3>2, <3>3
  <2>2. due'[n] = t
    BY <1>1, <1>4, <1>6
  <2> QED BY <1>7, <2>1, <2>2
<1>11. \A m \in Request : \A k \in 1..Len(ranAt'[m]) : ranAt'[m][k] >= due'[m]
  <2>1. Len(<<>>) = 0 /\ 1..0 = {}
    OBVIOUS
  <2>2. \A m \in Request : m # n => due'[m] = due[m]
    BY <1>4, <1>6
  <2> QED BY <1>4, <1>6, <2>1, <2>2 DEF DirectInv, NotBeforeDue
<1>12. partB' = {}
  BY DEF DirectInv
<1> QED BY <1>4, <1>9, <1>10, <1>11, <1>12, DirectNext

\* A SET or GET that is taken at once
LEMMA DirectRunNow ==
    ASSUME IInv, DirectInv, NEW id \in Nat, NEW g \in BOOLEAN,
           instructionCounter < MaxRequests,
           instructionCounter' = instructionCounter + 1,
           RunNow(id, g), partB' = partB
    PROVE  DirectInv'
<1> DEFINE n == instructionCounter + 1
           act == getFreeAction
           F == Filled(act, id, prevTime, g)
           M == Marked(F, act)
<1>1. n \in Request /\ instructionCounter \in Nat /\ instructionCounter' = n
      /\ n > instructionCounter
  BY RelayAssumption DEF IInv, TypeOK, Request
<1>2. actions \in Seq(Entry) /\ Slots = 1..Len(actions) /\ Len(actions) \in Nat
      /\ prevTime \in Time
  BY RelayAssumption DEF IInv, TypeOK, Entry, Slots, Time
<1>3. Extended(F, act, prevTime)
  BY <1>1, <1>2, FilledLemma
<1>4. /\ actions' = M /\ queue' = queue
      /\ ranAt' = IF F[act].executed THEN ranAt
                  ELSE [ranAt EXCEPT ![F[act].request] = Append(@, prevTime)]
      /\ due' = [due EXCEPT ![n] = prevTime]
  BY <1>1 DEF RunNow, ranOnce, Marked
<1>5. /\ due \in [Request -> Time] /\ ranAt \in [Request -> Seq(Time)]
      /\ ranAt[n] = <<>>
  BY <1>1 DEF IInv, TypeOK, FreshInv
<1> HIDE DEF F, act, n
<1>6. /\ F \in Seq(Entry) /\ act \in 1..Len(F) /\ Len(actions) <= Len(F)
      /\ F[act].request = n /\ ~F[act].executed
      /\ \A i \in 1..Len(F) : i # act /\ ~F[i].executed => i \in Slots /\ F[i] = actions[i]
      /\ \A i \in Slots : ~actions[i].executed => i # act /\ F[i] = actions[i]
  BY <1>1, <1>3 DEF Extended
<1>7. /\ Len(M) = Len(F) /\ M[act].executed
      /\ \A i \in 1..Len(F) : i # act => M[i] = F[i]
  BY <1>6, MarkedLemma
<1> HIDE DEF M
<1>8. \A i \in Slots : i \in 1..Len(F)
  BY <1>2, <1>6
<1>9. \A f \in queue : /\ f.act \in 1..Len(F) /\ ~M[f.act].executed
                       /\ f.request = M[f.act].request
                       /\ f.time = M[f.act].triggerTime
                       /\ f.get = FALSE /\ f.done = FALSE
  BY <1>6, <1>7, <1>8 DEF DirectInv, Owns
<1>10. \A i \in 1..Len(F) : ~M[i].executed => due'[M[i].request] = M[i].triggerTime
  <2>1. ASSUME NEW i \in 1..Len(F), ~M[i].executed
        PROVE  due'[M[i].request] = M[i].triggerTime
    <3>1. i \in Slots /\ M[i] = actions[i] /\ ~actions[i].executed
      BY <1>6, <1>7, <2>1
    <3>2. actions[i].request \in 1..instructionCounter
          /\ due[actions[i].request] = actions[i].triggerTime
      BY <3>1 DEF IInv, PendingInv, DirectInv
    <3>3. actions[i].request # n
      BY <1>1, <3>2
    <3> QED BY <1>4, <1>5, <3>1, <3>2, <3>3
  <2> QED BY <2>1
<1>11. \A m \in Request : \A k \in 1..Len(ranAt'[m]) : ranAt'[m][k] >= due'[m]
  <2>1. ranAt' = [ranAt EXCEPT ![n] = Append(<<>>, prevTime)]
    BY <1>4, <1>5, <1>6
  <2>2. \A m \in Request : m # n => due'[m] = due[m] /\ ranAt'[m] = ranAt[m]
    BY <1>4, <1>5, <2>1
  <2>3. ranAt'[n] = <<prevTime>> /\ due'[n] = prevTime
    <3>1. Append(<<>>, prevTime) = <<prevTime>>
      OBVIOUS
    <3>2. ranAt'[n] = Append(<<>>, prevTime)
      BY <1>1, <1>5, <2>1
    <3>3. due'[n] = prevTime
      BY <1>1, <1>4, <1>5
    <3> QED BY <3>1, <3>2, <3>3
  <2>4. \A k \in 1..Len(<<prevTime>>) : <<prevTime>>[k] >= prevTime
    <3>1. prevTime \in Nat
      BY <1>2, RelayAssumption DEF Time
    <3> QED BY <3>1
  <2> QED BY <2>2, <2>3, <2>4 DEF DirectInv, NotBeforeDue
<1>12. partB' = {}
  BY DEF DirectInv
<1> QED BY <1>4, <1>7, <1>9, <1>10, <1>11, <1>12, DirectNext

\* Pass A runs a SET adapter: the entry is its own, so it is due.
LEMMA DirectRunSet ==
    ASSUME IInv, DirectInv, NEW e \in queue, runSet(e)
    PROVE  DirectInv'
<1> DEFINE act == e.act
           n == actions[act].request
           M == Marked(actions, act)
<1>1. actions \in Seq(Entry) /\ Slots = 1..Len(actions) /\ Len(actions) \in Nat
      /\ prevTime \in Time /\ Time \subseteq Nat
  BY RelayAssumption DEF IInv, TypeOK, Entry, Slots, Time
<1>2. Owns(e) /\ act \in Slots /\ ~actions[act].executed
  BY DEF DirectInv, Owns
<1>3. /\ actions' = M /\ queue' = queue \ {e} /\ due' = due /\ partB' = partB
      /\ ranAt' = [ranAt EXCEPT ![n] = Append(@, prevTime)]
      /\ e.time <= prevTime
  BY <1>2 DEF runSet, ranOnce, Marked, Earliest, DueSets
<1>4. /\ due \in [Request -> Time] /\ ranAt \in [Request -> Seq(Time)]
  BY DEF IInv, TypeOK
<1>5. n \in Request /\ ranAt[n] = <<>>
  BY <1>2, RelayAssumption DEF IInv, TypeOK, PendingInv, Request
<1>6. due[n] = e.time
  BY <1>2 DEF DirectInv, Owns
<1>7. /\ Len(M) = Len(actions) /\ M[act].executed
      /\ \A i \in Slots : i # act => M[i] = actions[i]
  BY <1>1, <1>2, MarkedLemma
<1> HIDE DEF M
<1>8. ASSUME NEW f \in queue, f # e PROVE f.act # act
  <2>1. Owns(f)
    BY DEF DirectInv
  <2>2. e \in AdapterType(Len(actions)) /\ f \in AdapterType(Len(actions))
    BY DEF IInv, TypeOK, AdapterType, Slots
  <2>3. ASSUME f.act = act PROVE FALSE
    <3>1. /\ f.request = e.request /\ f.time = e.time /\ f.get = e.get /\ f.done = e.done
          /\ f.act = e.act
      BY <1>2, <2>1, <2>3 DEF Owns
    <3>2. f = e
      BY <2>2, <3>1 DEF AdapterType
    <3> QED BY <1>8, <3>2
  <2> QED BY <2>3
<1>9. \A f \in queue' : /\ f.act \in 1..Len(M) /\ ~M[f.act].executed
                        /\ f.request = M[f.act].request
                        /\ f.time = M[f.act].triggerTime
                        /\ f.get = FALSE /\ f.done = FALSE
  BY <1>1, <1>3, <1>7, <1>8 DEF DirectInv, Owns
<1>10. \A i \in 1..Len(M) : ~M[i].executed => due'[M[i].request] = M[i].triggerTime
  BY <1>1, <1>3, <1>7 DEF DirectInv
<1>11. \A m \in Request : \A k \in 1..Len(ranAt'[m]) : ranAt'[m][k] >= due'[m]
  <2> HIDE DEF n
  <2>1. \A m \in Request : m # n => ranAt'[m] = ranAt[m]
    BY <1>3, <1>4
  <2>2. ranAt'[n] = <<prevTime>>
    BY <1>3, <1>4, <1>5
  <2>3. due[n] \in Time /\ due[n] <= prevTime
    BY <1>3, <1>4, <1>5, <1>6
  <2>4. \A k \in 1..Len(<<prevTime>>) : <<prevTime>>[k] >= due[n]
    BY <1>1, <2>3
  <2> QED BY <1>3, <2>1, <2>2, <2>4 DEF DirectInv, NotBeforeDue
<1>12. partB' = {}
  BY <1>3 DEF DirectInv
<1> QED BY <1>3, <1>9, <1>10, <1>11, <1>12, DirectNext

LEMMA DirectStep ==
    ASSUME IInv, Direct, DirectInv, [Next]_vars
    PROVE  DirectInv'
<1>1. /\ prevTime \in Time /\ prevTime + ActionDelay \in Time /\ 1..Horizon \subseteq Time
  BY RelayAssumption DEF IInv, TypeOK, Time
<1>2. ASSUME NEW id \in ClientIds \cup {0}, receiveSetNow(id) PROVE DirectInv'
  <2>1. Receive("SET now") /\ Identified(id)
        /\ UNCHANGED <<driver, partB, erasing, cancelled>>
    BY <1>2 DEF receiveSetNow
  <2>2. CASE RunNow(id, FALSE)
    BY <2>1, <2>2, ReceiveLemma, DirectRunNow
  <2>3. CASE Enqueue(id, prevTime + ActionDelay, FALSE)
    BY <1>1, <2>1, <2>3, ReceiveLemma, DirectEnqueue
  <2> QED BY <1>2, <2>2, <2>3 DEF receiveSetNow
<1>3. ASSUME NEW id \in ClientIds \cup {0}, receiveGetNow(id) PROVE DirectInv'
  <2>1. Receive("GET now") /\ Identified(id) /\ RunNow(id, TRUE)
        /\ UNCHANGED <<driver, partB, erasing, cancelled>>
    BY <1>3 DEF receiveGetNow
  <2> QED BY <2>1, ReceiveLemma, DirectRunNow
<1>4. ASSUME NEW id \in ClientIds \cup {0}, NEW t \in 1..Horizon, receiveSetScheduled(id, t)
      PROVE  DirectInv'
  <2>1. Receive("SET") /\ Identified(id) /\ Enqueue(id, t, FALSE) /\ partB' = partB
    BY <1>4 DEF receiveSetScheduled
  <2> QED BY <1>1, <2>1, ReceiveLemma, DirectEnqueue
<1>5. ASSUME NEW id, NEW t, receiveGetScheduled(id, t) PROVE FALSE
  BY <1>5 DEF receiveGetScheduled, Receive, Direct
<1>6. ASSUME NEW id, receiveCancel(id) PROVE FALSE
  BY <1>6 DEF receiveCancel, Receive, Direct
<1>7. ASSUME NEW e \in queue, runSet(e) PROVE DirectInv'
  BY <1>7, DirectRunSet
<1>8. ASSUME NEW e \in partB, runGet(e) PROVE FALSE
  BY <1>8 DEF DirectInv
<1>9. CASE endA
  <2>1. /\ partB' = {e \in queue : e.time <= prevTime} /\ actions' = actions
        /\ due' = due /\ ranAt' = ranAt /\ queue' \subseteq queue
    BY <1>9 DEF endA, history
  <2>2. partB' = {}
    BY <1>9, <2>1 DEF endA, DueSets, DirectInv, Owns
  <2>3. Slots' = Slots /\ \A e \in queue : Owns(e)
    BY <2>1 DEF Slots, DirectInv
  <2>4. (\A e \in queue : Owns(e))'
    BY <2>1, <2>3 DEF Owns
  <2> QED BY <2>1, <2>2, <2>3, <2>4 DEF DirectInv, NotBeforeDue
<1>10. CASE UNCHANGED <<actions, queue, partB, due, ranAt>>
  <2>1. Slots' = Slots
    BY <1>10 DEF Slots
  <2>2. (\A e \in queue : Owns(e))' <=> \A e \in queue : Owns(e)
    BY <1>10, <2>1 DEF Owns
  <2> QED BY <1>10, <2>1, <2>2 DEF DirectInv, NotBeforeDue
<1>11. receiveOther \/ Advance \/ beginB \/ endB \/ UNCHANGED vars
            => UNCHANGED <<actions, queue, partB, due, ranAt>>
  BY DEF receiveOther, Advance, advance, beginB, endB, history, vars, driver
<1> QED BY <1>2, <1>3, <1>4, <1>5, <1>6, <1>7, <1>8, <1>9, <1>10, <1>11
        DEF Next, Messages, Passes

\* While clients send only SET, now or for later, and GET for now, no action is
\* taken before its time, although the entries of the vector are given from
\* request to request: the adapter that finds an entry is the one of its
\* request.
THEOREM TakenWhenDue == Spec => [](Direct => NotBeforeDue)
<1>1. Init => DirectInv
  <2> SUFFICES ASSUME Init PROVE DirectInv
    OBVIOUS
  <2>1. Slots = {} /\ queue = {} /\ partB = {} /\ \A n \in Request : ranAt[n] = <<>>
    BY DEF Init, Slots
  <2>2. Len(<<>>) = 0 /\ 1..0 = {}
    OBVIOUS
  <2> QED BY <2>1, <2>2 DEF DirectInv, NotBeforeDue
<1>2. IInv /\ (Direct => DirectInv) /\ [Next]_vars => (Direct => DirectInv)'
  <2>1. Direct' <=> Direct
    BY DEF Direct
  <2> QED BY <2>1, DirectStep
<1>3. (Direct => DirectInv) => (Direct => NotBeforeDue)
  BY DEF DirectInv
<1> QED BY <1>1, <1>2, <1>3, InvInit, InvStep, PTL DEF Spec

-----------------------------------------------------------------------------
(* ControlRelay implements RequestService: each step of the relay and of   *)
(* the queue is one step of the service for one request, or changes        *)
(* nothing that a client can know.                                         *)

\* The step changes nothing for the client of request k.
Same(k) ==
    /\ Taken(k)' <=> Taken(k)
    /\ k \in cancelled' <=> k \in cancelled
    /\ Pending(k)' <=> Pending(k)

\* Steps that no client can know of.
LEMMA StatusStutter ==
    ASSUME \A k \in Request : Same(k)
    PROVE  clientStatus' = clientStatus
<1>1. \A k \in Request : clientStatus'[k] = clientStatus[k]
  BY DEF clientStatus, Same
<1> QED BY <1>1 DEF clientStatus

\* Steps that one client can know of, with the status before and after.
LEMMA StatusChange ==
    ASSUME NEW n \in Request, \A k \in Request \ {n} : Same(k)
    PROVE  /\ clientStatus' = [clientStatus EXCEPT ![n] = clientStatus'[n]]
           /\ Taken(n)' => clientStatus'[n] = "taken"
           /\ ~Taken(n)' /\ n \in cancelled' => clientStatus'[n] = "cancelled"
           /\ ~Taken(n)' /\ n \notin cancelled' /\ Pending(n)'
                  => clientStatus'[n] = "pending"
           /\ ~Taken(n) /\ n \notin cancelled /\ Pending(n)
                  => clientStatus[n] = "pending"
           /\ ~Taken(n) /\ n \notin cancelled /\ ~Pending(n)
                  => clientStatus[n] = "none"
<1>1. \A k \in Request \ {n} : clientStatus'[k] = clientStatus[k]
  BY DEF clientStatus, Same
<1>2. /\ clientStatus' = [k \in Request |-> clientStatus'[k]]
      /\ clientStatus = [k \in Request |-> clientStatus[k]]
  BY DEF clientStatus
<1>3. clientStatus' = [clientStatus EXCEPT ![n] = clientStatus'[n]]
  BY <1>1, <1>2
<1> QED BY <1>3 DEF clientStatus

\* Nothing has happened to the next request, and no entry stands for it.
LEMMA NextRequest ==
    ASSUME IInv, NEW n \in Request, n = instructionCounter + 1
    PROVE  ~Taken(n) /\ n \notin cancelled /\ ~Pending(n)
<1>1. instructionCounter \in Nat
  BY RelayAssumption DEF IInv, TypeOK
<1>2. ranAt[n] = <<>> /\ n \notin cancelled
  BY <1>1 DEF IInv, FreshInv
<1>3. \A i \in Slots : ~actions[i].executed =>
          actions[i].request \in 1..instructionCounter
  BY DEF IInv, PendingInv
<1> QED BY <1>1, <1>2, <1>3 DEF Taken, Pending

-----------------------------------------------------------------------------
(* The steps.                                                              *)

\* A SET or GET that has to wait is accepted.
LEMMA EnqueueServes ==
    ASSUME IInv, NEW id \in Nat, NEW t \in Time, NEW g \in BOOLEAN,
           instructionCounter < MaxRequests,
           instructionCounter' = instructionCounter + 1,
           Enqueue(id, t, g), UNCHANGED cancelled
    PROVE  Service!Next
<1>1. instructionCounter \in Nat /\ instructionCounter + 1 \in Request
  BY RelayAssumption DEF IInv, TypeOK, Request
<1>2. PICK n \in Request : n = instructionCounter + 1
  BY <1>1
<1> DEFINE act == getFreeAction
           F == Filled(act, id, t, g)
<1>3. actions \in Seq(Entry) /\ actions' = F
  BY DEF IInv, TypeOK, Entry, Enqueue
<1>4. Extended(F, act, t)
  BY <1>1, <1>3, FilledLemma
<1>5. ranAt' = ranAt /\ cancelled' = cancelled
  BY DEF Enqueue
<1> HIDE DEF F, act
<1>6. /\ act \in Slots' /\ F[act].request = n /\ ~F[act].executed
      /\ \A i \in Slots' : i # act /\ ~F[i].executed
               => i \in Slots /\ F[i] = actions[i]
      /\ \A i \in Slots : ~actions[i].executed => i \in Slots' /\ F[i] = actions[i]
  <2>1. Len(actions) \in Nat /\ Len(F) \in Nat /\ Len(actions) <= Len(F)
    BY <1>3, <1>4 DEF Extended
  <2> QED BY <1>2, <1>3, <1>4, <2>1 DEF Extended, Slots
<1>7. \A k \in Request \ {n} : Same(k)
  BY <1>3, <1>5, <1>6 DEF Same, Taken, Pending
<1>8. ~Taken(n) /\ n \notin cancelled /\ ~Pending(n)
  BY <1>2, NextRequest
<1>9. ~Taken(n)' /\ n \notin cancelled' /\ Pending(n)'
  BY <1>3, <1>5, <1>6, <1>8 DEF Taken, Pending
<1>10. Service!Accept(n)
  BY <1>7, <1>8, <1>9, StatusChange DEF Service!Accept, Service!Becomes
<1> QED BY <1>10 DEF Service!Next

\* A SET or GET whose time has come is answered at once.
LEMMA RunNowServes ==
    ASSUME IInv, NEW id \in Nat, NEW g \in BOOLEAN,
           instructionCounter < MaxRequests,
           instructionCounter' = instructionCounter + 1,
           RunNow(id, g), UNCHANGED cancelled
    PROVE  Service!Next
<1>1. instructionCounter \in Nat /\ instructionCounter + 1 \in Request
  BY RelayAssumption DEF IInv, TypeOK, Request
<1>2. PICK n \in Request : n = instructionCounter + 1
  BY <1>1
<1> DEFINE act == getFreeAction
           F == Filled(act, id, prevTime, g)
<1>3. actions \in Seq(Entry) /\ prevTime \in Time
      /\ ranAt \in [Request -> Seq(Time)]
  BY RelayAssumption DEF IInv, TypeOK, Entry, Time
<1>4. Extended(F, act, prevTime)
  BY <1>1, <1>3, FilledLemma
<1>5. /\ actions' = Marked(F, act) /\ cancelled' = cancelled
      /\ ranAt' = IF F[act].executed THEN ranAt
                  ELSE [ranAt EXCEPT ![F[act].request] = Append(@, prevTime)]
  BY DEF RunNow, ranOnce, Marked
<1> HIDE DEF F, act
<1>6. /\ F \in Seq(Entry) /\ act \in 1..Len(F) /\ Len(actions) <= Len(F)
      /\ F[act].request = n /\ ~F[act].executed
      /\ \A i \in 1..Len(F) : i # act /\ ~F[i].executed
               => i \in Slots /\ F[i] = actions[i]
      /\ \A i \in Slots : ~actions[i].executed => i # act /\ F[i] = actions[i]
  BY <1>2, <1>4 DEF Extended
<1>7. /\ Slots' = 1..Len(F) /\ Slots \subseteq Slots' /\ actions'[act].executed
      /\ \A i \in Slots' : i # act => actions'[i] = F[i]
  <2>1. Len(actions) \in Nat /\ Len(F) \in Nat
    BY <1>3, <1>6
  <2> QED BY <1>5, <1>6, <2>1, MarkedLemma DEF Slots
<1>8. ~Taken(n) /\ n \notin cancelled /\ ~Pending(n) /\ ranAt[n] = <<>>
  <2>1. ranAt[n] = <<>>
    BY <1>1, <1>2 DEF IInv, FreshInv
  <2> QED BY <1>2, <2>1, NextRequest
<1>9. ranAt' = [ranAt EXCEPT ![n] = <<prevTime>>]
  BY <1>5, <1>6, <1>8
<1>10. \A k \in Request \ {n} : Same(k)
  <2>1. \A k \in Request \ {n} : ranAt'[k] = ranAt[k]
    BY <1>3, <1>9
  <2>2. \A i \in Slots' : ~actions'[i].executed =>
            i \in Slots /\ actions'[i] = actions[i]
    BY <1>6, <1>7
  <2>3. \A i \in Slots : ~actions[i].executed =>
            i \in Slots' /\ actions'[i] = actions[i]
    BY <1>6, <1>7
  <2>4. \A k \in Request : Pending(k)' <=> Pending(k)
    BY <2>2, <2>3 DEF Pending
  <2> QED BY <1>5, <2>1, <2>4 DEF Same, Taken
<1>11. Taken(n)'
  <2>1. ranAt'[n] = <<prevTime>> /\ Len(<<prevTime>>) = 1
    BY <1>3, <1>9
  <2> QED BY <2>1 DEF Taken
<1>12. Service!Answer(n)
  BY <1>8, <1>10, <1>11, StatusChange DEF Service!Answer, Service!Becomes
<1> QED BY <1>12 DEF Service!Next

\* An adapter of the queue takes the action of its entry, or finds the entry
\* executed.
LEMMA TakeServes ==
    ASSUME IInv, NEW act \in Slots, ranOnce(actions, act), UNCHANGED cancelled
    PROVE  Service!Next \/ UNCHANGED clientStatus
<1>1. actions \in Seq(Entry) /\ prevTime \in Time /\ Slots = 1..Len(actions)
      /\ ranAt \in [Request -> Seq(Time)] /\ instructionCounter \in 0..MaxRequests
  BY RelayAssumption DEF IInv, TypeOK, Entry, Time, Slots
<1>2. /\ Slots' = Slots /\ actions'[act].executed
      /\ \A i \in Slots : i # act => actions'[i] = actions[i]
  <2>1. actions' = Marked(actions, act)
    BY DEF ranOnce, Marked
  <2> QED BY <1>1, <2>1, MarkedLemma DEF Slots
<1>3. CASE actions[act].executed
  <2>1. ranAt' = ranAt
    BY <1>3 DEF ranOnce
  <2>2. \A k \in Request : Same(k)
    BY <1>2, <1>3, <2>1 DEF Same, Taken, Pending
  <2> QED BY <2>2, StatusStutter
<1>4. CASE ~actions[act].executed
  <2>1. actions[act].request \in Request
    BY <1>1, <1>4, RelayAssumption DEF IInv, PendingInv, Request
  <2>2. PICK n \in Request : n = actions[act].request
    BY <2>1
  <2>3. ranAt[n] = <<>> /\ n \notin cancelled
    BY <1>4, <2>2 DEF IInv, PendingInv
  <2>4. ranAt' = [ranAt EXCEPT ![n] = Append(@, prevTime)]
    BY <1>4, <2>2 DEF ranOnce
  <2>5. \A k \in Request \ {n} : Same(k)
    <3>1. \A k \in Request \ {n} : ranAt'[k] = ranAt[k]
      BY <1>1, <2>4
    <3>2. \A k \in Request \ {n} : Pending(k)' <=> Pending(k)
      BY <1>2, <2>2 DEF Pending
    <3> QED BY <3>1, <3>2 DEF Same, Taken
  <2>6. ~Taken(n) /\ Pending(n)
    BY <1>4, <2>2, <2>3 DEF Taken, Pending
  <2>7. Taken(n)'
    <3>1. ranAt'[n] = Append(<<>>, prevTime) /\ Len(Append(<<>>, prevTime)) = 1
      BY <1>1, <2>3, <2>4
    <3> QED BY <3>1 DEF Taken
  <2>8. Service!Take(n)
    BY <2>3, <2>5, <2>6, <2>7, StatusChange DEF Service!Take, Service!Becomes
  <2> QED BY <2>8 DEF Service!Next
<1> QED BY <1>3, <1>4

\* CANCEL marks at most one entry: findAction returns the first with the id.
LEMMA receiveCancelServes ==
    ASSUME IInv, NEW id, receiveCancel(id)
    PROVE  Service!Next \/ UNCHANGED clientStatus
<1> DEFINE may == {i \in findAction(id) :
                      ~actions[i].executed /\ actions[i].triggerTime > ActionDelay}
<1>1. actions \in Seq(Entry) /\ Slots = 1..Len(actions) /\ Len(actions) \in Nat
      /\ instructionCounter \in 0..MaxRequests
  <2>1. actions \in Seq(Entry) /\ instructionCounter \in 0..MaxRequests
    BY DEF IInv, TypeOK, Entry
  <2> QED BY <2>1 DEF Slots
<1>2. /\ may \subseteq Slots /\ \A i \in may : ~actions[i].executed
      /\ \A i, j \in may : i <= j
  BY DEF findAction
<1>3. /\ actions' = [i \in Slots |-> IF i \in may
                            THEN [actions[i] EXCEPT !.executed = TRUE]
                            ELSE actions[i]]
      /\ cancelled' = cancelled \cup {actions[i].request : i \in may}
      /\ ranAt' = ranAt
  BY DEF receiveCancel
<1> HIDE DEF may
<1>4. \A i, j \in may : i = j
  BY <1>1, <1>2
<1>5. \A i \in Slots : [actions[i] EXCEPT !.executed = TRUE].executed
  <2>1. \A i \in Slots : actions[i] \in Entry
    BY <1>1
  <2> QED BY <2>1 DEF Entry
<1>6. /\ Slots' = Slots
      /\ \A i \in Slots : i \in may => actions'[i].executed
      /\ \A i \in Slots : i \notin may => actions'[i] = actions[i]
  <2>1. actions' = [i \in 1..Len(actions) |-> actions'[i]]
    BY <1>1, <1>3
  <2>2. Len(actions') = Len(actions)
    BY <1>1, <2>1
  <2> QED BY <1>3, <1>5, <2>2 DEF Slots
<1>7. \A n : n \in cancelled' <=> n \in cancelled \/ \E i \in may : n = actions[i].request
  BY <1>3
<1>8. CASE may = {}
  <2>1. \A k \in Request : Same(k)
    BY <1>3, <1>6, <1>7, <1>8 DEF Same, Taken, Pending
  <2> QED BY <2>1, StatusStutter
<1>9. CASE may # {}
  <2>1. PICK a \in may : TRUE
    BY <1>9
  <2>2. actions[a].request \in Request /\ a \in Slots /\ ~actions[a].executed
    BY <1>1, <1>2, RelayAssumption DEF IInv, PendingInv, Request
  <2>3. PICK n \in Request : n = actions[a].request
    BY <2>2
  <2>4. \A i \in may : i = a
    BY <1>4, <2>1
  <2>5. ranAt[n] = <<>> /\ n \notin cancelled
    BY <2>2, <2>3 DEF IInv, PendingInv
  <2>6. \A k \in Request \ {n} : Same(k)
    <3>1. \A k \in Request \ {n} : k \in cancelled' <=> k \in cancelled
      BY <1>7, <2>3, <2>4
    <3>2. \A k \in Request \ {n} : Pending(k)' <=> Pending(k)
      BY <1>6, <2>1, <2>3, <2>4 DEF Pending
    <3> QED BY <1>3, <3>1, <3>2 DEF Same, Taken
  <2>7. ~Taken(n) /\ Pending(n)
    BY <2>2, <2>3, <2>5 DEF Taken, Pending
  <2>8. ~Taken(n)' /\ n \in cancelled'
    BY <1>3, <1>7, <2>1, <2>3, <2>7 DEF Taken
  <2>9. Service!Cancel(n)
    BY <2>5, <2>6, <2>7, <2>8, StatusChange DEF Service!Cancel, Service!Becomes
  <2> QED BY <2>9 DEF Service!Next
<1> QED BY <1>8, <1>9

\* Every branch of receiveMessage is a step of the service or stutters.
LEMMA MessagesServe == IInv /\ Messages => [Service!Next]_clientStatus
<1> SUFFICES ASSUME IInv, Messages PROVE Service!Next \/ UNCHANGED clientStatus
  OBVIOUS
<1>0. prevTime \in Time /\ prevTime + ActionDelay \in Time /\ 1..Horizon \subseteq Time
  BY RelayAssumption DEF IInv, TypeOK, Time
<1>1. ASSUME NEW id \in ClientIds \cup {0}, receiveSetNow(id) PROVE Service!Next
  <2>1. Receive("SET now") /\ Identified(id) /\ UNCHANGED cancelled
    BY <1>1 DEF receiveSetNow
  <2>2. CASE RunNow(id, FALSE)
    BY <2>1, <2>2, ReceiveLemma, RunNowServes
  <2>3. CASE Enqueue(id, prevTime + ActionDelay, FALSE)
    BY <1>0, <2>1, <2>3, ReceiveLemma, EnqueueServes
  <2> QED BY <1>1, <2>2, <2>3 DEF receiveSetNow
<1>2. ASSUME NEW id \in ClientIds \cup {0}, receiveGetNow(id) PROVE Service!Next
  <2>1. Receive("GET now") /\ Identified(id) /\ RunNow(id, TRUE)
        /\ UNCHANGED cancelled
    BY <1>2 DEF receiveGetNow
  <2> QED BY <2>1, ReceiveLemma, RunNowServes
<1>3. ASSUME NEW id \in ClientIds \cup {0}, NEW t \in 1..Horizon,
             receiveSetScheduled(id, t) \/ receiveGetScheduled(id, t)
      PROVE  Service!Next
  <2>1. PICK g \in BOOLEAN : Enqueue(id, t, g)
    BY <1>3 DEF receiveSetScheduled, receiveGetScheduled
  <2>2. PICK kind \in {"SET", "GET"} : Receive(kind)
    BY <1>3 DEF receiveSetScheduled, receiveGetScheduled
  <2>3. Identified(id) /\ UNCHANGED cancelled
    BY <1>3 DEF receiveSetScheduled, receiveGetScheduled
  <2>4. instructionCounter < MaxRequests /\ id \in Nat
        /\ instructionCounter' = instructionCounter + 1
    BY <2>2, <2>3, ReceiveLemma
  <2> QED BY <1>0, <2>1, <2>3, <2>4, EnqueueServes
<1>4. ASSUME NEW id \in ClientIds \cup Request, receiveCancel(id)
      PROVE  Service!Next \/ UNCHANGED clientStatus
  BY <1>4, receiveCancelServes
<1>5. CASE receiveOther
  <2>1. UNCHANGED <<actions, ranAt, cancelled>>
    BY <1>5 DEF receiveOther, history
  <2>2. \A k \in Request : Same(k)
    BY <2>1 DEF Same, Taken, Pending, Slots
  <2> QED BY <2>2, StatusStutter
<1> QED BY <1>1, <1>2, <1>3, <1>4, <1>5 DEF Messages

\* Every step is a step of the service or stutters.
LEMMA StepServes == IInv /\ [Next]_vars => [Service!Next]_clientStatus
<1> SUFFICES ASSUME IInv, [Next]_vars
             PROVE  Service!Next \/ UNCHANGED clientStatus
  OBVIOUS
<1>1. CASE Messages
  BY <1>1, MessagesServe
<1>2. CASE Advance \/ endA \/ beginB \/ endB \/ UNCHANGED vars
  <2>1. actions' = actions /\ ranAt' = ranAt /\ cancelled' = cancelled
    BY <1>2 DEF Advance, advance, endA, beginB, endB, vars, history
  <2>2. \A k \in Request : Same(k)
    BY <2>1 DEF Same, Taken, Pending, Slots
  <2> QED BY <2>2, StatusStutter
<1>3. ASSUME NEW e \in queue \cup partB, ranOnce(actions, e.act),
             UNCHANGED cancelled
      PROVE  Service!Next \/ UNCHANGED clientStatus
  <2>1. e.act \in Slots
    BY DEF IInv, TypeOK
  <2> QED BY <1>3, <2>1, TakeServes
<1>4. ASSUME NEW e \in queue, runSet(e)
      PROVE  Service!Next \/ UNCHANGED clientStatus
  BY <1>3, <1>4 DEF runSet
<1>5. ASSUME NEW e \in partB, runGet(e)
      PROVE  Service!Next \/ UNCHANGED clientStatus
  BY <1>3, <1>5 DEF runGet
<1> QED BY <1>1, <1>2, <1>4, <1>5 DEF Next, Passes

\* The table of entries with its reuse, the adapters that name entries by
\* index and the two passes of the queue keep the promise of RequestService:
\* one request at a time goes from none to pending or taken, and from
\* pending to taken or cancelled, where it stays.
THEOREM Refinement == Spec => ImplementsService
<1>1. Init => Service!Init
  <2> SUFFICES ASSUME Init PROVE Service!Init
    OBVIOUS
  <2>1. Slots = {} /\ cancelled = {} /\ ranAt = [n \in Request |-> <<>>]
    BY DEF Init, Slots
  <2>2. \A n \in Request : ~Taken(n) /\ ~Pending(n)
    BY <2>1 DEF Taken, Pending
  <2> QED BY <2>1, <2>2 DEF Service!Init, clientStatus
<1> QED BY <1>1, InvInit, InvStep, StepServes, PTL
        DEF Spec, ImplementsService, Service!Spec
=============================================================================
