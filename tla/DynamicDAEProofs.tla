-------------------------- MODULE DynamicDAEProofs --------------------------
(***************************************************************************)
(* Proofs about the loop of a dynamic simulation, for any adapters,        *)
(* periods, tolerances and end of the simulation, and any number of roots. *)
(***************************************************************************)
EXTENDS DynamicDAE, WellFoundedInduction, TLAPS

\* The clock and the solver are never more than the tolerance apart.
Near == currentTime <= timeReturn + Tol /\ timeReturn <= currentTime + Tol

\* Adapter e comes after the clock.  It may come before by less than the
\* tolerance when the clock was just pushed by it.
Ahead(e) == \/ currentTime < next[e]
            \/ inLoop /\ tstep = 1 /\ currentTime < next[e] + Tol

\* What each place of the loop knows about the next times of the adapters.  The
\* objects may have moved some of them to before the stop, but not to before
\* the time that the solver has reached.
Places ==
    /\ pc = "startup" => currentTime = 0 /\ \A e \in Adapters : next[e] > 0
    /\ pc = "outer" =>
            /\ currentTime <= tStop /\ currentTime < nextStopTime
            /\ \A e \in Adapters : nextStopTime <= next[e]
    /\ pc = "solve" => /\ \/ currentTime < nextStop
                          \/ inLoop /\ tstep = 1 /\ currentTime < nextStop + Tol
                       /\ ~inLoop => timeReturn <= nextStop
                       /\ \A e \in Adapters : nextStop <= next[e]
    /\ pc = "inner" =>
            /\ timeReturn <= nextStop
            /\ \A e \in Adapters : \/ next[e] >= nextStop
                                   \/ next[e] > timeReturn /\ Ahead(e)
    /\ pc \in {"reset", "probed", "conditions"} =>
            /\ currentTime <= tStop /\ (inLoop => currentTime < tStop)
            /\ \A e \in Adapters : Ahead(e)

\* The counters pass their limits only when the run has ended.
Counters == pc # "failed" => tstep <= 1 /\ smStep <= MaxSmall

IInv == TypeOK /\ NeverPast /\ OnTime /\ Near /\ Places /\ Counters

-----------------------------------------------------------------------------
(* The next times                                                          *)

\* getNextTime is the least of the next times.
LEMMA NextTimeLemma ==
    ASSUME NEW nt \in [Adapters -> Nat]
    PROVE  /\ getNextTime(nt) \in Nat
           /\ \A e \in Adapters : getNextTime(nt) <= nt[e]
           /\ \E e \in Adapters : getNextTime(nt) = nt[e]
<1> DEFINE S == {nt[e] : e \in Adapters}
<1>1. S \in SUBSET Nat /\ S # {}
  BY DynamicAssumption
<1>2. PICK n \in S : \A m \in S : n <= m
  <2> DEFINE Less == OpToRel(<, Nat)
  <2>1. \A x, y \in Nat : <<y, x>> \in Less <=> y < x
    BY DEF OpToRel
  <2>2. IsWellFoundedOn(Less, Nat)
    BY NatLessThanWellFounded
  <2> HIDE DEF S, Less
  <2>3. PICK x \in S : \A y \in S : ~(<<y, x>> \in Less)
    BY <1>1, <2>2, WFMin
  <2>4. ASSUME NEW m \in S PROVE x <= m
    <3>1. x \in Nat /\ m \in Nat
      BY <1>1
    <3>2. ~(m < x)
      BY <2>1, <2>3, <3>1
    <3> QED BY <3>1, <3>2
  <2> QED BY <2>4
<1>3. Min(S) \in S /\ \A m \in S : Min(S) <= m
  BY <1>2 DEF Min
<1> QED BY <1>1, <1>3 DEF getNextTime

\* An object that acts at time t moves its update to after t or not at all.
LEMMA MoveLemma ==
    ASSUME next \in [Adapters -> Nat], NEW t \in Nat, Move(t)
    PROVE  /\ next' \in [Adapters -> Nat]
           /\ \A e \in Adapters : next'[e] = next[e] \/ next'[e] > t
<1>1. PICK moved \in SUBSET Objects : \E d \in [moved -> (t + 1)..tStop] :
          next' = [e \in Adapters |-> IF e \in moved THEN d[e] ELSE next[e]]
  BY DEF Move
<1>2. PICK d \in [moved -> (t + 1)..tStop] :
          next' = [e \in Adapters |-> IF e \in moved THEN d[e] ELSE next[e]]
  BY <1>1
<1>3. \A e \in moved : d[e] \in Nat /\ d[e] > t
  <2>1. ASSUME NEW e \in moved PROVE d[e] \in (t + 1)..tStop
    OBVIOUS
  <2> QED BY <2>1, DynamicAssumption
<1> QED BY <1>2, <1>3

\* executeEvents moves the adapters that are due by their periods, and records
\* them.
LEMMA ExecuteLemma ==
    ASSUME TypeOK, NEW c \in Nat, NEW at \in Nat, NEW changing, NEW fl \in SUBSET Flags,
           executeEvents(c, at, changing, fl)
    PROVE  /\ next' \in [Adapters -> Nat] /\ flags' \subseteq Flags /\ budget' = budget
           /\ \A e \in Adapters :
                \/ next[e] > c + Tol /\ next'[e] = next[e]
                \/ next[e] <= c + Tol
                   /\ (next'[e] > next[e] + Tol \/ next'[e] = Inf)
           /\ \A x \in ran' : \E e \in Adapters :
                next[e] <= c + Tol /\ x = [due |-> next[e], at |-> at]
<1> DEFINE due == {e \in Adapters : next[e] <= c + Tol}
<1>1. next \in [Adapters -> Nat] /\ flags \subseteq Flags
  BY DEF TypeOK
<1>2. next' = [e \in Adapters |-> IF e \notin due THEN next[e]
                    ELSE IF Period[e] > 0 THEN next[e] + Period[e] ELSE Inf]
  BY DEF executeEvents
<1>3. \A e \in Adapters : Period[e] \in Nat /\ (Period[e] > 0 => Period[e] > Tol)
  BY DynamicAssumption
<1>4. Tol \in Nat /\ Probe \in Nat /\ Inf \in Nat
  BY DynamicAssumption
<1>5. next' \in [Adapters -> Nat]
  BY <1>1, <1>2, <1>3, <1>4
<1>6. ASSUME NEW e \in Adapters
      PROVE  \/ next[e] > c + Tol /\ next'[e] = next[e]
             \/ next[e] <= c + Tol
                /\ (next'[e] > next[e] + Tol \/ next'[e] = Inf)
  BY <1>1, <1>2, <1>3, <1>4
<1>7. flags' \subseteq Flags /\ budget' = budget
  BY <1>1 DEF executeEvents
<1>8. ran' = {[due |-> next[e], at |-> at] : e \in due}
  BY DEF executeEvents
<1> QED BY <1>5, <1>6, <1>7, <1>8

\* The root checks of the initial conditions
LEMMA RootCheckLemma ==
    ASSUME TypeOK, rootChecks(currentTime)
    PROVE  /\ next' \in [Adapters -> Nat] /\ flags' \subseteq Flags
           /\ \A e \in Adapters : next'[e] = next[e] \/ next'[e] > currentTime
<1>1. next \in [Adapters -> Nat] /\ currentTime \in Nat /\ flags \subseteq Flags
  BY DynamicAssumption DEF TypeOK
<1>2. Move(currentTime)
  BY DEF rootChecks
<1>3. /\ next' \in [Adapters -> Nat]
      /\ \A e \in Adapters : next'[e] = next[e] \/ next'[e] > currentTime
  BY <1>1, <1>2, MoveLemma
<1>4. flags' \subseteq Flags
  BY <1>1 DEF rootChecks
<1> QED BY <1>3, <1>4

-----------------------------------------------------------------------------
(* The steps                                                               *)

\* The numbers that the steps compute with.
LEMMA Numbers ==
    ASSUME TypeOK
    PROVE  /\ currentTime \in Nat /\ timeReturn \in Nat /\ nextStop \in Nat
           /\ nextStopTime \in Nat /\ tStop \in Nat \ {0} /\ Inf \in Nat
           /\ Tol \in Nat \ {0} /\ Small \in Nat /\ Probe \in Nat /\ MaxSmall \in Nat
           /\ tstep \in Nat /\ smStep \in Nat
           /\ Probe > Tol /\ Small > Tol /\ Inf > tStop + Tol + Probe
           /\ timeReturn <= tStop /\ nextStop <= tStop
           /\ next \in [Adapters -> Nat] /\ \A e \in Adapters : next[e] \in Nat
BY DynamicAssumption DEF TypeOK

\* Every adapter starts after time 0.
LEMMA InvInit == Init => IInv
<1> SUFFICES ASSUME Init PROVE IInv
  OBVIOUS
<1>1. /\ Start \in [Adapters -> 1..tStop] /\ tStop \in Nat \ {0} /\ Tol \in Nat
      /\ MaxRoots \in Nat /\ MaxSmall \in Nat
  BY DynamicAssumption
<1>2. next \in [Adapters -> Nat] /\ \A e \in Adapters : next[e] > 0 /\ next[e] \in Nat
  BY <1>1 DEF Init
<1>3. pc \in PCs /\ pState \in {"INITIALIZED", "PARTIAL", "COMPLETE"} /\ pc = "startup"
  BY DEF Init, PCs
<1>4. /\ currentTime = 0 /\ timeReturn = 0 /\ nextStop = 0 /\ nextStopTime = 0
      /\ tstep = 0 /\ smStep = 0 /\ flags = {} /\ budget = MaxRoots /\ ran = {}
      /\ code = "NO_CHANGE"
  BY DEF Init
<1>5. inLoop \in BOOLEAN
  BY DEF Init
<1>6. TypeOK
  BY <1>1, <1>2, <1>3, <1>4, <1>5 DEF TypeOK
<1>7. NeverPast
  BY <1>1, <1>2, <1>4 DEF NeverPast
<1>8. OnTime
  BY <1>4 DEF OnTime
<1>9. Near /\ Counters
  BY <1>1, <1>4 DEF Near, Counters
<1>10. Places
  BY <1>2, <1>3, <1>4 DEF Places
<1> QED BY <1>6, <1>7, <1>8, <1>9, <1>10 DEF IInv

\* A step that runs no adapter and moves none to before the time of the solver.
LEMMA KeepTimes ==
    ASSUME IInv, UNCHANGED <<timeReturn, ran>>, next' \in [Adapters -> Nat],
           \A e \in Adapters : next'[e] = next[e] \/ next'[e] > currentTime
    PROVE  NeverPast' /\ OnTime'
<1>1. TypeOK /\ NeverPast /\ OnTime /\ Near
  BY DEF IInv
<1>2. /\ currentTime \in Nat /\ timeReturn \in Nat /\ Tol \in Nat
      /\ \A e \in Adapters : next[e] \in Nat /\ next'[e] \in Nat
  BY <1>1, Numbers
<1>3. NeverPast'
  BY <1>1, <1>2 DEF NeverPast, Near
<1>4. OnTime'
  BY <1>1 DEF OnTime
<1> QED BY <1>3, <1>4

\* The objects act at the start, after time 0.
LEMMA startupStep == IInv /\ startup => IInv'
<1> SUFFICES ASSUME IInv, startup PROVE IInv'
  OBVIOUS
<1>0. TypeOK /\ Near /\ Places /\ Counters
  BY DEF IInv
<1>1. /\ pc = "startup" /\ pc' = "outer" /\ rootChecks(currentTime)
      /\ nextStopTime' = Earlier(tStop, getNextTime(next'))
      /\ UNCHANGED <<pState, currentTime, timeReturn, nextStop, tstep, smStep, budget,
                     code, inLoop, ran>>
  BY DEF startup, steps
<1>2. currentTime = 0 /\ \A e \in Adapters : currentTime < next[e]
  BY <1>0, <1>1 DEF Places
<1>3. /\ next' \in [Adapters -> Nat] /\ flags' \subseteq Flags
      /\ \A e \in Adapters : currentTime < next'[e]
      /\ \A e \in Adapters : next'[e] = next[e] \/ next'[e] > currentTime
  <2>1. /\ next' \in [Adapters -> Nat] /\ flags' \subseteq Flags
        /\ \A e \in Adapters : next'[e] = next[e] \/ next'[e] > currentTime
    BY <1>0, <1>1, RootCheckLemma
  <2> QED BY <1>2, <2>1
<1>4. /\ getNextTime(next') \in Nat /\ \A e \in Adapters : getNextTime(next') <= next'[e]
      /\ \E e \in Adapters : getNextTime(next') = next'[e]
  BY <1>3, NextTimeLemma
<1>5. /\ nextStopTime' \in Nat /\ currentTime < nextStopTime'
      /\ \A e \in Adapters : nextStopTime' <= next'[e]
  BY <1>0, <1>1, <1>2, <1>3, <1>4, Numbers DEF Earlier
<1>6. TypeOK'
  BY <1>0, <1>1, <1>3, <1>5 DEF TypeOK, PCs
<1>7. NeverPast' /\ OnTime'
  BY <1>1, <1>3, KeepTimes
<1>8. Near' /\ Counters'
  BY <1>0, <1>1 DEF Near, Counters
<1>9. Places'
  BY <1>0, <1>1, <1>2, <1>5, Numbers DEF Places
<1> QED BY <1>6, <1>7, <1>8, <1>9 DEF IInv

\* The same when the start asks for a reset.
LEMMA startupResetStep == IInv /\ startupReset => IInv'
<1> SUFFICES ASSUME IInv, startupReset PROVE IInv'
  OBVIOUS
<1>0. TypeOK /\ Near /\ Places /\ Counters
  BY DEF IInv
<1>1. /\ pc = "startup" /\ pc' = "reset" /\ code' = "STATE_SIZE_CHANGE"
      /\ rootChecks(currentTime)
      /\ UNCHANGED <<pState, currentTime, timeReturn, nextStop, nextStopTime, tstep,
                     smStep, budget, inLoop, ran>>
  BY DEF startupReset, steps
<1>2. currentTime = 0 /\ \A e \in Adapters : currentTime < next[e]
  BY <1>0, <1>1 DEF Places
<1>3. /\ next' \in [Adapters -> Nat] /\ flags' \subseteq Flags
      /\ \A e \in Adapters : currentTime < next'[e]
      /\ \A e \in Adapters : next'[e] = next[e] \/ next'[e] > currentTime
  <2>1. /\ next' \in [Adapters -> Nat] /\ flags' \subseteq Flags
        /\ \A e \in Adapters : next'[e] = next[e] \/ next'[e] > currentTime
    BY <1>0, <1>1, RootCheckLemma
  <2> QED BY <1>2, <2>1
<1>4. TypeOK'
  BY <1>0, <1>1, <1>3 DEF TypeOK, PCs
<1>5. NeverPast' /\ OnTime'
  BY <1>1, <1>3, KeepTimes
<1>6. Near' /\ Counters'
  BY <1>0, <1>1 DEF Near, Counters
<1>7. Places'
  <2>1. tStop \in Nat /\ 0 < tStop
    BY DynamicAssumption
  <2>2. /\ currentTime' = 0 /\ pc' = "reset"
        /\ \A e \in Adapters : currentTime' < next'[e]
    BY <1>1, <1>2, <1>3
  <2>3. currentTime' <= tStop /\ currentTime' < tStop
    BY <2>1, <2>2
  <2> QED BY <2>2, <2>3 DEF Places, Ahead
<1> QED BY <1>4, <1>5, <1>6, <1>7 DEF IInv

\* The run ends, or the reset is done: the times stay.
LEMMA QuietStep ==
    ASSUME IInv, startupFails \/ finish \/ resetDone \/ conditionsFail
    PROVE  IInv'
<1>0. TypeOK /\ NeverPast /\ OnTime /\ Near /\ Places /\ Counters
  BY DEF IInv
<1>1. UNCHANGED <<currentTime, timeReturn, nextStop, nextStopTime, tstep, smStep, next,
                  budget, code, inLoop, ran>>
  BY DEF startupFails, finish, resetDone, conditionsFail, steps, queue
<1>2. \/ pc' \in {"failed", "complete"}
      \/ pc \in {"reset", "probed"} /\ pc' = "conditions"
  BY DEF startupFails, finish, resetDone, conditionsFail
<1>3. pState' \in {"INITIALIZED", "PARTIAL", "COMPLETE"}
  BY <1>0 DEF startupFails, finish, resetDone, conditionsFail, TypeOK
<1>4. flags' \subseteq Flags
  BY <1>0 DEF startupFails, finish, resetDone, conditionsFail, TypeOK, queue
<1>5. TypeOK'
  BY <1>0, <1>1, <1>2, <1>3, <1>4 DEF TypeOK, PCs
<1>6. NeverPast' /\ OnTime' /\ Near'
  BY <1>0, <1>1 DEF NeverPast, OnTime, Near
<1>7. Counters'
  <2>1. pc # "failed"
    BY DEF startupFails, finish, resetDone, conditionsFail
  <2> QED BY <1>0, <1>1, <2>1 DEF Counters
<1>8. Places'
  BY <1>0, <1>1, <1>2 DEF Places, Ahead
<1> QED BY <1>5, <1>6, <1>7, <1>8 DEF IInv

\* The next stop is an adapter's next time or the end of the simulation.
LEMMA StopStep == IInv /\ (skip \/ toStop) => IInv'
<1> SUFFICES ASSUME IInv, skip \/ toStop PROVE IInv'
  OBVIOUS
<1> DEFINE st == Earlier(tStop, nextStopTime)
<1>0. TypeOK /\ NeverPast /\ OnTime /\ Near /\ Places /\ Counters
  BY DEF IInv
<1>1. /\ pc = "outer" /\ nextStop' = st /\ nextStopTime' = tStop
      /\ UNCHANGED <<pState, currentTime, tstep, smStep, next, flags, budget, code, ran>>
  BY DEF skip, toStop, steps, queue
<1>2. /\ currentTime <= tStop /\ currentTime < nextStopTime
      /\ \A e \in Adapters : nextStopTime <= next[e]
  BY <1>0, <1>1 DEF Places
<1>3. /\ st \in 0..tStop /\ currentTime <= st
      /\ \A e \in Adapters : st <= next[e]
  BY <1>0, <1>2, Numbers DEF Earlier
<1> HIDE DEF st
<1>4. \/ /\ st - currentTime < Tol /\ timeReturn' = st /\ pc' = "inner" /\ inLoop' = inLoop
      \/ /\ st - currentTime >= Tol /\ timeReturn' = timeReturn /\ pc' = "solve"
         /\ inLoop' = FALSE
  BY DEF skip, toStop, st
<1>5. inLoop' \in BOOLEAN
  BY <1>0, <1>4 DEF TypeOK
<1>6. timeReturn' \in 0..tStop /\ pc' \in PCs /\ nextStopTime' \in Nat
  BY <1>0, <1>1, <1>3, <1>4, Numbers DEF TypeOK, PCs
<1>7. TypeOK'
  BY <1>0, <1>1, <1>3, <1>5, <1>6 DEF TypeOK
<1>8. NeverPast'
  <2>1. \A e \in Adapters : timeReturn' <= next[e] + Tol
    BY <1>0, <1>3, <1>4, Numbers DEF NeverPast
  <2> QED BY <1>1, <2>1 DEF NeverPast
<1>9. OnTime' /\ Counters'
  BY <1>0, <1>1 DEF OnTime, Counters
<1>10. Near'
  <2>1. currentTime <= timeReturn' + Tol /\ timeReturn' <= currentTime + Tol
    BY <1>0, <1>3, <1>4, Numbers DEF Near
  <2> QED BY <1>1, <2>1 DEF Near
<1>11. Places'
  <2>1. CASE pc' = "inner"
    <3>1. timeReturn' = st
      BY <1>4, <2>1
    <3>2. timeReturn' <= nextStop' /\ \A e \in Adapters : next'[e] >= nextStop'
      BY <1>0, <1>1, <1>3, <3>1, Numbers
    <3> QED BY <2>1, <3>2 DEF Places
  <2>2. CASE pc' = "solve"
    <3>1. currentTime < st /\ timeReturn' <= st
      BY <1>0, <1>3, <1>4, <2>2, Numbers DEF Near
    <3> QED BY <1>1, <1>3, <2>2, <3>1 DEF Places
  <2> QED BY <1>4, <2>1, <2>2
<1> QED BY <1>7, <1>8, <1>9, <1>10, <1>11 DEF IInv

\* The solver stopped before the stop, and no adapter is due before.
LEMMA resumeStep == IInv /\ resume => IInv'
<1> SUFFICES ASSUME IInv, resume PROVE IInv'
  OBVIOUS
<1>0. TypeOK /\ NeverPast /\ OnTime /\ Near /\ Places /\ Counters
  BY DEF IInv
<1>1. /\ pc = "inner" /\ pc' = "reset" /\ code' = "NO_CHANGE" /\ inLoop' = TRUE
      /\ timeReturn + Tol < nextStop
      /\ UNCHANGED <<pState, currentTime, timeReturn, nextStop, nextStopTime, tstep,
                     smStep, next, flags, budget, ran>>
  BY DEF resume, steps, queue
<1>2. /\ \A e \in Adapters : next[e] >= nextStop \/ Ahead(e)
      /\ currentTime <= timeReturn + Tol
  BY <1>0, <1>1 DEF Places, Near
<1>3. currentTime < nextStop /\ currentTime < tStop
      /\ \A e \in Adapters : Ahead(e)
  BY <1>0, <1>1, <1>2, Numbers DEF Ahead
<1>4. inLoop' \in BOOLEAN
  BY <1>1
<1>5. TypeOK'
  BY <1>0, <1>1, <1>4 DEF TypeOK, PCs
<1>6. NeverPast' /\ OnTime' /\ Near' /\ Counters'
  BY <1>0, <1>1 DEF NeverPast, OnTime, Near, Counters
<1>7. Places'
  BY <1>0, <1>1, <1>3, Numbers DEF Places, Ahead
<1> QED BY <1>5, <1>6, <1>7 DEF IInv

\* The solver returns at the stop or between t0 and the stop; what the objects
\* move then they move to after that time.
LEMMA SolverLemma ==
    ASSUME IInv, pc = "solve", NEW t0 \in Nat, NEW ret, NEW t \in 0..tStop,
           runDynamicSolverStep(t0, ret, t), UNCHANGED <<nextStop, ran>>
    PROVE  /\ t \in Nat /\ (t0 <= t \/ t = nextStop) /\ t <= nextStop
           /\ timeReturn' = t
           /\ next' \in [Adapters -> Nat] /\ flags' \subseteq Flags
           /\ budget' \in 0..MaxRoots
           /\ \A e \in Adapters : next'[e] >= nextStop \/ next'[e] > t
           /\ NeverPast' /\ OnTime'
<1>0. TypeOK /\ NeverPast /\ OnTime /\ Near /\ Places
  BY DEF IInv
<1>1. \A e \in Adapters : nextStop <= next[e] /\ next[e] \in Nat
  BY <1>0, Numbers DEF Places
<1>2. t \in Nat /\ nextStop \in Nat /\ Tol \in Nat
  BY <1>0, Numbers
<1>3. timeReturn' = t /\ (t0 <= t \/ t = nextStop) /\ t <= nextStop
  BY <1>2 DEF runDynamicSolverStep
<1>4. budget' \in 0..MaxRoots
  BY <1>0, DynamicAssumption DEF TypeOK, runDynamicSolverStep
<1>5. CASE objectsAct(t)
  <2>1. Move(t) /\ next \in [Adapters -> Nat] /\ flags \subseteq Flags
    BY <1>0, <1>5 DEF objectsAct, TypeOK
  <2>2. /\ next' \in [Adapters -> Nat]
        /\ \A e \in Adapters : next'[e] = next[e] \/ next'[e] > t
    BY <1>2, <2>1, MoveLemma
  <2>3. flags' \subseteq Flags
    BY <1>5, <2>1 DEF objectsAct
  <2>4. \A e \in Adapters : next'[e] >= nextStop \/ next'[e] > t
    BY <1>1, <2>2
  <2>5. \A e \in Adapters : t <= next'[e] + Tol
    BY <1>2, <1>3, <2>2, <2>4
  <2>6. NeverPast' /\ OnTime'
    BY <1>0, <1>3, <2>5 DEF NeverPast, OnTime
  <2> QED BY <1>2, <1>3, <1>4, <2>2, <2>3, <2>4, <2>6
<1>6. CASE Quiet
  <2>1. next' = next /\ flags' = flags
    BY <1>6 DEF Quiet
  <2>2. \A e \in Adapters : t <= next[e] + Tol
    BY <1>1, <1>2, <1>3
  <2>3. NeverPast' /\ OnTime'
    BY <1>0, <1>3, <2>1, <2>2 DEF NeverPast, OnTime
  <2> QED BY <1>0, <1>1, <1>2, <1>3, <1>4, <2>1, <2>3 DEF TypeOK
<1> QED BY <1>5, <1>6 DEF runDynamicSolverStep

\* The first call of the solver for a stop.
LEMMA solveStep ==
    ASSUME IInv, NEW ret, NEW t \in 0..tStop, solve(ret, t)
    PROVE  IInv'
<1>0. TypeOK /\ Near /\ Places /\ Counters
  BY DEF IInv
<1>1. /\ pc = "solve" /\ ~inLoop
      /\ runDynamicSolverStep(timeReturn, ret, t) /\ currentTime' = t
      /\ \/ pc' = "failed" /\ pState' = "PARTIAL"
         \/ pc' = "inner" /\ pState' = pState
      /\ UNCHANGED <<nextStop, nextStopTime, tstep, smStep, code, inLoop, ran>>
  BY DEF solve, steps
<1>2. timeReturn \in Nat
  BY <1>0, Numbers
<1>3. /\ t \in Nat /\ t <= nextStop /\ timeReturn' = t
      /\ next' \in [Adapters -> Nat] /\ flags' \subseteq Flags
      /\ budget' \in 0..MaxRoots
      /\ \A e \in Adapters : next'[e] >= nextStop \/ next'[e] > t
      /\ NeverPast' /\ OnTime'
  BY <1>1, <1>2, SolverLemma
<1>4. t \in 0..(tStop + Tol)
  BY <1>0, Numbers
<1>5. TypeOK'
  BY <1>0, <1>1, <1>3, <1>4 DEF TypeOK, PCs
<1>6. Near' /\ Counters'
  BY <1>0, <1>1, <1>3, Numbers DEF Near, Counters
<1>7. Places'
  BY <1>1, <1>3 DEF Places, Ahead
<1> QED BY <1>3, <1>5, <1>6, <1>7 DEF IInv

\* The solver in the inner loop; a step without progress pushes the clock.
LEMMA solveAgainStep ==
    ASSUME IInv, NEW ret, NEW t \in 0..tStop, solveAgain(ret, t)
    PROVE  IInv' /\ currentTime' >= currentTime - Tol
<1>0. TypeOK /\ Near /\ Places /\ Counters
  BY DEF IInv
<1>1. /\ pc = "solve" /\ inLoop
      /\ runDynamicSolverStep(currentTime, ret, t) /\ progress(ret, t)
      /\ UNCHANGED <<nextStop, nextStopTime, code, inLoop, ran>>
  BY DEF solveAgain
<1>2. currentTime \in Nat /\ currentTime < nextStop + Tol
  BY <1>0, <1>1, Numbers DEF Places
<1>3. /\ t \in Nat /\ (currentTime <= t \/ t = nextStop) /\ t <= nextStop
      /\ timeReturn' = t
      /\ next' \in [Adapters -> Nat] /\ flags' \subseteq Flags
      /\ budget' \in 0..MaxRoots
      /\ \A e \in Adapters : next'[e] >= nextStop \/ next'[e] > t
      /\ NeverPast' /\ OnTime'
  BY <1>1, <1>2, SolverLemma
<1>4. tstep \in 0..1 /\ smStep \in 0..MaxSmall
  BY <1>0, <1>1, Numbers DEF Counters
<1>5. /\ pc' \in {"inner", "failed"} /\ pState' \in {pState, "PARTIAL"}
      /\ currentTime' = t \/ (currentTime' = t + Tol /\ tstep' = 1)
      /\ tstep' \in 0..2 /\ smStep' \in 0..(MaxSmall + 1)
      /\ pc' = "inner" => tstep' <= 1 /\ smStep' <= MaxSmall
  <2>1. CASE ret = "ROOT_FOUND"
    BY <1>0, <1>1, <1>4, <2>1, Numbers DEF progress, steps
  <2>2. CASE ret # "ROOT_FOUND" /\ t < currentTime + Tol
    BY <1>0, <1>1, <1>4, <2>2, Numbers DEF progress, steps
  <2>3. CASE ret # "ROOT_FOUND" /\ t >= currentTime + Tol /\ t < currentTime + Small
    BY <1>0, <1>1, <1>4, <2>3, Numbers DEF progress, steps
  <2>4. CASE ret # "ROOT_FOUND" /\ t >= currentTime + Small
    BY <1>0, <1>1, <1>4, <2>4, Numbers DEF progress, steps
  <2> QED BY <1>0, <1>2, <1>3, <2>1, <2>2, <2>3, <2>4, Numbers
<1>6. currentTime' \in 0..(tStop + Tol) /\ currentTime' >= currentTime - Tol
  BY <1>0, <1>2, <1>3, <1>5, Numbers
<1>7. TypeOK'
  BY <1>0, <1>1, <1>3, <1>5, <1>6 DEF TypeOK, PCs
<1>8. Near' /\ Counters'
  BY <1>0, <1>3, <1>5, Numbers DEF Near, Counters
<1>9. Places'
  <2>1. ASSUME NEW e \in Adapters
        PROVE  next'[e] >= nextStop \/ (next'[e] > timeReturn' /\ Ahead(e)')
    <3>1. next'[e] >= nextStop \/ next'[e] > t
      BY <1>3
    <3>2. next'[e] \in Nat /\ Tol \in Nat /\ t \in Nat
      BY <1>0, <1>3, Numbers
    <3>3. timeReturn' = t /\ inLoop'
      BY <1>1, <1>3
    <3> QED BY <1>5, <3>1, <3>2, <3>3 DEF Ahead
  <2> QED BY <1>1, <1>3, <1>5, <2>1 DEF Places
<1> QED BY <1>3, <1>6, <1>7, <1>8, <1>9 DEF IInv

\* The stop is reached, and the adapters that are due run.
LEMMA stopStep ==
    ASSUME IInv, NEW changing, NEW fl \in SUBSET Flags, stop(changing, fl)
    PROVE  IInv' /\ currentTime' >= currentTime - Tol
<1>0. TypeOK /\ NeverPast /\ Near /\ Places /\ Counters
  BY DEF IInv
<1>n. /\ currentTime \in Nat /\ timeReturn \in Nat /\ nextStop \in Nat /\ tStop \in Nat
      /\ Tol \in Nat \ {0} /\ Probe \in Nat /\ Inf \in Nat
      /\ Inf > tStop + Tol + Probe /\ nextStop <= tStop
      /\ \A e \in Adapters : next[e] \in Nat
  BY <1>0, Numbers
<1>1. /\ pc = "inner" /\ timeReturn + Tol >= nextStop /\ currentTime' = nextStop
      /\ executeEvents(nextStop, nextStop, changing, fl)
      /\ UNCHANGED <<pState, timeReturn, nextStop, tstep, smStep>>
  BY DEF stop, steps
<1>2. /\ next' \in [Adapters -> Nat] /\ flags' \subseteq Flags /\ budget' = budget
      /\ \A e \in Adapters :
            \/ next[e] > nextStop + Tol /\ next'[e] = next[e]
            \/ next[e] <= nextStop + Tol
               /\ (next'[e] > next[e] + Tol \/ next'[e] = Inf)
      /\ \A x \in ran' : \E e \in Adapters :
            next[e] <= nextStop + Tol /\ x = [due |-> next[e], at |-> nextStop]
  BY <1>0, <1>1, <1>n, ExecuteLemma
<1>3. /\ timeReturn <= nextStop
      /\ \A e \in Adapters : next[e] >= nextStop \/ next[e] > timeReturn
  BY <1>0, <1>1 DEF Places
<1>4. \A e \in Adapters : nextStop <= next[e] + Tol
  BY <1>1, <1>3, <1>n
<1>5. \A e \in Adapters : next'[e] > nextStop /\ next'[e] \in Nat
  BY <1>2, <1>4, <1>n
<1>6. /\ getNextTime(next') \in Nat /\ \A e \in Adapters : getNextTime(next') <= next'[e]
      /\ \E e \in Adapters : getNextTime(next') = next'[e]
  BY <1>2, NextTimeLemma
<1>7. \/ /\ pc' = "outer" /\ nextStopTime' = getNextTime(next')
         /\ UNCHANGED <<inLoop, code>>
      \/ /\ pc' = "reset" /\ code' \in {"PARAMETER_CHANGE", "STATE_SIZE_CHANGE"}
         /\ inLoop' = FALSE /\ nextStopTime' = nextStopTime
  <2>1. Returns(changing, fl) \in {"NO_CHANGE", "PARAMETER_CHANGE", "STATE_SIZE_CHANGE"}
    BY DEF Returns
  <2> QED BY <2>1 DEF stop
<1>8. OnTime' /\ \A x \in ran' : x.due \in Nat /\ x.at \in 0..tStop
  <2> SUFFICES ASSUME NEW x \in ran'
               PROVE  /\ x.due \in Nat /\ x.at \in 0..tStop
                      /\ x.at <= x.due + Tol /\ x.due <= x.at + Probe + Tol
    BY DEF OnTime
  <2>1. PICK e \in Adapters :
            next[e] <= nextStop + Tol /\ x = [due |-> next[e], at |-> nextStop]
    BY <1>2
  <2>2. x.due = next[e] /\ x.at = nextStop
    BY <2>1
  <2>3. nextStop <= next[e] + Tol /\ next[e] <= nextStop + Probe + Tol
    BY <1>4, <1>n, <2>1
  <2> QED BY <1>n, <2>2, <2>3
<1>9. inLoop' \in BOOLEAN
  BY <1>0, <1>7 DEF TypeOK
<1>10. /\ pc' \in PCs /\ nextStopTime' \in Nat
       /\ code' \in {"NO_CHANGE", "PARAMETER_CHANGE", "STATE_SIZE_CHANGE"}
  BY <1>0, <1>6, <1>7 DEF TypeOK, PCs
<1>11. currentTime' \in 0..(tStop + Tol) /\ currentTime' >= currentTime - Tol
  BY <1>0, <1>1, <1>3, <1>n DEF Near
<1>12. TypeOK'
  BY <1>0, <1>1, <1>2, <1>8, <1>9, <1>10, <1>11 DEF TypeOK
<1>13. NeverPast'
  <2>1. \A e \in Adapters : timeReturn <= next'[e] + Tol
    BY <1>3, <1>5, <1>n
  <2> QED BY <1>1, <2>1 DEF NeverPast
<1>14. Near' /\ Counters'
  BY <1>0, <1>1, <1>3, <1>n DEF Near, Counters
<1>15. Places'
  <2>1. CASE pc' = "outer"
    <3>1. nextStop < getNextTime(next')
      BY <1>5, <1>6
    <3> QED BY <1>1, <1>6, <1>7, <1>n, <2>1, <3>1 DEF Places
  <2>2. CASE pc' = "reset"
    <3>1. inLoop' = FALSE
      BY <1>7, <2>2
    <3> QED BY <1>1, <1>5, <1>n, <2>2, <3>1 DEF Places, Ahead
  <2> QED BY <1>7, <2>1, <2>2
<1> QED BY <1>8, <1>11, <1>12, <1>13, <1>14, <1>15 DEF IInv

\* The adapters that come soon run before the reset.
LEMMA resetProbesStep ==
    ASSUME IInv, NEW changing, NEW fl \in SUBSET Flags, resetProbes(changing, fl)
    PROVE  IInv'
<1>0. TypeOK /\ NeverPast /\ Near /\ Places /\ Counters
  BY DEF IInv
<1>n. /\ currentTime \in Nat /\ timeReturn \in Nat /\ tStop \in Nat
      /\ Tol \in Nat \ {0} /\ Probe \in Nat /\ Inf \in Nat
      /\ Inf > tStop + Tol + Probe /\ \A e \in Adapters : next[e] \in Nat
  BY <1>0, Numbers
<1>1. /\ pc = "reset" /\ pc' \in {"reset", "probed"}
      /\ executeEvents(currentTime + Probe, currentTime, changing, fl)
      /\ UNCHANGED <<pState, currentTime, timeReturn, nextStop, nextStopTime, tstep,
                     smStep, code, inLoop>>
  BY DEF resetProbes, steps
<1>2. currentTime + Probe \in Nat
  BY <1>n
<1>3. /\ next' \in [Adapters -> Nat] /\ flags' \subseteq Flags /\ budget' = budget
      /\ \A e \in Adapters :
            \/ next'[e] = next[e]
            \/ next'[e] > next[e] + Tol \/ next'[e] = Inf
      /\ \A x \in ran' : \E e \in Adapters :
            /\ next[e] <= currentTime + Probe + Tol
            /\ x = [due |-> next[e], at |-> currentTime]
  BY <1>0, <1>1, <1>2, <1>n, ExecuteLemma
<1>4. /\ currentTime <= tStop /\ (inLoop => currentTime < tStop)
      /\ \A e \in Adapters : Ahead(e)
  BY <1>0, <1>1 DEF Places
<1>5. \A e \in Adapters : Ahead(e)' /\ next'[e] \in Nat
  BY <1>1, <1>3, <1>4, <1>n DEF Ahead
<1>6. OnTime' /\ \A x \in ran' : x.due \in Nat /\ x.at \in 0..tStop
  <2> SUFFICES ASSUME NEW x \in ran'
               PROVE  /\ x.due \in Nat /\ x.at \in 0..tStop
                      /\ x.at <= x.due + Tol /\ x.due <= x.at + Probe + Tol
    BY DEF OnTime
  <2>1. PICK e \in Adapters : /\ next[e] <= currentTime + Probe + Tol
                              /\ x = [due |-> next[e], at |-> currentTime]
    BY <1>3
  <2>2. x.due = next[e] /\ x.at = currentTime
    BY <2>1
  <2>3. currentTime <= next[e] + Tol
    BY <1>4, <1>n DEF Ahead
  <2> QED BY <1>4, <1>n, <2>1, <2>2, <2>3
<1>7. TypeOK'
  BY <1>0, <1>1, <1>3, <1>6 DEF TypeOK, PCs
<1>8. NeverPast'
  <2>1. timeReturn <= tStop
    BY <1>0, Numbers
  <2>2. ASSUME NEW e \in Adapters PROVE timeReturn <= next'[e] + Tol
    <3>1. timeReturn <= next[e] + Tol /\ next[e] \in Nat /\ next'[e] \in Nat
      BY <1>0, <1>3, <1>n DEF NeverPast
    <3>2. next'[e] = next[e] \/ next'[e] > next[e] + Tol \/ next'[e] = Inf
      BY <1>3
    <3> QED BY <1>n, <2>1, <3>1, <3>2
  <2> QED BY <1>1, <2>2 DEF NeverPast
<1>9. Near' /\ Counters'
  BY <1>0, <1>1 DEF Near, Counters
<1>10. Places'
  BY <1>1, <1>4, <1>5 DEF Places
<1> QED BY <1>6, <1>7, <1>8, <1>9, <1>10 DEF IInv

\* The objects act in the root check; the stop is then looked at again.
LEMMA conditionsStep == IInv /\ (conditionsReset \/ conditions) => IInv'
<1> SUFFICES ASSUME IInv, conditionsReset \/ conditions PROVE IInv'
  OBVIOUS
<1>0. TypeOK /\ Near /\ Places /\ Counters
  BY DEF IInv
<1>1. /\ pc = "conditions" /\ rootChecks(currentTime)
      /\ UNCHANGED <<pState, currentTime, timeReturn, tstep, smStep, inLoop, ran>>
  BY DEF conditionsReset, conditions, steps
<1>2. /\ currentTime <= tStop /\ (inLoop => currentTime < tStop)
      /\ \A e \in Adapters : Ahead(e)
  BY <1>0, <1>1 DEF Places
<1>3. /\ next' \in [Adapters -> Nat] /\ flags' \subseteq Flags
      /\ \A e \in Adapters : next'[e] = next[e] \/ next'[e] > currentTime
  BY <1>0, <1>1, RootCheckLemma
<1>8. \A e \in Adapters : Ahead(e)'
  BY <1>1, <1>2, <1>3 DEF Ahead
<1>4. NeverPast' /\ OnTime'
  BY <1>1, <1>3, KeepTimes
<1>5. Near'
  BY <1>0, <1>1 DEF Near
<1>6. CASE conditionsReset
  <2>1. /\ pc' = "reset" /\ code' = "STATE_SIZE_CHANGE" /\ budget > 0
        /\ budget' = budget - 1 /\ UNCHANGED <<nextStop, nextStopTime>>
    BY <1>6 DEF conditionsReset
  <2>2. budget' \in 0..MaxRoots
    BY <1>0, <2>1, DynamicAssumption DEF TypeOK
  <2>3. TypeOK'
    BY <1>0, <1>1, <1>3, <2>1, <2>2 DEF TypeOK, PCs
  <2>4. Places' /\ Counters'
    BY <1>0, <1>1, <1>2, <1>8, <2>1 DEF Places, Counters
  <2> QED BY <1>4, <1>5, <2>3, <2>4 DEF IInv
<1>7. CASE conditions
  <2>1. /\ getNextTime(next') \in Nat
        /\ \A e \in Adapters : getNextTime(next') <= next'[e]
        /\ \E e \in Adapters : getNextTime(next') = next'[e]
    BY <1>3, NextTimeLemma
  <2>9. \/ currentTime < getNextTime(next')
        \/ inLoop /\ tstep = 1 /\ currentTime < getNextTime(next') + Tol
    BY <1>1, <1>8, <2>1 DEF Ahead
  <2> DEFINE st == Earlier(tStop, getNextTime(next'))
  <2>2. \/ inLoop /\ pc' = "solve" /\ nextStop' = st /\ nextStopTime' = nextStopTime
        \/ /\ ~inLoop /\ pc' = "outer" /\ nextStopTime' = getNextTime(next')
           /\ nextStop' = nextStop
    BY <1>7 DEF conditions
  <2>3. budget' = budget /\ code' = code
    BY <1>7 DEF conditions
  <2>4. /\ st \in 0..tStop
        /\ inLoop => currentTime < st \/ (tstep = 1 /\ currentTime < st + Tol)
        /\ \A e \in Adapters : st <= next'[e]
    BY <1>0, <1>2, <1>3, <2>1, <2>9, Numbers DEF Earlier
  <2> HIDE DEF st
  <2>5. pc' \in PCs /\ nextStop' \in 0..tStop /\ nextStopTime' \in Nat
    BY <1>0, <2>1, <2>2, <2>4 DEF TypeOK, PCs
  <2>6. TypeOK'
    BY <1>0, <1>1, <1>3, <2>3, <2>5 DEF TypeOK
  <2>7. Places'
    BY <1>1, <1>2, <2>1, <2>2, <2>4, <2>9 DEF Places
  <2>8. Counters'
    BY <1>0, <1>1, <2>2 DEF Counters
  <2> QED BY <1>4, <1>5, <2>6, <2>7, <2>8 DEF IInv
<1> QED BY <1>6, <1>7

\* IInv is inductive: one case for each action.
LEMMA InvStep == IInv /\ [Next]_vars => IInv'
<1> SUFFICES ASSUME IInv, [Next]_vars PROVE IInv'
  OBVIOUS
<1>1. CASE UNCHANGED vars
  BY <1>1 DEF vars, queue, steps, IInv, TypeOK, NeverPast, OnTime, Near, Places, Ahead,
             Counters
<1>2. ASSUME NEW ret \in Results, NEW t \in 0..tStop, solve(ret, t) \/ solveAgain(ret, t)
      PROVE  IInv'
  BY <1>2, solveStep, solveAgainStep
<1>3. ASSUME NEW changing \in SUBSET Adapters, NEW fl \in SUBSET Flags,
             stop(changing, fl) \/ resetProbes(changing, fl)
      PROVE  IInv'
  BY <1>3, stopStep, resetProbesStep
<1>4. CASE startup \/ startupReset
  BY <1>4, startupStep, startupResetStep
<1>5. CASE startupFails \/ finish \/ resetDone \/ conditionsFail
  BY <1>5, QuietStep
<1>6. CASE skip \/ toStop
  BY <1>6, StopStep
<1>7. CASE resume
  BY <1>7, resumeStep
<1>8. CASE conditionsReset \/ conditions
  BY <1>8, conditionsStep
<1> QED BY <1>1, <1>2, <1>3, <1>4, <1>5, <1>6, <1>7, <1>8 DEF Next

-----------------------------------------------------------------------------
(* The theorems                                                            *)

\* The loop keeps its invariant, for any adapters, tolerances and roots.
THEOREM Inductive == Spec => []IInv
BY InvInit, InvStep, PTL DEF Spec

\* The variables of dynamicDAE keep their types: the stop never passes tStop,
\* and the counters of small steps never pass their limits by more than one.
THEOREM TypeCorrect == Spec => []TypeOK
<1>1. IInv => TypeOK
  BY DEF IInv
<1> QED BY <1>1, Inductive, PTL

\* The solver is never taken past an event, however the objects move their
\* updates at roots and in root checks.
THEOREM NoEventPassed == Spec => []NeverPast
<1>1. IInv => NeverPast
  BY DEF IInv
<1> QED BY <1>1, Inductive, PTL

\* Whenever the solver is called its stop lies ahead of the clock, up to the
\* tolerance by which the clock was pushed after a step without progress.
THEOREM StopAhead == Spec => []StepsForward
<1>1. IInv => StepsForward
  BY DEF IInv, Places, StepsForward
<1> QED BY <1>1, Inductive, PTL

\* Every adapter runs within the tolerance after its time, and at most the
\* probe of a reset before it.
THEOREM Punctual == Spec => []OnTime
<1>1. IInv => OnTime
  BY DEF IInv
<1> QED BY <1>1, Inductive, PTL

\* The clock of the simulation never goes back by more than the tolerance.
THEOREM ForwardClock == Spec => ClockForward
<1>1. IInv /\ [Next]_vars => [currentTime' >= currentTime - Tol]_vars
  <2> SUFFICES ASSUME IInv, Next PROVE currentTime' >= currentTime - Tol
    OBVIOUS
  <2>0. TypeOK /\ Near
    BY DEF IInv
  <2>n. currentTime \in Nat /\ timeReturn \in Nat /\ Tol \in Nat
    BY <2>0, Numbers
  <2>1. ASSUME currentTime' = currentTime PROVE currentTime' >= currentTime - Tol
    BY <2>1, <2>n
  <2>2. ASSUME NEW ret \in Results, NEW t \in 0..tStop, solve(ret, t)
        PROVE  currentTime' >= currentTime - Tol
    <3>1. /\ pc = "solve" /\ ~inLoop /\ currentTime' = t
          /\ runDynamicSolverStep(timeReturn, ret, t) /\ UNCHANGED <<nextStop, ran>>
      BY <2>2 DEF solve
    <3>2. timeReturn <= nextStop
      BY <3>1 DEF IInv, Places
    <3>3. timeReturn <= t /\ t \in Nat
      BY <2>n, <3>1, <3>2, SolverLemma DEF IInv, TypeOK
    <3> QED BY <2>0, <2>n, <3>1, <3>3 DEF Near
  <2>3. ASSUME NEW ret \in Results, NEW t \in 0..tStop, solveAgain(ret, t)
        PROVE  currentTime' >= currentTime - Tol
    BY <2>3, solveAgainStep
  <2>4. ASSUME NEW changing \in SUBSET Adapters, NEW fl \in SUBSET Flags,
               stop(changing, fl)
        PROVE  currentTime' >= currentTime - Tol
    BY <2>4, stopStep
  <2>5. ASSUME NEW changing, NEW fl, resetProbes(changing, fl)
        PROVE  currentTime' = currentTime
    BY <2>5 DEF resetProbes
  <2>6. ASSUME \/ startup \/ startupReset \/ startupFails
               \/ finish \/ skip \/ toStop \/ resume
               \/ resetDone \/ conditionsReset \/ conditions \/ conditionsFail
        PROVE  currentTime' = currentTime
    BY <2>6 DEF startup, startupReset, startupFails, finish, skip, toStop, resume, resetDone,
                conditionsReset, conditions, conditionsFail
  <2> QED BY <2>1, <2>2, <2>3, <2>4, <2>5, <2>6 DEF Next
<1> QED BY <1>1, Inductive, PTL DEF Spec, ClockForward
=============================================================================
