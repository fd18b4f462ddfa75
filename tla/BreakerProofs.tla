--------------------------- MODULE BreakerProofs ---------------------------
(***************************************************************************)
(* Proofs about module Breaker, for every set of breakers, every horizon   *)
(* and every order of faults, solver stops and polls.                      *)
(*                                                                         *)
(* The inductive invariant IInv says in which of its states a breaker can  *)
(* be (Watch), that the count of attempts bounds the recloses (Counts),    *)
(* that an open breaker with an attempt left knows when to reclose (Waits) *)
(* and that a closed one with a clearing time knows when it ends (Clears). *)
(* A handler leaves a breaker that is in such a state either alone or      *)
(* takes it to another such state by staying closed, tripping or reclosing *)
(* (Step); one lemma says so for every handler, and StepPreserves carries  *)
(* it over to the invariant.                                               *)
(***************************************************************************)
EXTENDS Breaker, TLAPS

\* The breaker trips at once or by the inverse-time curve.
Prompt == design.tap \/ design.clearing = 0

\* The states of an enabled breaker
Watch(b) ==
    /\ b.tripped <=> ~b.closed
    /\ b.tripped => b.overLimit
    /\ b.cStates[0] = "ACTIVE" => b.closed /\ ~b.overLimit
    /\ b.cStates[1] = "ACTIVE" => b.cti <= 0
    /\ b.cStates[2] = "ACTIVE" => b.cti >= 0
    /\ b.useCti => /\ b.closed /\ b.overLimit /\ design.tap /\ b.cti = 0
                   /\ b.cStates[1] = "ACTIVE" /\ b.cStates[2] = "ACTIVE"
    /\ b.closed => \/ b.cStates[0] = "ACTIVE"
                   \/ b.useCti
                   \/ ~Prompt /\ b.overLimit /\ b.nextUpdateTime < Inf
    /\ Prompt /\ b.closed => b.nextUpdateTime = Inf
    /\ Prompt /\ b.tripped /\ b.nextUpdateTime < Inf => b.attempts < design.attempts

\* a: when the breaker tripped
Waits(b, a) ==
    b.tripped /\ b.attempts < design.attempts =>
        b.nextUpdateTime = a + (IF b.attempts = 0 THEN design.reclose1
                                ELSE design.reclose2)

\* a: when the current was found over the limit
Clears(b, a) == ~Prompt /\ Found(b) => b.nextUpdateTime = a + design.clearing

\* n: how often it has reclosed
Counts(b, n) ==
    Prompt => n <= b.attempts /\ b.attempts <= design.attempts

IInv ==
    /\ TypeOK
    /\ breaker.asserted
    /\ breaker.enabled => /\ Watch(breaker) /\ Waits(breaker, trippedAt)
                          /\ Clears(breaker, foundAt)
    /\ Counts(breaker, recloses)

\* With a clearing time the breaker opens only at its end, and the time is set
\* when the current is found over the limit.
Clearing(b, r, t) ==
    ~Prompt => /\ b.closed /\ ~r.closed => b.overLimit /\ b.nextUpdateTime <= t
               /\ Found(r) => /\ ~Found(b)
                              /\ r.nextUpdateTime = t + design.clearing

\* The breaker goes from state b to another state r at time t.
Moves(b, r, t) ==
    /\ r \in BreakerState /\ r.enabled /\ r.asserted /\ Watch(r) /\ Waits(r, t)
    /\ Clearing(b, r, t)
    /\ \/ ~b.tripped /\ ~r.tripped /\ r.attempts = b.attempts
       \/ /\ ~b.tripped /\ r.tripped /\ r.attempts = counted(b, t)
          /\ r.lastReclose = b.lastReclose
       \/ /\ b.tripped /\ r.attempts = b.attempts + 1
          /\ b.nextUpdateTime <= t

Step(b, r, t) == r = b \/ Moves(b, r, t)

\* What the lemmas about the handlers start from
Ready(b, t) ==
    /\ design \in Designs /\ t \in 0..Horizon
    /\ b \in BreakerState /\ b.enabled /\ b.asserted /\ Watch(b)

-----------------------------------------------------------------------------
(* What the assumption says about the breaker at hand                      *)

LEMMA DesignFacts ==
    ASSUME design \in Designs, NEW t \in 0..Horizon
    PROVE  /\ design.clearing \in Nat /\ design.reclose1 \in Nat
           /\ design.reclose2 \in Nat /\ design.attempts \in Nat
           /\ design.reset \in Nat /\ design.tap \in BOOLEAN
           /\ Inf \in Nat /\ t \in Nat /\ t < Inf
           /\ t + design.clearing < Inf
           /\ t + design.reclose1 < Inf
           /\ t + design.reclose2 < Inf
<1>1. design \in Design
  BY BreakerAssumption
<1>2. /\ design.clearing \in Nat /\ design.reclose1 \in Nat
      /\ design.reclose2 \in Nat /\ design.attempts \in Nat
      /\ design.reset \in Nat /\ design.tap \in BOOLEAN
  BY <1>1 DEF Design
<1>3. /\ Inf > Horizon + design.clearing
      /\ Inf > Horizon + design.reclose1
      /\ Inf > Horizon + design.reclose2
  BY BreakerAssumption
<1> QED
  BY <1>2, <1>3, BreakerAssumption

\* A trip opens the switch and asks for a reclose if an attempt is left.
LEMMA TripFacts ==
    ASSUME design \in Designs, NEW b \in BreakerState, NEW t \in 0..Horizon
    PROVE  LET r == tripBreaker(b, t)
           IN  /\ r \in BreakerState
               /\ r.tripped /\ ~r.closed /\ ~r.useCti
               /\ r.cStates = b.cStates /\ r.overLimit = b.overLimit
               /\ r.cti = b.cti /\ r.asserted = b.asserted
               /\ r.enabled = b.enabled /\ r.lastReclose = b.lastReclose
               /\ r.attempts = counted(b, t)
               /\ r.attempts >= design.attempts =>
                    r.nextUpdateTime = b.nextUpdateTime
               /\ Waits(r, t)
<1> DEFINE n == counted(b, t)
<1>1. /\ design.reclose1 \in Nat /\ design.reclose2 \in Nat
      /\ design.attempts \in Nat /\ design.reset \in Nat
      /\ t + design.reclose1 \in 0..Inf /\ t + design.reclose2 \in 0..Inf
  BY DesignFacts
<1>2. n \in Nat
  BY <1>1 DEF counted, BreakerState
<1> HIDE DEF n
<1>3. tripBreaker(b, t) =
        [b EXCEPT !.closed = FALSE, !.tripped = TRUE, !.useCti = FALSE,
                  !.attempts = n,
                  !.nextUpdateTime = IF n >= design.attempts THEN @
                                     ELSE IF n = 0 THEN t + design.reclose1
                                     ELSE t + design.reclose2]
  BY DEF tripBreaker, n
<1>4. tripBreaker(b, t) \in BreakerState
  BY <1>1, <1>2, <1>3 DEF BreakerState
<1> QED
  BY <1>1, <1>2, <1>3, <1>4 DEF BreakerState, Waits, n

\* A breaker that may trip: the current has been over the limit.
Opening(b) ==
    /\ b.overLimit /\ b.cStates[0] # "ACTIVE"
    /\ b.cStates[1] = "ACTIVE" => b.cti <= 0
    /\ b.cStates[2] = "ACTIVE" => b.cti >= 0
    /\ Prompt => b.nextUpdateTime = Inf

LEMMA TripWatch ==
    ASSUME design \in Designs, NEW b \in BreakerState, NEW t \in 0..Horizon,
           Opening(b)
    PROVE  Watch(tripBreaker(b, t))
<1> DEFINE r == tripBreaker(b, t)
<1>1. /\ r.tripped /\ ~r.closed /\ ~r.useCti
      /\ r.cStates = b.cStates /\ r.overLimit = b.overLimit /\ r.cti = b.cti
      /\ r.attempts >= design.attempts => r.nextUpdateTime = b.nextUpdateTime
      /\ r \in BreakerState
  BY TripFacts
<1>2. r.attempts \in Nat /\ design.attempts \in Nat /\ Inf \in Nat
  BY <1>1, DesignFacts DEF BreakerState
<1> HIDE DEF r
<1>3. Watch(r)
  BY <1>1, <1>2 DEF Watch, Opening
<1> QED
  BY <1>3 DEF r

\* The inverse-time curve starts.
LEMMA CtiFacts ==
    ASSUME NEW b \in BreakerState
    PROVE  LET r == startCti(b)
           IN  /\ r \in BreakerState /\ r.cti = 0 /\ r.useCti
               /\ r.cStates[0] = b.cStates[0]
               /\ r.cStates[1] = "ACTIVE" /\ r.cStates[2] = "ACTIVE"
               /\ r.tripped = b.tripped /\ r.closed = b.closed
               /\ r.overLimit = b.overLimit /\ r.asserted = b.asserted
               /\ r.enabled = b.enabled /\ r.attempts = b.attempts
               /\ r.lastReclose = b.lastReclose
               /\ r.nextUpdateTime = b.nextUpdateTime
<1> DEFINE cs == [b.cStates EXCEPT ![1] = "ACTIVE", ![2] = "ACTIVE"]
<1>1. b.cStates \in CStates
  BY DEF BreakerState
<1>2. /\ cs \in CStates
      /\ cs[0] = b.cStates[0] /\ cs[1] = "ACTIVE" /\ cs[2] = "ACTIVE"
  BY <1>1 DEF Conditions, CStates
<1> HIDE DEF cs
<1>3. startCti(b) = [b EXCEPT !.cti = 0, !.useCti = TRUE, !.cStates = cs]
  BY DEF startCti, cs
<1> DEFINE r == startCti(b)
<1> HIDE DEF r
<1>4. r = [b EXCEPT !.cti = 0, !.useCti = TRUE, !.cStates = cs]
  BY <1>3 DEF r
<1>5. r \in BreakerState
  <2>1. cs \in CStates /\ 0 \in -1..1
    BY <1>2
  <2> QED
    BY <1>4, <2>1 DEF BreakerState
<1>6. r.cStates = cs /\ r.cti = 0 /\ r.useCti
  BY <1>4 DEF BreakerState
<1>7. /\ r.tripped = b.tripped /\ r.closed = b.closed
      /\ r.overLimit = b.overLimit /\ r.asserted = b.asserted
      /\ r.enabled = b.enabled /\ r.attempts = b.attempts
      /\ r.lastReclose = b.lastReclose
      /\ r.nextUpdateTime = b.nextUpdateTime
  BY <1>4 DEF BreakerState
<1> QED
  BY <1>2, <1>5, <1>6, <1>7 DEF r

-----------------------------------------------------------------------------
(* The handlers                                                            *)

\* Condition 0 is triggered.
LEMMA OverLimitStep ==
    ASSUME NEW b, NEW t, Ready(b, t), b.cStates[0] = "ACTIVE"
    PROVE  Moves(b, overLimit(b, t), t)
<1> DEFINE cs == [b.cStates EXCEPT ![0] = "DISABLED"]
           r == [b EXCEPT !.overLimit = TRUE, !.cStates = cs]
<1>1. /\ design \in Designs /\ t \in 0..Horizon /\ b \in BreakerState
      /\ Watch(b) /\ b.enabled /\ b.asserted
      /\ b.closed /\ ~b.tripped /\ ~b.useCti
  BY DEF Ready, Watch
<1>2. /\ Inf \in Nat /\ t + design.clearing \in 0..Inf
      /\ t + design.clearing < Inf /\ design.clearing \in Nat
      /\ design.tap \in BOOLEAN
  BY <1>1, DesignFacts
<1>3. /\ cs \in CStates /\ cs[0] = "DISABLED"
      /\ cs[1] = b.cStates[1] /\ cs[2] = b.cStates[2]
  <2>1. b.cStates \in CStates
    BY <1>1 DEF BreakerState
  <2> QED
    BY <2>1 DEF CStates, Conditions
<1>4. /\ r \in BreakerState /\ r.overLimit
      /\ r.cStates[0] = "DISABLED"
      /\ r.cStates[1] = b.cStates[1] /\ r.cStates[2] = b.cStates[2]
      /\ r.cti = b.cti /\ r.useCti = b.useCti /\ r.closed = b.closed
      /\ r.tripped = b.tripped /\ r.asserted = b.asserted
      /\ r.enabled = b.enabled /\ r.attempts = b.attempts
      /\ r.lastReclose = b.lastReclose
      /\ r.nextUpdateTime = b.nextUpdateTime
  <2> HIDE DEF cs
  <2>1. r \in BreakerState /\ r.cStates = cs
    BY <1>1, <1>3 DEF BreakerState
  <2> QED
    BY <1>1, <1>3, <2>1 DEF BreakerState
<1>5. overLimit(b, t) = IF design.tap THEN startCti(r)
                        ELSE IF design.clearing = 0 THEN tripBreaker(r, t)
                        ELSE [r EXCEPT !.nextUpdateTime = t + design.clearing]
  BY DEF overLimit
<1> HIDE DEF r
<1>6. CASE design.tap
  <2> DEFINE s == startCti(r)
  <2>1. /\ s \in BreakerState /\ s.cti = 0 /\ s.useCti
        /\ s.cStates[0] = r.cStates[0]
        /\ s.cStates[1] = "ACTIVE" /\ s.cStates[2] = "ACTIVE"
        /\ s.tripped = r.tripped /\ s.closed = r.closed
        /\ s.overLimit = r.overLimit /\ s.asserted = r.asserted
        /\ s.enabled = r.enabled /\ s.attempts = r.attempts
        /\ s.nextUpdateTime = r.nextUpdateTime
    BY <1>4, CtiFacts
  <2> HIDE DEF s
  <2>2. Watch(s) /\ Waits(s, t)
    BY <1>1, <1>4, <1>6, <2>1 DEF Watch, Waits
  <2> QED
    BY <1>1, <1>4, <1>5, <1>6, <2>1, <2>2 DEF Moves, Clearing, Found, Watch, Prompt, s
<1>7. CASE ~design.tap /\ design.clearing = 0
  <2> DEFINE s == tripBreaker(r, t)
  <2>1. Opening(r)
    BY <1>1, <1>4, <1>7 DEF Opening, Watch, Prompt
  <2>2. Watch(s)
    BY <1>1, <1>4, <2>1, TripWatch
  <2>3. /\ s \in BreakerState /\ s.tripped /\ s.asserted /\ s.enabled
        /\ s.lastReclose = r.lastReclose /\ s.attempts = counted(r, t)
        /\ Waits(s, t)
    BY <1>1, <1>4, TripFacts
  <2>4. counted(r, t) = counted(b, t)
    BY <1>4 DEF counted
  <2> HIDE DEF s
  <2> QED
    BY <1>1, <1>4, <1>5, <1>7, <2>2, <2>3, <2>4 DEF Moves, Clearing, Found, Watch, Prompt, s
<1>8. CASE ~design.tap /\ design.clearing # 0
  <2> DEFINE s == [r EXCEPT !.nextUpdateTime = t + design.clearing]
  <2>1. /\ s \in BreakerState /\ s.nextUpdateTime = t + design.clearing
        /\ s.cStates = r.cStates /\ s.overLimit = r.overLimit
        /\ s.cti = r.cti /\ s.useCti = r.useCti /\ s.closed = r.closed
        /\ s.tripped = r.tripped /\ s.asserted = r.asserted
        /\ s.enabled = r.enabled /\ s.attempts = r.attempts
    BY <1>2, <1>4 DEF BreakerState
  <2> HIDE DEF s
  <2>2. Watch(s) /\ Waits(s, t)
    BY <1>1, <1>2, <1>4, <1>8, <2>1 DEF Watch, Waits, Prompt
  <2> QED
    BY <1>1, <1>4, <1>5, <1>8, <2>1, <2>2 DEF Moves, Clearing, Found, Watch, Prompt, s
<1> QED
  BY <1>2, <1>6, <1>7, <1>8

\* The breaker recloses.
LEMMA ResetStep ==
    ASSUME NEW b, NEW t, NEW f \in BOOLEAN, Ready(b, t),
           b.tripped, b.nextUpdateTime <= t
    PROVE  Moves(b, resetBreaker(b, t, f), t)
<1> DEFINE r == [b EXCEPT !.attempts = @ + 1, !.lastReclose = t, !.tripped = FALSE,
                          !.closed = TRUE, !.nextUpdateTime = Inf]
           cs == [b.cStates EXCEPT ![0] = "ACTIVE"]
<1>1. /\ design \in Designs /\ t \in 0..Horizon /\ b \in BreakerState
      /\ Watch(b) /\ b.enabled /\ b.asserted
      /\ ~b.closed /\ ~b.useCti /\ b.overLimit /\ b.cStates[0] # "ACTIVE"
  BY DEF Ready, Watch
<1>2. /\ Inf \in Nat /\ t \in Nat /\ t < Inf /\ t + design.clearing \in 0..Inf
      /\ t + design.clearing < Inf /\ design.clearing \in Nat
      /\ design.tap \in BOOLEAN /\ design.reset \in Nat
  BY <1>1, DesignFacts
<1>3. b.attempts \in Nat /\ b.attempts + 1 \in Nat
  BY <1>1 DEF BreakerState
<1>4. /\ r \in BreakerState
      /\ r.attempts = b.attempts + 1 /\ r.lastReclose = t
      /\ ~r.tripped /\ r.closed /\ r.nextUpdateTime = Inf
      /\ r.cStates = b.cStates /\ r.cti = b.cti /\ r.useCti = b.useCti
      /\ r.asserted = b.asserted /\ r.enabled = b.enabled
      /\ r.overLimit = b.overLimit
  <2>1. r \in BreakerState
    <3>1. Inf \in 0..Inf /\ t \in (0..Horizon) \cup {Never}
      BY <1>1, <1>2
    <3> QED
      BY <1>1, <1>3, <3>1 DEF BreakerState
  <2>2. /\ r.attempts = b.attempts + 1 /\ r.lastReclose = t
        /\ ~r.tripped /\ r.closed /\ r.nextUpdateTime = Inf
    BY <1>1 DEF BreakerState
  <2>3. /\ r.cStates = b.cStates /\ r.cti = b.cti /\ r.useCti = b.useCti
        /\ r.asserted = b.asserted /\ r.enabled = b.enabled
        /\ r.overLimit = b.overLimit
    BY <1>1 DEF BreakerState
  <2> QED
    BY <2>1, <2>2, <2>3
<1>5. resetBreaker(b, t, f) =
        IF ~Over(r, f)
          THEN [r EXCEPT !.overLimit = FALSE, !.useCti = FALSE,
                         !.cStates = [@ EXCEPT ![0] = "ACTIVE"]]
        ELSE IF design.tap THEN startCti(r)
        ELSE IF design.clearing = 0 THEN tripBreaker(r, t)
        ELSE [r EXCEPT !.nextUpdateTime = t + design.clearing]
  BY DEF resetBreaker
<1> HIDE DEF r
<1>6. CASE ~Over(r, f)
  <2> DEFINE s == [r EXCEPT !.overLimit = FALSE, !.useCti = FALSE,
                            !.cStates = cs]
  <2>1. /\ cs \in CStates /\ cs[0] = "ACTIVE"
        /\ cs[1] = b.cStates[1] /\ cs[2] = b.cStates[2]
    <3>1. b.cStates \in CStates
      BY <1>1 DEF BreakerState
    <3> QED
      BY <3>1 DEF CStates, Conditions
  <2>2. resetBreaker(b, t, f) = s
    BY <1>4, <1>5, <1>6
  <2> HIDE DEF cs
  <2>3. /\ s \in BreakerState /\ s.cStates = cs /\ ~s.overLimit /\ ~s.useCti
        /\ s.attempts = r.attempts /\ s.tripped = r.tripped
        /\ s.closed = r.closed /\ s.nextUpdateTime = r.nextUpdateTime
        /\ s.cti = r.cti /\ s.asserted = r.asserted /\ s.enabled = r.enabled
    BY <1>4, <2>1 DEF BreakerState
  <2> HIDE DEF s
  <2>4. Watch(s) /\ Waits(s, t)
    BY <1>1, <1>4, <2>1, <2>3 DEF Watch, Waits
  <2> QED
    BY <1>1, <1>4, <2>2, <2>3, <2>4 DEF Moves, Clearing, Found, Watch, Prompt
<1>7. CASE Over(r, f) /\ design.tap
  <2> DEFINE s == startCti(r)
  <2>1. /\ s \in BreakerState /\ s.cti = 0 /\ s.useCti
        /\ s.cStates[0] = r.cStates[0]
        /\ s.cStates[1] = "ACTIVE" /\ s.cStates[2] = "ACTIVE"
        /\ s.tripped = r.tripped /\ s.closed = r.closed
        /\ s.overLimit = r.overLimit /\ s.asserted = r.asserted
        /\ s.enabled = r.enabled /\ s.attempts = r.attempts
        /\ s.nextUpdateTime = r.nextUpdateTime
    BY <1>4, CtiFacts
  <2>2. resetBreaker(b, t, f) = s
    BY <1>5, <1>7
  <2> HIDE DEF s
  <2>3. Watch(s) /\ Waits(s, t)
    BY <1>1, <1>4, <1>7, <2>1 DEF Watch, Waits
  <2> QED
    BY <1>1, <1>4, <2>1, <2>2, <2>3 DEF Moves, Clearing, Found, Watch, Prompt
<1>8. CASE Over(r, f) /\ ~design.tap /\ design.clearing = 0
  <2> DEFINE s == tripBreaker(r, t)
  <2>1. Opening(r)
    BY <1>1, <1>4 DEF Opening, Watch
  <2>2. Watch(s)
    BY <1>1, <1>4, <2>1, TripWatch
  <2>3. /\ s \in BreakerState /\ s.tripped /\ s.asserted /\ s.enabled
        /\ s.attempts = counted(r, t) /\ Waits(s, t)
    BY <1>1, <1>4, TripFacts
  <2>4. counted(r, t) = b.attempts + 1
    BY <1>2, <1>4 DEF counted
  <2>5. resetBreaker(b, t, f) = s
    BY <1>5, <1>8
  <2> HIDE DEF s
  <2> QED
    BY <1>1, <1>4, <2>2, <2>3, <2>4, <2>5 DEF Moves, Clearing, Found, Watch, Prompt
<1>9. CASE Over(r, f) /\ ~design.tap /\ design.clearing # 0
  <2> DEFINE s == [r EXCEPT !.nextUpdateTime = t + design.clearing]
  <2>1. /\ s \in BreakerState /\ s.nextUpdateTime = t + design.clearing
        /\ s.cStates = r.cStates /\ s.overLimit = r.overLimit
        /\ s.cti = r.cti /\ s.useCti = r.useCti /\ s.closed = r.closed
        /\ s.tripped = r.tripped /\ s.asserted = r.asserted
        /\ s.enabled = r.enabled /\ s.attempts = r.attempts
    BY <1>2, <1>4 DEF BreakerState
  <2>2. resetBreaker(b, t, f) = s
    BY <1>5, <1>9
  <2> HIDE DEF s
  <2>3. Watch(s) /\ Waits(s, t)
    BY <1>1, <1>2, <1>4, <1>9, <2>1 DEF Watch, Waits, Prompt
  <2> QED
    BY <1>1, <1>4, <2>1, <2>2, <2>3 DEF Moves, Clearing, Found, Watch, Prompt
<1> QED
  BY <1>2, <1>6, <1>7, <1>8, <1>9

\* Conditions 1 and 2 are never true where updateA and powerFlowAdjust look:
\* they trigger where mCti crosses its levels.
LEMMA SampledStep ==
    ASSUME NEW b, NEW t, NEW f \in BOOLEAN, Ready(b, t)
    PROVE  Step(b, sampledAll(b, t, f), t)
<1>1. ASSUME NEW s, Watch(s), s \in BreakerState
      PROVE  sampled(sampled(s, 1, t, f), 2, t, f) = s
  <2>1. s.cti \in Int
    BY <1>1 DEF BreakerState
  <2>2. sampled(s, 1, t, f) = s
    BY <1>1, <2>1 DEF sampled, checkCondition, Watch
  <2>3. sampled(s, 2, t, f) = s
    BY <1>1, <2>1 DEF sampled, checkCondition, Watch
  <2> QED
    BY <2>2, <2>3
<1>2. CASE b.cStates[0] = "ACTIVE" /\ Over(b, f)
  <2>1. sampled(b, 0, t, f) = overLimit(b, t)
    BY <1>2 DEF sampled, checkCondition, conditionTriggered
  <2>2. Moves(b, overLimit(b, t), t)
    BY <1>2, OverLimitStep
  <2>3. sampledAll(b, t, f) = overLimit(b, t)
    BY <1>1, <2>1, <2>2 DEF sampledAll, Moves
  <2> QED
    BY <2>2, <2>3 DEF Step
<1>3. CASE ~(b.cStates[0] = "ACTIVE" /\ Over(b, f))
  <2>1. sampled(b, 0, t, f) = b
    BY <1>3 DEF sampled, checkCondition
  <2>2. sampledAll(b, t, f) = b
    BY <1>1, <2>1 DEF sampledAll, Ready
  <2> QED
    BY <2>2 DEF Step
<1> QED
  BY <1>2, <1>3

\* Relay::updateA forgets the update time, and samples.
LEMMA RelayUpdateStep ==
    ASSUME NEW b, NEW t, NEW f \in BOOLEAN, Ready(b, t),
           ~b.tripped, ~b.overLimit
    PROVE  Step(b, relayUpdateA(b, t, f), t)
<1> DEFINE c == [b EXCEPT !.nextUpdateTime = Inf]
<1>1. /\ design \in Designs /\ t \in 0..Horizon /\ b \in BreakerState
      /\ Watch(b) /\ b.enabled /\ b.asserted
  BY DEF Ready
<1>2. Inf \in 0..Inf
  BY BreakerAssumption
<1>3. /\ c \in BreakerState /\ c.nextUpdateTime = Inf
      /\ c.cStates = b.cStates /\ c.cti = b.cti /\ c.useCti = b.useCti
      /\ c.asserted = b.asserted /\ c.enabled = b.enabled
      /\ c.overLimit = b.overLimit /\ c.tripped = b.tripped
      /\ c.closed = b.closed /\ c.attempts = b.attempts
      /\ c.lastReclose = b.lastReclose
  BY <1>1, <1>2 DEF BreakerState
<1>4. relayUpdateA(b, t, f) = sampledAll(c, t, f)
  BY DEF relayUpdateA
<1> HIDE DEF c
<1>5. Watch(c) /\ Waits(c, t)
  BY <1>1, <1>3 DEF Watch, Waits
<1>6. Moves(b, c, t)
  BY <1>1, <1>3, <1>5 DEF Moves, Clearing, Found, Watch, Prompt
<1>7. Step(c, sampledAll(c, t, f), t)
  BY <1>1, <1>3, <1>5, SampledStep DEF Ready
<1>8. ASSUME NEW r, Moves(c, r, t)
      PROVE  Moves(b, r, t)
  <2>1. counted(c, t) = counted(b, t)
    BY <1>3 DEF counted
  <2> QED
    BY <1>3, <1>8, <2>1 DEF Moves, Clearing, Found, Watch, Prompt
<1> QED
  BY <1>4, <1>6, <1>7, <1>8 DEF Step

LEMMA UpdateStep ==
    ASSUME NEW b, NEW t, NEW f \in BOOLEAN, Ready(b, t)
    PROVE  Step(b, updateA(b, t, f), t)
<1>1. /\ design \in Designs /\ t \in 0..Horizon /\ b \in BreakerState
      /\ Watch(b) /\ b.enabled /\ b.asserted
  BY DEF Ready
<1>2. t \in Nat /\ t < Inf /\ Inf \in Nat /\ design.tap \in BOOLEAN
  BY <1>1, DesignFacts
<1>3. b.nextUpdateTime \in Nat
  BY <1>1, <1>2 DEF BreakerState
<1>4. CASE b.tripped
  <2>1. CASE t >= b.nextUpdateTime
    <3>1. Moves(b, resetBreaker(b, t, f), t)
      BY <1>2, <1>3, <1>4, <2>1, ResetStep
    <3>2. updateA(b, t, f) = resetBreaker(b, t, f)
      BY <1>4, <2>1 DEF updateA
    <3> QED
      BY <3>1, <3>2 DEF Step
  <2>2. CASE ~(t >= b.nextUpdateTime)
    BY <1>4, <2>2 DEF updateA, Step
  <2> QED
    BY <2>1, <2>2
<1>5. CASE ~b.tripped /\ ~b.overLimit
  <2>1. Step(b, relayUpdateA(b, t, f), t)
    BY <1>5, RelayUpdateStep
  <2> QED
    BY <1>5, <2>1 DEF updateA
<1>6. CASE ~b.tripped /\ b.overLimit /\ t < b.nextUpdateTime
  BY <1>6 DEF updateA, Step
<1>7. CASE ~b.tripped /\ b.overLimit /\ ~(t < b.nextUpdateTime)
  <2>1. b.closed /\ ~Prompt /\ ~b.useCti /\ b.cStates[0] # "ACTIVE"
    BY <1>1, <1>2, <1>3, <1>7 DEF Watch, Prompt
  <2>2. CASE Over(b, f)
    <3> DEFINE s == tripBreaker(b, t)
    <3>1. Opening(b)
      BY <1>1, <1>7, <2>1 DEF Opening, Watch
    <3>2. Watch(s)
      BY <1>1, <3>1, TripWatch
    <3>3. /\ s \in BreakerState /\ s.tripped /\ s.asserted /\ s.enabled
          /\ s.lastReclose = b.lastReclose /\ s.attempts = counted(b, t)
          /\ Waits(s, t)
      BY <1>1, TripFacts
    <3>4. updateA(b, t, f) = s
      BY <1>7, <2>2 DEF updateA
    <3> HIDE DEF s
    <3>5. ~s.closed /\ b.nextUpdateTime <= t
      BY <1>2, <1>3, <1>7, <3>2, <3>3 DEF Watch
    <3> QED
      BY <1>7, <2>1, <3>2, <3>3, <3>4, <3>5 DEF Step, Moves, Clearing, Found
  <2>3. CASE ~Over(b, f)
    <3> DEFINE cs == [b.cStates EXCEPT ![0] = "ACTIVE"]
               s == [b EXCEPT !.overLimit = FALSE, !.cStates = cs]
    <3>1. /\ cs \in CStates /\ cs[0] = "ACTIVE"
          /\ cs[1] = b.cStates[1] /\ cs[2] = b.cStates[2]
      <4>1. b.cStates \in CStates
        BY <1>1 DEF BreakerState
      <4> QED
        BY <4>1 DEF CStates, Conditions
    <3>2. updateA(b, t, f) = s
      BY <1>7, <2>3 DEF updateA
    <3> HIDE DEF cs
    <3>3. s \in BreakerState /\ s.cStates = cs /\ ~s.overLimit
      BY <1>1, <3>1 DEF BreakerState
    <3>4. /\ s.attempts = b.attempts /\ s.tripped = b.tripped
          /\ s.closed = b.closed /\ s.nextUpdateTime = b.nextUpdateTime
          /\ s.cti = b.cti /\ s.useCti = b.useCti
          /\ s.asserted = b.asserted /\ s.enabled = b.enabled
      BY <1>1 DEF BreakerState
    <3> HIDE DEF s
    <3>5. Watch(s) /\ Waits(s, t)
      BY <1>1, <1>7, <2>1, <3>1, <3>3, <3>4 DEF Watch, Waits
    <3> QED
      BY <1>1, <1>7, <3>2, <3>3, <3>4, <3>5 DEF Step, Moves, Clearing, Found, Watch, Prompt
  <2> QED
    BY <2>2, <2>3
<1> QED
  BY <1>4, <1>5, <1>6, <1>7

\* mCti passes 1, and the breaker trips.
LEMMA HighStep ==
    ASSUME NEW b, NEW t, Ready(b, t), b.useCti
    PROVE  Moves(b, ctiHigh([b EXCEPT !.cti = 1], t), t)
<1> DEFINE cs == [b.cStates EXCEPT ![1] = "TRIGGERED"]
           r == [b EXCEPT !.cti = 1, !.asserted = TRUE, !.cStates = cs]
<1>1. /\ design \in Designs /\ t \in 0..Horizon /\ b \in BreakerState
      /\ Watch(b) /\ b.enabled /\ b.asserted
  BY DEF Ready
<1>2. /\ cs \in CStates /\ cs[0] = b.cStates[0] /\ cs[1] = "TRIGGERED"
      /\ cs[2] = b.cStates[2]
  <2>1. b.cStates \in CStates
    BY <1>1 DEF BreakerState
  <2> QED
    BY <2>1 DEF CStates, Conditions
<1>3. [[b EXCEPT !.cti = 1] EXCEPT !.asserted = @ /\ b.overLimit,
             !.cStates = [@ EXCEPT ![1] = "TRIGGERED"]] = r
  BY <1>1 DEF Watch, BreakerState
<1>4. ctiHigh([b EXCEPT !.cti = 1], t) = tripBreaker(r, t)
  BY <1>1, <1>3 DEF ctiHigh, BreakerState
<1> HIDE DEF cs
<1>5. r \in BreakerState /\ r.cStates = cs /\ r.cti = 1 /\ r.asserted
  <2>1. 1 \in -1..1
    OBVIOUS
  <2> QED
    BY <1>1, <1>2, <2>1 DEF BreakerState
<1>6. /\ r.overLimit = b.overLimit /\ r.enabled = b.enabled
      /\ r.attempts = b.attempts /\ r.lastReclose = b.lastReclose
      /\ r.nextUpdateTime = b.nextUpdateTime
  BY <1>1 DEF BreakerState
<1> HIDE DEF r
<1>7. Opening(r)
  BY <1>1, <1>2, <1>5, <1>6 DEF Opening, Watch
<1> DEFINE s == tripBreaker(r, t)
<1>8. Watch(s)
  BY <1>1, <1>5, <1>7, TripWatch
<1>9. /\ s \in BreakerState /\ s.tripped /\ s.asserted /\ s.enabled
      /\ s.lastReclose = r.lastReclose /\ s.attempts = counted(r, t)
      /\ Waits(s, t)
  BY <1>1, <1>5, <1>6, TripFacts
<1>10. counted(r, t) = counted(b, t)
  BY <1>6 DEF counted
<1> HIDE DEF s
<1> QED
  BY <1>1, <1>4, <1>6, <1>8, <1>9, <1>10 DEF Moves, Clearing, Found, Watch, Prompt, s

\* mCti passes -0.5, and the breaker watches the current again.
LEMMA LowStep ==
    ASSUME NEW b, NEW t, Ready(b, t), b.useCti
    PROVE  Moves(b, ctiLow([b EXCEPT !.cti = -1]), t)
<1> DEFINE cs == [c \in Conditions |-> IF c = 0 THEN "ACTIVE" ELSE "DISABLED"]
           r == [b EXCEPT !.cti = -1, !.asserted = TRUE, !.cStates = cs,
                          !.overLimit = FALSE, !.useCti = FALSE]
<1>1. /\ design \in Designs /\ t \in 0..Horizon /\ b \in BreakerState
      /\ Watch(b) /\ b.enabled /\ b.asserted
  BY DEF Ready
<1>2. /\ cs \in CStates /\ cs[0] = "ACTIVE" /\ cs[1] = "DISABLED"
      /\ cs[2] = "DISABLED"
  BY DEF CStates, Conditions
<1> HIDE DEF cs
<1>3. ctiLow([b EXCEPT !.cti = -1]) = r
  BY <1>1 DEF ctiLow, Watch, BreakerState, cs
<1>4. r \in BreakerState /\ r.cStates = cs /\ r.cti = -1 /\ r.asserted
      /\ ~r.overLimit /\ ~r.useCti
  <2>1. -1 \in -1..1
    OBVIOUS
  <2> QED
    BY <1>1, <1>2, <2>1 DEF BreakerState
<1>5. /\ r.tripped = b.tripped /\ r.closed = b.closed
      /\ r.enabled = b.enabled /\ r.attempts = b.attempts
      /\ r.nextUpdateTime = b.nextUpdateTime
  BY <1>1 DEF BreakerState
<1> HIDE DEF r
<1>6. Watch(r) /\ Waits(r, t)
  BY <1>1, <1>2, <1>4, <1>5 DEF Watch, Waits
<1> QED
  BY <1>1, <1>3, <1>4, <1>5, <1>6 DEF Moves, Clearing, Found, Watch, Prompt

-----------------------------------------------------------------------------
(* The invariant                                                           *)

LEMMA StepPreserves ==
    ASSUME IInv, breaker.enabled, fault' \in BOOLEAN, NEW b,
           Step(breaker, b, time), Becomes(b)
    PROVE  IInv'
<1>1. /\ design' = design /\ time' = time /\ breaker' = b
      /\ trippedAt' = IF b # breaker /\ b.tripped THEN time ELSE trippedAt
      /\ foundAt' = IF Found(b) /\ ~Found(breaker) THEN time ELSE foundAt
      /\ recloses' = IF b = breaker THEN recloses
                     ELSE IF breaker.tripped THEN recloses + 1
                     ELSE IF b.tripped /\ time > b.lastReclose + design.reset THEN 0
                     ELSE recloses
  BY DEF Becomes
<1>2. /\ design \in Designs /\ time \in 0..Horizon /\ trippedAt \in 0..Horizon
      /\ foundAt \in 0..Horizon /\ recloses \in Nat /\ breaker \in BreakerState
      /\ breaker.asserted /\ Watch(breaker) /\ Waits(breaker, trippedAt)
      /\ Clears(breaker, foundAt)
      /\ Counts(breaker, recloses)
  BY DEF IInv, TypeOK
<1>3. CASE b = breaker
  <2>1. /\ breaker' = breaker /\ trippedAt' = trippedAt
        /\ foundAt' = foundAt /\ recloses' = recloses
    BY <1>1, <1>3
  <2>2. TypeOK'
    BY <1>1, <1>2, <2>1 DEF TypeOK, BreakerState, Never
  <2> QED
    BY <1>1, <1>2, <2>1, <2>2
    DEF IInv, Watch, Waits, Clears, Found, Counts, Prompt
<1>4. CASE b # breaker
  <2>1. /\ b \in BreakerState /\ b.enabled /\ b.asserted
        /\ Watch(b) /\ Waits(b, time) /\ Clearing(breaker, b, time)
        /\ \/ ~breaker.tripped /\ ~b.tripped /\ b.attempts = breaker.attempts
           \/ /\ ~breaker.tripped /\ b.tripped
              /\ b.attempts = counted(breaker, time)
              /\ b.lastReclose = breaker.lastReclose
           \/ /\ breaker.tripped /\ b.attempts = breaker.attempts + 1
              /\ breaker.nextUpdateTime <= time
    BY <1>4 DEF Step, Moves, Clearing, Found, Watch, Prompt
  <2>2. trippedAt' \in 0..Horizon /\ foundAt' \in 0..Horizon /\ recloses' \in Nat
    BY <1>1, <1>2
  <2>3. TypeOK'
    BY <1>1, <1>2, <2>1, <2>2 DEF TypeOK, BreakerState, Never
  <2>4. Watch(breaker)' /\ breaker'.asserted
    BY <1>1, <2>1 DEF Watch, Prompt
  <2>5. Waits(breaker, trippedAt)'
    BY <1>1, <1>4, <2>1 DEF Waits
  <2>6. Counts(breaker, recloses)'
    <3>1. /\ design.attempts \in Nat /\ breaker.attempts \in Nat
          /\ b.attempts \in Nat /\ Inf \in Nat /\ time < Inf
          /\ breaker.nextUpdateTime \in Nat /\ time \in Nat
      BY <1>2, <2>1, DesignFacts DEF BreakerState
    <3>2. Prompt => recloses' <= b.attempts /\ b.attempts <= design.attempts
      <4>1. CASE ~breaker.tripped /\ ~b.tripped /\ b.attempts = breaker.attempts
        BY <1>1, <1>2, <1>4, <4>1 DEF Counts
      <4>2. CASE /\ ~breaker.tripped /\ b.tripped
                 /\ b.attempts = counted(breaker, time)
                 /\ b.lastReclose = breaker.lastReclose
        BY <1>1, <1>2, <1>4, <3>1, <4>2 DEF Counts, counted
      <4>3. CASE /\ breaker.tripped /\ b.attempts = breaker.attempts + 1
                 /\ breaker.nextUpdateTime <= time
        BY <1>1, <1>2, <1>4, <3>1, <4>3 DEF Counts, Watch
      <4> QED
        BY <2>1, <4>1, <4>2, <4>3
    <3> QED
      BY <1>1, <3>2 DEF Counts, Prompt
  <2>7. Clears(breaker, foundAt)'
    BY <1>1, <1>4, <2>1 DEF Clears, Clearing, Found, Prompt
  <2> QED
    BY <2>3, <2>4, <2>5, <2>6, <2>7 DEF IInv
<1> QED
  BY <1>3, <1>4

\* A step in which nothing of the breaker changes
LEMMA IdlePreserves ==
    ASSUME IInv, time' \in 0..Horizon, fault' \in BOOLEAN,
           design' = design, breaker' = breaker,
           trippedAt' = trippedAt, foundAt' = foundAt, recloses' = recloses
    PROVE  IInv'
<1>1. TypeOK'
  BY DEF IInv, TypeOK, BreakerState, Never
<1> QED
  BY <1>1 DEF IInv, Watch, Waits, Clears, Found, Counts, Prompt

LEMMA ReadyNow ==
    ASSUME IInv, breaker.enabled
    PROVE  Ready(breaker, time) /\ fault \in BOOLEAN
BY DEF IInv, TypeOK, Ready

\* What the four handlers that may change the breaker make of it.
LEMMA CrossesStep ==
    ASSUME IInv, breaker.enabled, breaker.cStates[0] = "ACTIVE"
    PROVE  Step(breaker, conditionTriggered(breaker, 0, time), time)
<1>1. Moves(breaker, overLimit(breaker, time), time)
  BY ReadyNow, OverLimitStep
<1> QED
  BY <1>1 DEF conditionTriggered, Step

LEMMA IntegrateStep ==
    ASSUME IInv, integrate
    PROVE  /\ breaker.enabled /\ fault' = fault
           /\ \E b : Step(breaker, b, time) /\ Becomes(b)
<1> DEFINE d == IF Over(breaker, fault) THEN 1 ELSE -1
           e == breaker.cti + d
           b == [breaker EXCEPT !.cti = @ + (IF Over(breaker, fault) THEN 1 ELSE -1)]
           c == IF b.cti > 0 THEN 1 ELSE 2
           r == IF b.cti # 0 /\ b.cStates[c] = "ACTIVE"
                THEN conditionTriggered(b, c, time) ELSE b
<1>1. /\ breaker.enabled /\ breaker.useCti /\ fault' = fault /\ Becomes(r)
  BY DEF integrate
<1>2. /\ Ready(breaker, time) /\ breaker \in BreakerState /\ breaker.cti = 0
      /\ breaker.cStates[1] = "ACTIVE" /\ breaker.cStates[2] = "ACTIVE"
  BY <1>1, ReadyNow DEF Ready, Watch
<1>3. /\ b.cti = d /\ b.cStates = breaker.cStates
      /\ b = [breaker EXCEPT !.cti = d]
  BY <1>2 DEF BreakerState
<1>4. CASE Over(breaker, fault)
  <2>1. b = [breaker EXCEPT !.cti = 1] /\ b.cti = 1 /\ c = 1
    BY <1>3, <1>4
  <2>2. r = ctiHigh([breaker EXCEPT !.cti = 1], time)
    <3> HIDE DEF b, c
    <3> QED
      BY <1>2, <1>3, <2>1 DEF conditionTriggered
  <2>3. Moves(breaker, r, time)
    BY <1>1, <1>2, <2>2, HighStep
  <2> HIDE DEF r
  <2> QED
    BY <1>1, <2>3 DEF Step
<1>5. CASE ~Over(breaker, fault)
  <2>1. b = [breaker EXCEPT !.cti = -1] /\ b.cti = -1 /\ c = 2
    BY <1>3, <1>5
  <2>2. r = ctiLow([breaker EXCEPT !.cti = -1])
    <3> HIDE DEF b, c
    <3> QED
      BY <1>2, <1>3, <2>1 DEF conditionTriggered
  <2>3. Moves(breaker, r, time)
    BY <1>1, <1>2, <2>2, LowStep
  <2> HIDE DEF r
  <2> QED
    BY <1>1, <2>3 DEF Step
<1> QED
  BY <1>4, <1>5

\* Every step either leaves the breaker and its history alone, is a Step of
\* an enabled breaker, or is timestep.
LEMMA Handlers ==
    ASSUME IInv, Next
    PROVE  \/ /\ UNCHANGED <<design, breaker, history>>
              /\ time' \in 0..Horizon /\ fault' \in BOOLEAN
           \/ /\ breaker.enabled /\ fault' \in BOOLEAN
              /\ \E b : Step(breaker, b, time) /\ Becomes(b)
           \/ timestep
<1>1. time \in 0..Horizon /\ fault \in BOOLEAN /\ Horizon \in Nat
  BY BreakerAssumption DEF IInv, TypeOK
<1>2. CASE advance
  BY <1>1, <1>2 DEF advance
<1>3. CASE currentCrosses
  <2>1. CASE breaker.enabled /\ breaker.closed /\ breaker.cStates[0] = "ACTIVE"
    <3>1. Becomes(conditionTriggered(breaker, 0, time)) /\ fault' \in BOOLEAN
      BY <1>1, <1>3, <2>1 DEF currentCrosses
    <3> QED
      BY <2>1, <3>1, CrossesStep
  <2>2. CASE ~(breaker.enabled /\ breaker.closed /\ breaker.cStates[0] = "ACTIVE")
    <3>1. Becomes(breaker) /\ fault' \in BOOLEAN
      BY <1>1, <1>3, <2>2 DEF currentCrosses
    <3>2. UNCHANGED <<design, breaker, history>> /\ time' = time
      BY <3>1 DEF Becomes, history
    <3> QED
      BY <1>1, <3>1, <3>2
  <2> QED
    BY <2>1, <2>2
<1>4. CASE currentJumps
  BY <1>1, <1>4 DEF currentJumps
<1>5. CASE integrate
  BY <1>1, <1>5, IntegrateStep
<1>6. CASE rootCheck
  <2>1. /\ breaker.enabled /\ fault' = fault
        /\ Becomes(updateA(breaker, time, fault))
    BY <1>6 DEF rootCheck
  <2>2. Step(breaker, updateA(breaker, time, fault), time)
    BY <2>1, ReadyNow, UpdateStep
  <2> QED
    BY <1>1, <2>1, <2>2
<1>7. CASE powerFlowAdjust
  <2>1. /\ breaker.enabled /\ fault' = fault
        /\ Becomes(sampledAll(breaker, time, fault))
    BY <1>7 DEF powerFlowAdjust
  <2>2. Step(breaker, sampledAll(breaker, time, fault), time)
    BY <2>1, ReadyNow, SampledStep
  <2> QED
    BY <1>1, <2>1, <2>2
<1> QED
  BY <1>2, <1>3, <1>4, <1>5, <1>6, <1>7 DEF Next

LEMMA InitInv == Init => IInv
<1> SUFFICES ASSUME Init PROVE IInv
  OBVIOUS
<1> DEFINE cs == [c \in Conditions |-> IF c = 0 THEN "ACTIVE" ELSE "DISABLED"]
<1>1. /\ cs \in CStates /\ cs[0] = "ACTIVE" /\ cs[1] = "DISABLED"
      /\ cs[2] = "DISABLED"
  BY DEF CStates, Conditions
<1>2. 0 \in -1..1 /\ Inf \in 0..Inf /\ 0 \in 0..Horizon
  BY BreakerAssumption
<1>3. /\ breaker.cStates = cs /\ ~breaker.overLimit /\ ~breaker.tripped
      /\ breaker.closed /\ breaker.cti = 0 /\ ~breaker.useCti
      /\ breaker.nextUpdateTime = Inf /\ breaker.lastReclose = Never
      /\ breaker.attempts = 0 /\ breaker.enabled /\ breaker.asserted
  BY DEF Init
<1>4. breaker \in BreakerState
  <2> HIDE DEF cs
  <2>1. breaker = [cStates |-> cs, overLimit |-> FALSE, tripped |-> FALSE,
                   closed |-> TRUE, cti |-> 0, useCti |-> FALSE,
                   nextUpdateTime |-> Inf, lastReclose |-> Never,
                   attempts |-> 0, enabled |-> TRUE, asserted |-> TRUE]
    BY DEF Init, cs
  <2> QED
    BY <1>1, <1>2, <2>1 DEF BreakerState
<1>5. TypeOK
  BY <1>2, <1>4 DEF Init, TypeOK
<1>6. /\ Watch(breaker) /\ Waits(breaker, trippedAt)
      /\ Clears(breaker, foundAt)
  <2> HIDE DEF cs
  <2> QED
    BY <1>1, <1>3 DEF Watch, Waits, Clears, Found
<1>7. Counts(breaker, recloses)
  <2>1. design.attempts \in Nat /\ recloses = 0
    BY <1>2, DesignFacts DEF Init
  <2> QED
    BY <1>3, <2>1 DEF Counts
<1> QED
  BY <1>3, <1>5, <1>6, <1>7 DEF IInv

LEMMA NextInv == IInv /\ [Next]_vars => IInv'
<1> SUFFICES ASSUME IInv, [Next]_vars PROVE IInv'
  OBVIOUS
<1>1. time \in 0..Horizon /\ fault \in BOOLEAN
  BY DEF IInv, TypeOK
<1>2. CASE UNCHANGED vars
  BY <1>1, <1>2, IdlePreserves DEF vars, history
<1>3. CASE UNCHANGED <<design, breaker, history>> /\ time' \in 0..Horizon
           /\ fault' \in BOOLEAN
  BY <1>3, IdlePreserves DEF history
<1>4. CASE /\ breaker.enabled /\ fault' \in BOOLEAN
           /\ \E b : Step(breaker, b, time) /\ Becomes(b)
  BY <1>4, StepPreserves
<1>5. CASE timestep
  <2>1. /\ breaker' = [breaker EXCEPT !.tripped = TRUE, !.enabled = FALSE]
        /\ design' = design /\ time' = time /\ fault' = fault
        /\ trippedAt' = trippedAt /\ foundAt' = foundAt
        /\ recloses' = recloses
    BY <1>5 DEF timestep, history
  <2>2. /\ breaker \in BreakerState /\ breaker.asserted
        /\ Counts(breaker, recloses)
    BY DEF IInv, TypeOK
  <2>3. /\ breaker' \in BreakerState
        /\ ~breaker'.enabled /\ breaker'.asserted
        /\ breaker'.attempts = breaker.attempts
    BY <2>1, <2>2 DEF BreakerState
  <2>4. TypeOK'
    BY <2>1, <2>3 DEF IInv, TypeOK, BreakerState, Never
  <2> QED
    BY <2>1, <2>2, <2>3, <2>4 DEF IInv, Counts, Prompt
<1> QED
  BY <1>2, <1>3, <1>4, <1>5, Handlers

\* Init, and every handler in any order, keep the breaker in the states of
\* Watch, the count of attempts and the time of the next reclose right.
THEOREM Inductive == Spec => []IInv
BY InitInv, NextInv, PTL DEF Spec

-----------------------------------------------------------------------------
(* The properties                                                          *)

\* The members of Breaker keep their types, mCti its levels and the update
\* time its range, for every breaker.
THEOREM TypeCorrect == Spec => []TypeOK
<1>1. IInv => TypeOK
  BY DEF IInv
<1> QED
  BY <1>1, Inductive, PTL

\* The two asserts of Breaker::conditionTriggered never fail.
THEOREM Asserts == Spec => []AssertsHold
<1>1. IInv => AssertsHold
  BY DEF IInv, AssertsHold
<1> QED
  BY <1>1, Inductive, PTL

\* No sequence of trips, recloses and clears leaves a closed breaker blind.
THEOREM Vigilance == Spec => []NeverBlind
<1>1. IInv => NeverBlind
  BY DEF IInv, NeverBlind, Watch, Prompt
<1> QED
  BY <1>1, Inductive, PTL

\* A breaker that trips at once or by the curve makes no more recloses than
\* mMaxRecloseAttempts.
THEOREM Lockout == Spec => []RecloseLimitPrompt
<1>1. IInv => RecloseLimitPrompt
  <2> SUFFICES ASSUME IInv, Prompt PROVE recloses <= design.attempts
    BY DEF RecloseLimitPrompt, RecloseLimit, Prompt
  <2>1. design \in Designs /\ breaker.attempts \in Nat /\ recloses \in Nat
    BY DEF IInv, TypeOK, BreakerState
  <2>2. design.attempts \in Nat
    BY <2>1, BreakerAssumption DEF Design
  <2> QED
    BY <2>1, <2>2 DEF IInv, Counts
<1> QED
  BY <1>1, Inductive, PTL

\* A breaker with an attempt left does not reclose before its reclose time.
THEOREM Patience == Spec => RecloseWaits
<1> DEFINE Early == recloses' > recloses /\ breaker.attempts < design.attempts =>
                      time >= trippedAt + IF breaker.attempts = 0
                                          THEN design.reclose1
                                          ELSE design.reclose2
<1>1. IInv /\ [Next]_vars => [Early]_vars
  <2> SUFFICES ASSUME IInv, Next, recloses' > recloses,
                      breaker.attempts < design.attempts
               PROVE  time >= trippedAt + IF breaker.attempts = 0
                                          THEN design.reclose1
                                          ELSE design.reclose2
    BY DEF vars
  <2>1. recloses \in Nat /\ recloses' # recloses
    BY DEF IInv, TypeOK
  <2>2. ~UNCHANGED <<design, breaker, history>> /\ ~timestep
    BY <2>1 DEF history, timestep
  <2>3. PICK b : breaker.enabled /\ Step(breaker, b, time) /\ Becomes(b)
    BY <2>2, Handlers
  <2>4. recloses' = IF b = breaker THEN recloses
                    ELSE IF breaker.tripped THEN recloses + 1
                    ELSE IF b.tripped /\ time > b.lastReclose + design.reset THEN 0
                    ELSE recloses
    BY <2>3 DEF Becomes
  <2>5. b # breaker /\ breaker.tripped
    BY <2>1, <2>4
  <2>6. breaker.nextUpdateTime <= time
    BY <2>3, <2>5 DEF Step, Moves, Clearing, Found, Watch, Prompt
  <2>7. Waits(breaker, trippedAt)
    BY <2>3 DEF IInv
  <2>8. breaker.nextUpdateTime = trippedAt + (IF breaker.attempts = 0
                                             THEN design.reclose1
                                             ELSE design.reclose2)
    BY <2>5, <2>7 DEF Waits
  <2>9. breaker.nextUpdateTime \in Int /\ time \in Int
    BY BreakerAssumption DEF IInv, TypeOK, BreakerState
  <2> QED
    BY <2>6, <2>8, <2>9
<1> QED
  BY <1>1, Inductive, PTL DEF RecloseWaits, Spec

\* A breaker with a clearing time does not open before that time is over,
\* counted from when the current was found over the limit.
THEOREM Clearance == Spec => ClearingWaits
<1> DEFINE Kept == ~design.tap /\ design.clearing > 0 /\ breaker.closed
                   /\ ~breaker'.closed =>
                     breaker.overLimit /\ time >= foundAt + design.clearing
<1>1. IInv /\ [Next]_vars => [Kept]_vars
  <2> SUFFICES ASSUME IInv, Next, ~design.tap, design.clearing > 0,
                      breaker.closed, ~breaker'.closed
               PROVE  breaker.overLimit /\ time >= foundAt + design.clearing
    BY DEF vars
  <2>1. ~timestep
    <3>1. breaker \in BreakerState
      BY DEF IInv, TypeOK
    <3> QED
      BY <3>1 DEF timestep, BreakerState
  <2>2. ~UNCHANGED <<design, breaker, history>>
    OBVIOUS
  <2>3. PICK b : breaker.enabled /\ Step(breaker, b, time) /\ Becomes(b)
    BY <2>1, <2>2, Handlers
  <2>4. breaker' = b /\ b # breaker
    BY <2>3 DEF Becomes
  <2>5. Clearing(breaker, b, time) /\ Clears(breaker, foundAt)
    BY <2>3, <2>4 DEF Step, Moves, IInv
  <2>6. breaker.nextUpdateTime \in Int /\ time \in Int /\ design.clearing \in Int
    <3>1. design \in Design
      BY BreakerAssumption DEF IInv, TypeOK
    <3> QED
      BY <3>1, BreakerAssumption DEF IInv, TypeOK, BreakerState, Design
  <2>7. ~Prompt
    BY <2>6 DEF Prompt
  <2>8. breaker.overLimit /\ breaker.nextUpdateTime <= time
    BY <2>4, <2>5, <2>7 DEF Clearing
  <2> QED
    BY <2>5, <2>6, <2>7, <2>8 DEF Clears, Found
<1> QED
  BY <1>1, Inductive, PTL DEF ClearingWaits, Spec

=============================================================================
