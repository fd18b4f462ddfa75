------------------------------ MODULE Breaker ------------------------------
(***************************************************************************)
(* Trip, reclose and lock-out of a Breaker on a link                       *)
(* (src/src/griddyn/relays/Breaker.{h,cpp}).                               *)
(*                                                                         *)
(* The breaker opens a switch of its link when the current reaches the     *)
(* limit: at once, after a clearing time, or when the integral of an       *)
(* inverse-time curve (mCti, with a recloser tap) passes 1.  It recloses   *)
(* after mRecloseTime1 or 2, mMaxRecloseAttempts times, and trips again if *)
(* the fault is still there.  Condition 0 compares the current with the    *)
(* limit, 1 and 2 compare mCti with 1 and -0.5; all that matters of mCti   *)
(* is where it is: below -0.5 (-1), between (0) or above 1 (1).            *)
(*                                                                         *)
(* A breaker asks for updates with UPDATE_TIME_CHANGE only, and recheck    *)
(* looks at adapters that are in the event queue already; a breaker        *)
(* without an update period is never inserted.  Its clearing and reclose   *)
(* times are therefore looked at when the simulation calls rootCheck, at   *)
(* times of its own.  (With a period the breaker is in the queue, and the  *)
(* alert inside updateA meets the lock: NoSelfLock of module Relay.)       *)
(***************************************************************************)
EXTENDS Integers

CONSTANTS
    Designs,     \* the breakers to look at, see Design below
    Horizon,     \* bound: the last time at which anything happens
    Inf          \* maxTime

\* mMinClearingTime, mRecloseTime1, mRecloseTime2, mRecloserTap > 0,
\* mMaxRecloseAttempts, mRecloserResetTime.  A tap is none or is above
\* kMin_Res: one between is a tap for conditionTriggered (== 0.0) and none
\* for resetBreaker (<= kMin_Res).
Design == [clearing : Nat, reclose1 : Nat, reclose2 : Nat, tap : BOOLEAN,
           attempts : Nat, reset : Nat]

ASSUME BreakerAssumption ==
    /\ Horizon \in Nat /\ Inf \in Nat
    /\ Designs \subseteq Design
    /\ \A d \in Designs : /\ Inf > Horizon + d.clearing
                          /\ Inf > Horizon + d.reclose1
                          /\ Inf > Horizon + d.reclose2

VARIABLES
    design,     \* what the breaker was given before the simulation started
    time,       \* time of the simulation
    fault,      \* the current of the link is over the limit when it flows
    breaker,    \* the members of Breaker and the switch, see Init
    \* history, read by the properties only
    trippedAt,  \* the time of the latest trip
    foundAt,    \* when the closed breaker last found the current over the
                \* limit
    recloses    \* recloses since the breaker was last closed for as long as
                \* mRecloserResetTime

history == <<trippedAt, foundAt, recloses>>
vars == <<design, time, fault, breaker, history>>

Conditions == 0..2

\* mLastRecloseTime starts at negTime, so that the first trip resets.
Never == -1 - Inf

\* The breaker after dynObjectInitializeA
Init ==
    /\ design \in Designs
    /\ time = 0 /\ fault = FALSE
    /\ trippedAt = 0 /\ foundAt = 0 /\ recloses = 0
    /\ breaker = [cStates        |-> [c \in Conditions |->
                                        IF c = 0 THEN "ACTIVE" ELSE "DISABLED"],
                  overLimit      |-> FALSE,
                  tripped        |-> FALSE,
                  closed         |-> TRUE,
                  cti            |-> 0,
                  useCti         |-> FALSE,
                  nextUpdateTime |-> Inf,
                  lastReclose    |-> Never,
                  attempts       |-> 0,
                  enabled        |-> TRUE,
                  asserted       |-> TRUE]  \* every assert has held

-----------------------------------------------------------------------------
(* Parts of the handlers: operators from a state of the breaker to the     *)
(* next.  f says whether there is a fault.                                 *)

Over(b, f) == f /\ b.closed

\* Relay::checkCondition and the tests of updateA
checkCondition(b, c, f) ==
    CASE c = 0 -> Over(b, f)
      [] c = 1 -> b.cti > 0
      [] c = 2 -> b.cti < 0

\* mRecloseAttempts as tripBreaker sees it
counted(b, t) == IF t > b.lastReclose + design.reset THEN 0 ELSE b.attempts

\* Mutant of tripBreaker: the count of attempts is always reset.
tripBreakerForgets(b, t) ==
    [b EXCEPT !.closed = FALSE, !.tripped = TRUE, !.useCti = FALSE,
              !.attempts = 0,
              !.nextUpdateTime = IF design.attempts > 0
                                 THEN t + design.reclose1 ELSE @]

\* Breaker::tripBreaker.  With no attempt left nextUpdateTime stays.
tripBreaker(b, t) ==
    LET n == counted(b, t)
    IN  [b EXCEPT !.closed = FALSE, !.tripped = TRUE, !.useCti = FALSE,
                  !.attempts = n,
                  !.nextUpdateTime = IF n >= design.attempts THEN @
                                     ELSE IF n = 0 THEN t + design.reclose1
                                     ELSE t + design.reclose2]

\* The inverse-time curve starts: mCti is a state of the solver from now on.
startCti(b) ==
    [b EXCEPT !.cti = 0, !.useCti = TRUE,
              !.cStates = [@ EXCEPT ![1] = "ACTIVE", ![2] = "ACTIVE"]]

\* Mutant of resetBreaker: condition 0 is not armed again.
resetBreakerUnarmed(b, t, f) ==
    LET r == [b EXCEPT !.attempts = @ + 1, !.lastReclose = t, !.tripped = FALSE,
                       !.closed = TRUE, !.nextUpdateTime = Inf]
    IN  IF ~Over(r, f) THEN [r EXCEPT !.overLimit = FALSE, !.useCti = FALSE]
        ELSE IF design.tap THEN startCti(r)
        ELSE IF design.clearing = 0 THEN tripBreaker(r, t)
        ELSE [r EXCEPT !.nextUpdateTime = t + design.clearing]

\* Breaker::resetBreaker: the switch closes, and the current is looked at.
resetBreaker(b, t, f) ==
    LET r == [b EXCEPT !.attempts = @ + 1, !.lastReclose = t, !.tripped = FALSE,
                       !.closed = TRUE, !.nextUpdateTime = Inf]
    IN  IF ~Over(r, f)
          THEN [r EXCEPT !.overLimit = FALSE, !.useCti = FALSE,
                         !.cStates = [@ EXCEPT ![0] = "ACTIVE"]]
        ELSE IF design.tap THEN startCti(r)
        ELSE IF design.clearing = 0 THEN tripBreaker(r, t)
        ELSE [r EXCEPT !.nextUpdateTime = t + design.clearing]

\* Breaker::conditionTriggered(0)
overLimit(b, t) ==
    LET r == [b EXCEPT !.overLimit = TRUE,
                       !.cStates = [@ EXCEPT ![0] = "DISABLED"]]
    IN  IF design.tap THEN startCti(r)
        ELSE IF design.clearing = 0 THEN tripBreaker(r, t)
        ELSE [r EXCEPT !.nextUpdateTime = t + design.clearing]

\* Breaker::conditionTriggered(1)
ctiHigh(b, t) ==
    tripBreaker([b EXCEPT !.asserted = @ /\ b.overLimit,
                          !.cStates = [@ EXCEPT ![1] = "TRIGGERED"]], t)

\* Mutant of ctiLow: the two conditions on mCti stay active.
ctiLowActive(b) ==
    [b EXCEPT !.asserted = @ /\ b.overLimit,
              !.cStates = [@ EXCEPT ![0] = "ACTIVE"],
              !.overLimit = FALSE, !.useCti = FALSE]

\* Breaker::conditionTriggered(2)
ctiLow(b) ==
    [b EXCEPT !.asserted = @ /\ b.overLimit,
              !.cStates = [c \in Conditions |->
                              IF c = 0 THEN "ACTIVE" ELSE "DISABLED"],
              !.overLimit = FALSE, !.useCti = FALSE]

conditionTriggered(b, c, t) ==
    CASE c = 0 -> overLimit(b, t)
      [] c = 1 -> ctiHigh(b, t)
      [] c = 2 -> ctiLow(b)

\* The loop of updateA and powerFlowAdjust meets condition c.
sampled(b, c, t, f) ==
    IF b.cStates[c] = "ACTIVE" /\ checkCondition(b, c, f)
    THEN conditionTriggered(b, c, t) ELSE b

sampledAll(b, t, f) == sampled(sampled(sampled(b, 0, t, f), 1, t, f), 2, t, f)

\* Relay::updateA; the conditions of a breaker have no delayed actions.
relayUpdateA(b, t, f) == sampledAll([b EXCEPT !.nextUpdateTime = Inf], t, f)

\* Mutant of updateA: the time is not looked at before a reclose.
updateAHasty(b, t, f) ==
    IF b.tripped THEN resetBreaker(b, t, f)
    ELSE IF ~b.overLimit THEN relayUpdateA(b, t, f)
    ELSE IF t < b.nextUpdateTime THEN b
    ELSE IF Over(b, f) THEN tripBreaker(b, t)
    ELSE [b EXCEPT !.overLimit = FALSE, !.cStates = [@ EXCEPT ![0] = "ACTIVE"]]

\* Mutant of updateA: the clearing time is not waited for.
updateAAtOnce(b, t, f) ==
    IF b.tripped
      THEN IF t >= b.nextUpdateTime THEN resetBreaker(b, t, f) ELSE b
    ELSE IF ~b.overLimit THEN relayUpdateA(b, t, f)
    ELSE IF Over(b, f) THEN tripBreaker(b, t)
    ELSE [b EXCEPT !.overLimit = FALSE, !.cStates = [@ EXCEPT ![0] = "ACTIVE"]]

\* Breaker::updateA
updateA(b, t, f) ==
    IF b.tripped
      THEN IF t >= b.nextUpdateTime THEN resetBreaker(b, t, f) ELSE b
    ELSE IF ~b.overLimit THEN relayUpdateA(b, t, f)
    ELSE IF t < b.nextUpdateTime THEN b
    ELSE IF Over(b, f) THEN tripBreaker(b, t)
    ELSE [b EXCEPT !.overLimit = FALSE, !.cStates = [@ EXCEPT ![0] = "ACTIVE"]]

-----------------------------------------------------------------------------
(* Steps                                                                   *)

\* The closed breaker knows that the current is over the limit.
Found(b) == b.closed /\ b.overLimit

\* A handler leaves the breaker in state b.  An open breaker changes only by
\* reclosing, and one that is open after a change has tripped.
Becomes(b) ==
    /\ breaker' = b
    /\ trippedAt' = IF b # breaker /\ b.tripped THEN time ELSE trippedAt
    /\ foundAt' = IF Found(b) /\ ~Found(breaker) THEN time ELSE foundAt
    /\ recloses' = IF b = breaker THEN recloses
                   ELSE IF breaker.tripped THEN recloses + 1
                   ELSE IF b.tripped /\ time > b.lastReclose + design.reset THEN 0
                   ELSE recloses
    /\ UNCHANGED <<design, time>>

advance ==
    /\ time < Horizon
    /\ time' = time + 1
    /\ UNCHANGED <<design, fault, breaker, history>>

\* The current crosses the limit, up or down, without a jump.  If condition 0
\* has a root the solver stops there and calls rootTrigger, which does not
\* ask for the direction.
currentCrosses ==
    /\ fault' = ~fault
    /\ Becomes(IF breaker.enabled /\ breaker.closed /\ breaker.cStates[0] = "ACTIVE"
               THEN conditionTriggered(breaker, 0, time) ELSE breaker)

\* The current jumps across the limit: no root is found.
currentJumps ==
    /\ fault' = ~fault
    /\ UNCHANGED <<design, time, breaker, history>>

\* The solver integrates mCti: up while the current is over the limit, down
\* while it is not.  Where it crosses 1 or -0.5, rootTrigger is called.
integrate ==
    LET b == [breaker EXCEPT !.cti = @ + (IF Over(breaker, fault) THEN 1 ELSE -1)]
        c == IF b.cti > 0 THEN 1 ELSE 2
    IN  /\ breaker.enabled /\ breaker.useCti
        /\ b.cti \in -1..1
        /\ Becomes(IF b.cti # 0 /\ b.cStates[c] = "ACTIVE"
                   THEN conditionTriggered(b, c, time) ELSE b)
        /\ UNCHANGED fault

\* Relay::rootCheck, which the simulation calls after a reset of the solver.
rootCheck ==
    /\ breaker.enabled
    /\ Becomes(updateA(breaker, time, fault))
    /\ UNCHANGED fault

\* Relay::powerFlowAdjust, for a breaker with POWER_FLOW_CHECKS_FLAG
powerFlowAdjust ==
    /\ breaker.enabled
    /\ Becomes(sampledAll(breaker, time, fault))
    /\ UNCHANGED fault

\* Breaker::timestep, which every step of an event-driven power flow and the
\* recovery from failed initial conditions call: the breaker is marked and
\* disabled, and the switch stays.
timestep ==
    /\ breaker.enabled /\ Over(breaker, fault)
    /\ breaker' = [breaker EXCEPT !.tripped = TRUE, !.enabled = FALSE]
    /\ UNCHANGED <<design, time, fault, history>>

Next ==
    \/ advance \/ currentCrosses \/ currentJumps
    \/ integrate \/ rootCheck \/ powerFlowAdjust \/ timestep

Spec == Init /\ [][Next]_vars

-----------------------------------------------------------------------------
(* Properties                                                              *)

CStates == [Conditions -> {"ACTIVE", "TRIGGERED", "DISABLED"}]

BreakerState ==
    [cStates : CStates,
     overLimit : BOOLEAN, tripped : BOOLEAN, closed : BOOLEAN, cti : -1..1,
     useCti : BOOLEAN, nextUpdateTime : 0..Inf,
     lastReclose : (0..Horizon) \cup {Never}, attempts : Nat,
     enabled : BOOLEAN, asserted : BOOLEAN]

TypeOK ==
    /\ design \in Designs /\ time \in 0..Horizon /\ trippedAt \in 0..Horizon
    /\ foundAt \in 0..Horizon /\ recloses \in Nat
    /\ fault \in BOOLEAN /\ breaker \in BreakerState

\* The asserts of conditionTriggered hold: mCti crosses its levels only while
\* the current has been found over the limit.
AssertsHold == breaker.asserted

\* A closed breaker watches the current in one of its three ways: condition 0
\* is armed, the inverse-time curve runs, or the end of the clearing time is
\* set.  No sequence of trips, recloses and clears leaves it blind.
NeverBlind ==
    breaker.enabled /\ breaker.closed =>
        \/ breaker.cStates[0] = "ACTIVE"
        \/ /\ breaker.useCti /\ breaker.cStates[1] = "ACTIVE"
           /\ breaker.cStates[2] = "ACTIVE"
        \/ ~design.tap /\ breaker.nextUpdateTime < Inf

\* mMaxRecloseAttempts is the "total number of recloses": the breaker never
\* makes more of them unless it has stayed closed for mRecloserResetTime.
RecloseLimit == recloses <= design.attempts

\* The same for breakers that trip at once or by the inverse-time curve.
RecloseLimitPrompt == design.tap \/ design.clearing = 0 => RecloseLimit

\* An open breaker with an attempt left stays open for its reclose time,
\* whatever is polled meanwhile.
RecloseWaits ==
    [][recloses' > recloses /\ breaker.attempts < design.attempts =>
        time >= trippedAt + IF breaker.attempts = 0 THEN design.reclose1
                            ELSE design.reclose2]_vars

\* A breaker with a clearing time does not open before the current has been
\* known to be over the limit for that time: since it was last found, or
\* since the reclose that met the fault again.  An earlier fault, trip or
\* clear never shortens it.
ClearingWaits ==
    [][~design.tap /\ design.clearing > 0 /\ breaker.closed /\ ~breaker'.closed =>
        breaker.overLimit /\ time >= foundAt + design.clearing]_vars
=============================================================================
