------------------------------- MODULE Relay -------------------------------
(***************************************************************************)
(* Conditions, delayed actions and sampling of a protection relay          *)
(* (src/src/griddyn/Relay.h, relays/Relay.cpp).                            *)
(*                                                                         *)
(* A condition compares a quantity of the grid with a level.  All that     *)
(* matters of it is where the quantity is: below the reset margin (0), in  *)
(* the margin (1) or beyond the level (2).  When an ACTIVE condition is    *)
(* found true the relay takes the condition's actions, the ones with a     *)
(* delay after a check at the end of the delay.  A sampled relay looks at  *)
(* its conditions once in every updatePeriod; a continuous one gives them  *)
(* to the root finder of the solver.  A handler runs to its end without    *)
(* the grid changing, so it is one step: a fold over the relay's state.    *)
(* An alert reaches the event queue at once and locks its mutex, which the *)
(* thread that runs update holds already.                                  *)
(***************************************************************************)
EXTENDS Integers, Sequences, SequencesExt

CONSTANTS
    Designs,     \* the relays to look at, see Triggers to Allowed below
    Horizon,     \* bound: the last time at which anything happens
    Inf          \* maxTime

RareSteps == {"jump", "rootCheck", "powerFlowAdjust", "setConditionStatus"}

\* A delay or a period never reaches past maxTime.  The check of a delayed
\* action of several conditions holds the action, and the code uses it as a
\* position of multiConditionTriggers: outside of that vector the program has
\* no meaning.
ASSUME RelayAssumption ==
    /\ Horizon \in Nat /\ Inf \in Nat /\ Inf > 2 * Horizon
    /\ \A d \in Designs :
        /\ d.continuous \in BOOLEAN /\ d.resettable \in BOOLEAN
        /\ d.period \in 1..(Inf - Horizon) /\ d.maxChecks \in Nat
        /\ d.allowed \subseteq RareSteps
        /\ d.triggers \in Seq(Seq([action : Nat, delay : 0..(Inf - Horizon)]))
        /\ d.multi \in Seq(Seq([action : Nat, conditions : SUBSET DOMAIN d.triggers,
                                delay : 0..(Inf - Horizon)]))
        /\ DOMAIN d.multi = DOMAIN d.triggers
        /\ \A c \in DOMAIN d.triggers : \A i, j \in DOMAIN d.triggers[c] :
                d.triggers[c][i].action = d.triggers[c][j].action => i = j
        /\ \A c \in DOMAIN d.multi : \A i \in DOMAIN d.multi[c] :
                d.multi[c][i].delay > 0 => d.multi[c][i].action \in DOMAIN d.multi[c]

VARIABLES
    design,   \* what the relay was given before the simulation started
    time,     \* time of the simulation
    level,    \* where each condition's quantity is
    relay,    \* the members of Relay, see Init
    since     \* history: since when each condition has been true (or Inf)

vars == <<design, time, level, relay, since>>

Triggers   == design.triggers    \* per condition: its [action, delay], in order
Multi      == design.multi       \* per condition: its [action, conditions, delay]
Continuous == design.continuous  \* CONTINUOUS_FLAG
Resettable == design.resettable  \* RESETTABLE_FLAG
Period     == design.period      \* updatePeriod of a sampled relay
MaxChecks  == design.maxChecks   \* bound: with so many checks nothing adds more
Allowed    == design.allowed     \* which of the rarer steps may happen

Conditions == DOMAIN Triggers

\* Condition::checkCondition, where useMargin has moved the level
Check(l, margin) == l = 2 \/ (l = 1 /\ margin)

\* The conditions that are ACTIVE, or could reset
HasRoot(cState) == cState = "ACTIVE" \/ (cState = "TRIGGERED" /\ Resettable)

RootsOf(cStates) ==
    FoldLeftDomain(LAMBDA s, c : IF HasRoot(cStates[c]) THEN Append(s, c) ELSE s,
                   <<>>, Triggers)

\* The relay after dynInitializeA and B.  Only a continuous relay counts its
\* roots there; every later updateRootCount counts them for a sampled one too.
Init ==
    /\ design \in Designs
    /\ time = 0
    /\ level = [c \in Conditions |-> 0]
    /\ since = [c \in Conditions |-> Inf]
    /\ relay = [cStates        |-> [c \in Conditions |-> "ACTIVE"],
                margin         |-> [c \in Conditions |-> FALSE],
                triggerTimes   |-> [c \in Conditions |-> 0],
                condChecks     |-> <<>>,
                withRoots      |-> IF Continuous
                                   THEN RootsOf([c \in Conditions |-> "ACTIVE"]) ELSE <<>>,
                nextUpdateTime |-> IF Continuous THEN Inf ELSE Period,
                nextSampleTime |-> IF Continuous THEN Inf ELSE Period,
                updates        |-> ~Continuous,
                \* m_nextTime of the relay's adapter in the event queue
                scheduled      |-> IF Continuous THEN Inf ELSE Period,
                \* the handler runs under queuelock_; it waits for itself
                locked         |-> FALSE,
                hung           |-> FALSE,
                \* the triggers and actions that the latest handler added to
                \* triggerCount and actionsTakenCount, and those actions
                count          |-> 0,
                taken          |-> <<>>]

-----------------------------------------------------------------------------
(* Parts of the handlers: operators from a state of the relay to the next. *)

Lesser(a, b) == IF a < b THEN a ELSE b

\* UPDATE_TIME_CHANGE and UPDATE_REQUIRED: EventQueue::recheck and insert,
\* which lock queuelock_.  The mutex is not recursive.
alerted(r) ==
    IF r.locked THEN [r EXCEPT !.hung = TRUE]
    ELSE [r EXCEPT !.scheduled = IF r.updates THEN r.nextUpdateTime ELSE Inf]

\* A handler begins: what the last one did no longer matters.
Begun(r) == [r EXCEPT !.count = 0, !.taken = <<>>]

updateRootCount(r) == [r EXCEPT !.withRoots = RootsOf(r.cStates)]

executeAction(r, a, c, multi) ==
    [r EXCEPT !.count = @ + 1,
              !.taken = Append(@, [action |-> a, cond |-> c, multi |-> multi])]

\* Mutant of addCheck: the relay does not ask for an update.
addCheckSilently(r, check) == [r EXCEPT !.condChecks = Append(@, check)]

\* A delayed action waits in condChecks, and the relay asks for an update.
addCheck(r, check) ==
    LET q == [r EXCEPT !.condChecks = Append(@, check),
                       !.nextUpdateTime = IF r.updates \/ check.multi
                            THEN Lesser(@, check.testTime) ELSE check.testTime,
                       !.updates = @ \/ ~check.multi]
    IN  alerted(q)

\* One entry of actionTriggers: the check holds the position of the entry.
triggerAction(r, c, i, t, minimumDelay) ==
    LET x == Triggers[c][i]
    IN  IF x.delay <= minimumDelay THEN executeAction(r, x.action, c, FALSE)
        ELSE addCheck(r, [cond |-> c, action |-> i,
                          testTime |-> t + x.delay, multi |-> FALSE])

\* One entry of multiConditionTriggers: the check holds the action.
multiConditionCheck(r, c, i, t, minimumDelay) ==
    LET x == Multi[c][i]
    IN  IF \E k \in x.conditions : r.cStates[k] # "TRIGGERED" THEN r
        ELSE IF x.delay <= minimumDelay THEN executeAction(r, x.action, c, TRUE)
        ELSE addCheck(r, [cond |-> c, action |-> x.action,
                          testTime |-> t + x.delay, multi |-> TRUE])

triggerActions(r, c, t, minimumDelay) ==
    FoldLeftDomain(LAMBDA s, i : triggerAction(s, c, i, t, minimumDelay),
                   r, Triggers[c])

multiConditionCheckExecute(r, c, t, minimumDelay) ==
    FoldLeftDomain(LAMBDA s, i : multiConditionCheck(s, c, i, t, minimumDelay),
                   r, Multi[c])

triggerCondition(r, c, t, minimumDelay) ==
    LET q == [r EXCEPT !.cStates[c] = "TRIGGERED", !.margin[c] = TRUE,
                       !.triggerTimes[c] = t, !.count = @ + 1]
    IN  multiConditionCheckExecute(triggerActions(q, c, t, minimumDelay),
                                   c, t, minimumDelay)

\* Mutant of clearCondChecks: nothing is cleared.
clearNoChecks(r, c) == r

checksWithout(checks, c) ==
    FoldLeft(LAMBDA s, x : IF x.cond # c THEN Append(s, x) ELSE s, <<>>, checks)

\* The checks of c are dropped; the update stays where it is or comes earlier.
clearCondChecks(r, c) ==
    LET left == checksWithout(r.condChecks, c)
        times == {left[i].testTime : i \in DOMAIN left} \cup {r.nextUpdateTime}
        first == CHOOSE t \in times : \A u \in times : t <= u
        q == [r EXCEPT !.condChecks = left, !.nextUpdateTime = first]
    IN  IF first # r.nextUpdateTime THEN alerted(q) ELSE q

cleared(r, c) == [r EXCEPT !.cStates[c] = "ACTIVE", !.margin[c] = FALSE]

\* The delayed action of a single condition: the check's position is used as
\* the number of an action.
singleDue(r, x) == executeAction(r, x.action, x.cond, FALSE)

\* Mutant of multiDue: it does not ask for how long the conditions hold.
multiDueAtOnce(r, x, t) ==
    LET m == Multi[x.cond][x.action]
    IN  IF \A k \in m.conditions : r.cStates[k] = "TRIGGERED"
        THEN executeAction(r, m.action, x.cond, TRUE) ELSE r

\* The delayed action of several conditions: the check's action is used as a
\* position of multiConditionTriggers.
multiDue(r, x, t) ==
    LET m == Multi[x.cond][x.action]
        unset == {k \in m.conditions : r.cStates[k] # "TRIGGERED"}
        young == {k \in m.conditions : t - r.triggerTimes[k] < m.delay}
        first == CHOOSE k \in unset \cup young : \A j \in unset \cup young : k <= j
    IN  IF unset \cup young = {}
          THEN executeAction(r, m.action, x.cond, TRUE)
        ELSE IF first \in unset THEN r
        ELSE [r EXCEPT !.condChecks =
                Append(@, [x EXCEPT !.testTime = r.triggerTimes[first] + m.delay])]

\* A check whose time has come: is the condition still true?
evaluateCondCheck(r, x, t, l) ==
    IF t >= x.testTime
    THEN IF ~Check(l[x.cond], r.margin[x.cond]) THEN updateRootCount(cleared(r, x.cond))
         ELSE IF x.multi THEN multiDue(r, x, t) ELSE singleDue(r, x)
    ELSE IF r.cStates[x.cond] = "TRIGGERED" THEN [r EXCEPT !.condChecks = Append(@, x)]
    ELSE r

\* The loop of updateA and powerFlowAdjust over the conditions
sampleOne(r, c, l, t, minimumDelay) ==
    IF r.cStates[c] = "ACTIVE" /\ Check(l[c], r.margin[c])
    THEN triggerCondition(r, c, t, minimumDelay) ELSE r

sample(r, l, t, minimumDelay) ==
    FoldLeftDomain(LAMBDA s, c : sampleOne(s, c, l, t, minimumDelay), r, Triggers)

\* updateA at the time of a sample
sampleDue(r, l, t) ==
    LET s == sample(r, l, t, 0)
        next == s.nextSampleTime + Period
    IN  [s EXCEPT !.nextSampleTime = next, !.nextUpdateTime = Lesser(@, next)]

\* The first loops of updateA: the checks that are due, the earliest of the rest
evaluateCondChecks(r, checks, t, l) ==
    FoldLeft(LAMBDA s, x : evaluateCondCheck(s, x, t, l), r, checks)

earliestCheck(r) ==
    FoldLeft(LAMBDA u, x : Lesser(u, x.testTime), r.nextUpdateTime, r.condChecks)

\* Relay::updateA
updateA(r, l, t) ==
    LET start == [Begun(r) EXCEPT !.condChecks = <<>>, !.nextUpdateTime = Inf]
        due == evaluateCondChecks(start, r.condChecks, t, l)
        waiting == [due EXCEPT !.nextUpdateTime = earliestCheck(due)]
    IN  IF Continuous THEN sample(waiting, l, t, 0)
        ELSE IF t >= r.nextSampleTime THEN sampleDue(waiting, l, t)
        ELSE waiting

\* Mutant of rootStep: a condition that could reset does not advance the
\* offset of the roots.
rootStepNoOffset(s, c, t, mask) ==
    IF s.r.cStates[c] = "ACTIVE"
    THEN [r |-> IF s.position \in mask THEN triggerCondition(s.r, c, t, 0) ELSE s.r,
          position |-> s.position + 1]
    ELSE IF s.r.cStates[c] = "TRIGGERED" /\ Resettable /\ s.position \in mask
    THEN [s EXCEPT !.r = clearCondChecks(cleared(s.r, c), c)]
    ELSE s

\* The loop of rootTrigger: position follows rootOffset.
rootStep(s, c, t, mask) ==
    IF s.r.cStates[c] = "ACTIVE"
    THEN [r |-> IF s.position \in mask THEN triggerCondition(s.r, c, t, 0) ELSE s.r,
          position |-> s.position + 1]
    ELSE IF s.r.cStates[c] = "TRIGGERED" /\ Resettable
    THEN [r |-> IF s.position \in mask THEN clearCondChecks(cleared(s.r, c), c)
                                       ELSE s.r,
          position |-> s.position + 1]
    ELSE s

rootSteps(r, t, mask) ==
    FoldLeft(LAMBDA s, c : rootStep(s, c, t, mask),
             [r |-> Begun(r), position |-> 1], r.withRoots).r

\* Relay::rootTrigger.  mask is the set of the positions of withRoots at
\* which the solver found a root.
rootTrigger(r, t, mask) == updateRootCount(rootSteps(r, t, mask))

-----------------------------------------------------------------------------
(* Steps                                                                   *)

\* since follows the truth of the conditions.
Watch(l, r) ==
    since' = [c \in Conditions |->
                IF ~Check(l[c], r.margin[c]) THEN Inf
                ELSE IF since[c] = Inf THEN time ELSE since[c]]

Running == ~relay.hung

\* Time goes on, never past an update that is scheduled.
advance ==
    /\ Running /\ time < Horizon /\ relay.scheduled > time
    /\ time' = time + 1
    /\ relay' = Begun(relay)
    /\ UNCHANGED <<design, level, since>>

\* The grid moves without a jump: the solver stops at every root it crosses
\* and calls rootTrigger.
gridMoves(l) ==
    LET flips(c) == Check(l[c], relay.margin[c]) # Check(level[c], relay.margin[c])
        mask == {p \in DOMAIN relay.withRoots : flips(relay.withRoots[p])}
        r == IF mask # {} THEN rootTrigger(relay, time, mask) ELSE Begun(relay)
    IN  /\ Running /\ l # level /\ relay.scheduled > time
        /\ \A c \in Conditions : l[c] - level[c] \in -1..1
        /\ level' = l
        /\ relay' = r
        /\ Watch(l, r)
        /\ UNCHANGED <<design, time>>

\* The grid jumps (an event, a switch, a power flow): no root is found.
gridJumps(l) ==
    /\ Running /\ "jump" \in Allowed
    /\ l # level
    /\ level' = l
    /\ relay' = Begun(relay)
    /\ Watch(l, relay)
    /\ UNCHANGED <<design, time>>

\* A continuous relay has no period: its updatePeriod stays maxTime.
UpdatePeriod == IF Continuous THEN Inf ELSE Period

\* Mutant of updateB: the period is added without a test.
updateBAlways(r, t) == [r EXCEPT !.nextUpdateTime = @ + UpdatePeriod]

\* CoreObject::updateB: the loop goes to the first time after t.
updateB(r, t) ==
    IF r.nextUpdateTime > t THEN r
    ELSE [r EXCEPT !.nextUpdateTime =
            @ + ((t - @) \div UpdatePeriod + 1) * UpdatePeriod]

\* The event queue executes the relay's adapter under queuelock_: updateA,
\* updateB, and the adapter takes the new time.  If updateA waits for the
\* lock, nothing runs any more; what it has done before is left out.
update ==
    LET r == updateB(updateA([relay EXCEPT !.locked = TRUE], level, time), time)
        done == IF r.hung THEN [Begun(relay) EXCEPT !.hung = TRUE]
                ELSE [r EXCEPT !.scheduled = r.nextUpdateTime, !.locked = FALSE]
    IN  /\ Running /\ relay.scheduled <= time
        /\ relay' = done
        /\ Watch(level, done)
        /\ UNCHANGED <<design, time, level>>

\* Relay::rootCheck
rootCheck ==
    LET r == updateA(relay, level, time)
    IN  /\ Running /\ "rootCheck" \in Allowed
        /\ relay' = IF r.count # 0 THEN updateRootCount(alerted(r)) ELSE r
        /\ Watch(level, r)
        /\ UNCHANGED <<design, time, level>>

\* Relay::powerFlowAdjust: every action is taken at once.
powerFlowAdjust ==
    LET r == sample(Begun(relay), level, time, Inf)
    IN  /\ Running /\ "powerFlowAdjust" \in Allowed
        /\ relay' = r
        /\ Watch(level, r)
        /\ UNCHANGED <<design, time, level>>

\* Relay::setConditionStatus.  A condition that is made TRIGGERED so takes no
\* action and keeps the time of its latest trigger.
setConditionStatus(c, status) ==
    LET q == [Begun(relay) EXCEPT !.cStates[c] = status]
        r == updateRootCount(IF status = "DISABLED" THEN clearCondChecks(q, c)
                             ELSE [q EXCEPT !.margin[c] = (status = "TRIGGERED")])
    IN  /\ Running /\ "setConditionStatus" \in Allowed
        /\ relay' = r
        /\ Watch(level, r)
        /\ UNCHANGED <<design, time, level>>

Next ==
    \/ advance \/ update
    \/ \E c \in Conditions, s \in {"ACTIVE", "TRIGGERED", "DISABLED"} :
            setConditionStatus(c, s)
    \/ /\ Len(relay.condChecks) < MaxChecks
       /\ \/ rootCheck \/ powerFlowAdjust
          \/ \E l \in [Conditions -> 0..2] : gridMoves(l)
          \/ \E l \in [Conditions -> 0..2] : gridJumps(l)

Spec == Init /\ [][Next]_vars

-----------------------------------------------------------------------------
(* Properties                                                              *)

\* condCheckTime: the place of an action in the triggers of its condition (of
\* several conditions: the number of the action), and when to look again
CondChecks == [cond : Conditions, action : Nat, testTime : 0..Inf, multi : BOOLEAN]

ActionsTaken == [action : Nat, cond : Conditions, multi : BOOLEAN]

RelayStates ==
    [cStates        : [Conditions -> {"ACTIVE", "TRIGGERED", "DISABLED"}],
     margin         : [Conditions -> BOOLEAN],
     triggerTimes   : [Conditions -> 0..Horizon],
     condChecks     : Seq(CondChecks),
     withRoots      : Seq(Conditions),
     nextUpdateTime : 0..Inf,
     nextSampleTime : 1..Inf,
     updates        : BOOLEAN,
     scheduled      : 0..Inf,
     locked         : BOOLEAN,
     hung           : BOOLEAN,
     count          : Nat,
     taken          : Seq(ActionsTaken)]

TypeOK ==
    /\ design \in Designs
    /\ time \in 0..Horizon
    /\ level \in [Conditions -> 0..2]
    /\ since \in [Conditions -> 0..Inf]
    /\ relay \in RelayStates

Taken == {relay.taken[i] : i \in DOMAIN relay.taken}

\* A continuous relay that can reset takes an action with a delay only after
\* its condition has been true for the whole of the delay.  (The designs it is
\* checked on allow no jump and no setConditionStatus: a jump clears a condition
\* without a root, and the check at the end of the delay sees only how the
\* quantity stands then.)
HeldForDelay ==
    Continuous /\ Resettable => \A x \in Taken : ~x.multi =>
        \A i \in DOMAIN Triggers[x.cond] :
            Triggers[x.cond][i].action = x.action
                => since[x.cond] + Triggers[x.cond][i].delay <= time

\* An action of several conditions is taken only after all of them have been
\* true together for the whole of its delay, however often one of them was
\* cleared and triggered again while the check waited.  (Checked on the same
\* designs as HeldForDelay: a jump clears a condition unseen, and
\* setConditionStatus makes one TRIGGERED without a trigger time.)
HeldTogether ==
    \A x \in Taken : x.multi =>
        \A i \in DOMAIN Multi[x.cond] :
            Multi[x.cond][i].action = x.action =>
                \A c \in Multi[x.cond][i].conditions :
                    since[c] + Multi[x.cond][i].delay <= time

\* A check of a continuous relay is never scheduled late: the adapter of the
\* relay is in the event queue at the time of the earliest check or before,
\* although updateA forgets the update time and builds it anew.  (A sampled
\* relay whose samples are behind is outside: there updateB passes a check.)
ChecksScheduled ==
    Continuous => \A i \in DOMAIN relay.condChecks :
        relay.scheduled <= relay.condChecks[i].testTime

\* No handler waits for the mutex that its own thread holds: an alert that a
\* relay raises while the event queue runs its update must return.
NoSelfLock == ~relay.hung

\* When the solver stops at a root, every ACTIVE condition that has become
\* true there is triggered.
RootsTrigger ==
    [][Continuous /\ (\E l \in [Conditions -> 0..2] : gridMoves(l)) =>
        \A c \in Conditions :
            /\ relay.cStates[c] = "ACTIVE" /\ ~Check(level[c], relay.margin[c])
            /\ Check(level'[c], relay.margin[c])
            => relay'.cStates[c] = "TRIGGERED"]_vars

\* A condition that is DISABLED takes no action and none of its checks wait.
DisabledIsSilent ==
    \A c \in Conditions : relay.cStates[c] = "DISABLED" =>
        /\ \A x \in Taken : x.cond # c
        /\ \A i \in DOMAIN relay.condChecks : relay.condChecks[i].cond # c
=============================================================================
