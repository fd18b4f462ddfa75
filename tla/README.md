# A TLA+ development of GridDyn

GridDyn simulates power transmission grids: it solves for a power flow, integrates the dynamics of
generators, loads and controls with a DAE solver, and interrupts that integration for events,
sampled controls, recorders and protection. The equations are out of reach of a model checker.
What is in reach, and hard to test, is everything that depends on the *order* of things: which
event is served when, where the solver may go before an event that moves, what a relay or a breaker
does when a fault clears and comes back, what becomes of a request whose table entry is reused, what
threads do to each other's clones of the grid. This directory models that part.

Paths below are relative to `src/src/griddyn/` unless they start with `src/`.

## 1. The parts of the system

| part | state it keeps | operations | who it meets | what is hard | what makes it correct |
|---|---|---|---|---|---|
| **event queue** `events/EventQueue`, `EventAdapters` | sorted vector of adapters, `partB_list`, null event, mutex | insert, remove, recheck, nullEventTime, executeEvents, A pass, B pass | drivers, every object that raises an update alert | two passes with other calls between them; the vector is unsorted between passes; adapters that move their own time | every due event served, none early, none twice; the front is the earliest |
| **drivers** `simulation/gridDynPowerFlow`, `gridDynDynamic` | current time, stop times, solver state | eventDrivenPowerflow, dynamicDAE, dynamicPartitioned, run, step | queue, solvers, root checks | events that move while the solver is under way; resets that run events early; a power flow that fails half-way | no event is passed, time goes forward, the loop ends |
| **alerts** `simulation/GridSimulation`, `primary/GridArea` | pending change flags | alert, network check | all objects | alerts raised inside handlers, under the queue's lock | a changed update time reaches the queue; a changed layout reaches the solver |
| **control relay** `relays/ControlRelay` | table of delayed actions, instruction counter | receiveMessage (SET, GET, CANCEL, ...), executeAction | communicator, queue | entries reused while adapters name them by index; CANCEL racing execution; ids that collide | no request lost, doubled, or taken after its cancellation |
| **relay** `Relay.h`, `relays/Relay.cpp` | condition states, margins, trigger times, pending checks, root list, sample time | updateA, rootTrigger, rootCheck, powerFlowAdjust, setConditionStatus, triggers | root finder, queue, actions | delayed and multi-condition actions; sampling and checks share one update time; root numbering | actions only after their delay; nothing waits unscheduled; no root missed |
| **breaker** `relays/Breaker` | trip and limit flags, reclose count and times, the integral of the curve | conditionTriggered, conditionCleared, updateA, tripBreaker, resetBreaker, rootCheck, timestep | Relay, the switch of a link | a reclose that trips inside itself; three ways of watching, armed in five places | bounded attempts that wait, no trip before the clearing time, never blind |
| **contingency analysis** `simulation/Contingency`, `gridDynContingency` | lists of contingencies, events, promises, results | build lists, run on threads, report with time-outs | clones of the simulation, work queue | threads that share events; results read by another thread; time-outs against late results | each contingency solved with its own outages and reported |
| **other protection relays** `relays/Fuse`, `DifferentialRelay`, ... | curves, zones | set up conditions and delays | Relay | as Relay | as Relay |
| **events, players** `events/Event`, `Player`, ... | target, value list, position | trigger, updateEvent | queue | several points at one time | each point applied once and in order |
| **measurement** `measurement/` | columns, recorder buffers, conditions | trigger, sample, checkCondition | queue, relays | sampling after the step it measures | a sample per period |
| **communications** `comms/` | names, ids, receive queue | register, send, receive | control relay, schedulers | delivery inside a handler | a message reaches its addressee |
| **controllers** `controllers/` | target list, ramps, reserve | updateA, setTarget, dispatch | queue, generators | a target list edited while followed | the ramp meets its target |
| **recoveries** `simulation/*Recovery` | attempt number | attempt | solvers, breakers | retry after a change | attempts end |
| **runner, server, co-simulation** `src/src/runner`, `helics`, `fmi`, `networking` | run state, links | run, step, stop, exchange | simulation | asynchronous runs | one run at a time |
| **models, solvers, input** | real-valued state, files | residuals, parsing | everything | numeric | out of scope |

The core is the queue: every discrete part of a dynamic simulation acts through it. Objects change
their `nextUpdateTime` and raise `UPDATE_TIME_CHANGE` or `UPDATE_REQUIRED`; the alert climbs the object
tree to `GridSimulation::alert`, which calls `EventQueue::recheck` or `insert`. The contingency
analysis stands beside it: it is the one place where the repository's own code runs in several threads.

## 2. Modules

| module | models | theorems in |
|---|---|---|
| `EventQueue` | the queue, the four kinds of adapter, and the calls the drivers make | `EventQueueProofs`, `EventQueuePairing` |
| `EventAgenda` | the abstract agenda of timed events that `EventQueue` implements | `EventQueuePairing` |
| `ControlRelay` | the table of delayed control actions and the relay's view of the queue | `ControlRelayProofs` |
| `RequestService` | the abstract service that `ControlRelay` implements | `ControlRelayProofs` |
| `Relay` | conditions, delayed actions, sampling and roots of one relay | `RelayProofs` |
| `Breaker` | trip, reclose and lock-out of a breaker on a link | `BreakerProofs` |
| `DynamicDAE` | the loop of `dynamicDAE` between the solver and the queue | `DynamicDAEProofs` |
| `ContingencyList` | the lists of contingencies of each mode, for any grid | `ContingencyListProofs` |
| `Contingency` | the threads that run contingencies and the one that writes the report | `ContingencyProofs` |
| `ContingencyAnalysis` | the two together: what the analysis of a grid in a mode reports | `ContingencyListProofs` |
| `MC...` | small instances for TLC (`ControlRelay` is instantiated by its configurations directly) | |

How they fit together: `DynamicDAE` uses the queue through what `EventQueue` shows of it (the front
is the earliest, what is due is served); `ControlRelay`, `Relay` and `Breaker` are objects behind
adapters of the queue, each with the part of the queue it meets; `ContingencyAnalysis` composes
`ContingencyList` with `Contingency`.

Definitions have the names of the functions they model. An operator whose comment begins "Mutant of"
is a plausible mistake in the definition that follows it; no specification uses it. Each property is
known to fail when the mutant listed for it in `PROJECT.json` replaces its original.

### EventQueue

`events` is the vector, `partB` is `partB_list`, `nextTime`, `removeEvent` and `partBturn` are
members of the adapters, `ownNext` and `ownLast` the update times of the objects behind them. `call`
says which of the driver's calls is running or next, `pass` which pass holds the mutex and `pos` where
its iterator is. A pass is several steps (`beginA`, one step for each due adapter, `endA`; likewise B),
because its order matters; nothing else can run inside it, because it holds the mutex. Between the passes
of one driver step, users may insert and remove. Objects change their update times, with the alert that this raises, between
the driver's steps and in the power flow that `eventDrivenPowerflow` runs between the two passes; `executeEvents` runs
no object between its passes. `overtaken` is history: the adapters whose object did so while their part B was waiting.
`executeA` is the `updateA` of `CoreObject`; a class that moves its own update time in part A is modelled on its own (`Relay`, `Breaker`).
`nullPeriod` is `m_period` of the null event, which `nullEventTime` sets or keeps. Sorting is any sorted arrangement for `std::sort` and the stable one for `std::stable_sort`;
`checkDuplicates` drops only neighbours, as `std::unique` does. With `Failing`, `powerflow` may fail, which makes
the driver return with the part B of due events undone.

`partBdelay` is modelled although nothing in the repository sets it, and `remove(id)` although
nothing calls it: both are public operations of the queue.

`EventAgenda` is what users of the queue may rely on, without vector, passes, lists and flags: planned events with their times, a
clock that never goes past one, and after every move of the clock a phase in which each due event is served once, leaves
the agenda or moves to a later time. `EventQueue` maps to it as follows. Planned are the adapters in the vector that are
not flagged (`Unflagged`): a flagged one is over, although it lies in the vector until `endA`. A delayed one-shot is never erased and runs again
(section 5); it is flagged, so the mapping does not see that, and `EventAgenda` says nothing about it. `phase` is "called" from the driver's step to the lock of the A pass and "serving"
until the end of the B pass. An object is served by its part B, or by its part A when its part B is delayed, since that
one is planned again. An event removed between the two parts is still served, because `partB_list` keeps it. `insert` may drop an adapter only if a twin,
an adapter of the same object, that is not later stays; `recheck` and `nullEventTime` move every kind but functions, whose time is their own.

### ControlRelay and RequestService

`actions` is the vector of `DelayedControlAction`; `getFreeAction` and its resize are translated as
they are, because reuse is the point. An adapter keeps the index of its entry (the lambda's capture)
and, as history, the request it was made for. Each branch of `receiveMessage` is an action; requests
arrive when no pass holds the queue's mutex. The queue is reduced to what matters here:
SET adapters run in the A pass and are erased, GET adapters are DELAYED, run in the B pass and are
*not* erased. `measureDelay` is 0 because nothing sets it. `setState` and `timestep` carry the
simulation time to `prevTime` before events execute. What the answer messages say is left out, except
that CANCEL_SUCCESS is remembered.

`RequestService` says what a client may rely on: a request is pending, then taken or cancelled, then
left alone, and one step concerns one request. The refinement mapping is `clientStatus`, which reads the
status of a request from the table, the actions taken and the cancellations; entries, indices, adapters
and passes are invisible.

### Relay

A handler of the relay runs to its end while the grid stands still, so a handler is one step, written
as a composition of operators from one state of the relay (a record) to the next; loops are folds.
A condition is abstracted to where its quantity is: below the margin, within it, or beyond the level.
`gridMoves` is a continuous movement, in which the solver stops at a root to call
`rootTrigger`; a sampled relay has no roots at first, but every `updateRootCount` after the start (a root check, a change of
status) gives it some, as in the code. `setConditionStatus` sets any of the three states. `gridJumps` is a change without a root (a switch, a new power flow). The relay's
adapter in the queue is the one number `scheduled`; `locked` says that the handler runs under the
queue's mutex, and `hung` that it has tried to take it again. `since` is history: since when a
condition has been true. In the code positions and action numbers count from 0, here from 1.

### Breaker

A breaker without an update period, as every breaker is unless one is set, is not in the event queue:
it looks at its clearing and reclose times when the simulation calls `rootCheck`. The integral of the
inverse-time curve is reduced to the side of the two levels (1 and -0.5) on which it is; `foundAt` is history, the time at which the current was found over the
limit. `resetBreaker`
may meet the fault again and trips inside itself, as in the code. The asserts on `OVERLIMIT_FLAG` are kept
as a member that remembers whether one failed.

### DynamicDAE

`pc` is where `dynamicDAE` is; `currentTime`, `timeReturn`, `nextStop`, `nextStopTime`, `tstep` and
`smStep` are its variables, `next` the times of the adapters. The solver may reach its stop, a root, any
time between, or fail, and the initial conditions may come out in every way their interface allows.
Objects may move their updates and raise change flags whenever they act: at roots, in root checks, in
events and in the low-voltage checks after an invalid state or before initial conditions. A reset first runs the events within `probeStepTime`. Times count in ticks of `timeTol`.

### ContingencyList and Contingency

`ContingencyList` is the builder as pure operators of a grid, which is known by how many lines, generators and loads it has. An event carries the contingency that it was made
for, which tells a copy of the pointer (`mergeIfUnique`) from a copy of the event (`clone`).
In `Contingency` a simulation is the set of elements that events took out of service, 0 is
the master and `c` the clone of contingency `c`. `target` is `m_obj` of each event: `updateObject`,
`trigger` and the second `updateObject` of `execute` are three steps, between which other threads run.
The thread of the analysis hands out blocks and then writes the report: `main` and `pos` say where it is. A wait
of five seconds (for file output; to a database nothing is written and the analysis returns at once) may end with a time-out whenever the contingency has not finished, and the
contingency may finish before `isFinished` is asked again. The work queue is external: it gives blocks out in order.
`ContingencyAnalysis` says that the list of an analysis is the one that `buildContingencyList` makes for its grid and mode
(`ListAssumption`), and states what no part says alone: `ListCovers`, that the list has what the mode promises, and `ReportComplete`, that
the report of a complete run without time-outs shows exactly that.

## 3. Runs

| run | result | what it shows |
|---|---|---|
| `EventQueue_core` | holds | an Event, two adapters of one object and the null event, with a tolerance of one unit, in all interleavings with inserts and removals between any two passes and with update alerts between steps and in the power flow between the passes: the front is the earliest, what is due is served, never early (but for a part B that waits while its object asks for a later time), one-shots fire once, no update is lost (but that of an object which moves its time while its part B waits), the queue implements `EventAgenda`, and under fairness an Event in the queue fires |
| `EventQueue_faults` | holds | failing power flows, alerts between the parts, a null event with a period, a function, a delayed recorder and an object with a delayed part B: the null event survives every erase (that immediate one-shots still fire once is proved: `FiresOnceOnly`) |
| `ControlRelay_set` | holds | immediate and scheduled SETs, immediate GETs: actions are not taken early and all are taken |
| `ControlRelay_cancel` | holds | with scheduled GET and CANCEL between any passes and client ids that collide with the relay's: nothing lost, doubled or taken after CANCEL_SUCCESS; the relay implements `RequestService` |
| `ControlRelay_reuse` | **violated** | a SET in an entry freed by CANCEL is taken at the time of the cancelled action |
| `Relay_conditions` | holds | a continuous relay that can reset, one that cannot and whose conditions are set to every status, and a sampled one with a delayed action that jumps, root checks, power flow adjustments and status changes reach: delays and joint delays are kept, no check of a continuous relay is scheduled late, no root is missed, a disabled condition is silent |
| `Relay_lock` | **violated** | a sampled relay with a delayed action alerts inside its update and waits for the mutex its own thread holds |
| `Breaker_reclose` | holds | breakers that trip at once, after a clearing time and by the curve, with faults that come and go: the asserts hold, a closed breaker is never blind, recloses wait and are bounded, and no trip comes before the clearing time is over |
| `Breaker_limit` | **violated** | a breaker with a clearing time recloses once more than `mMaxRecloseAttempts` |
| `DynamicDAE_dae` | holds | every outcome of solver and initial conditions, low-voltage checks, and resets that run events early, also one with a period no longer than the probe: no event is passed, the solver goes forward, events run on time, the clock does not run back, and the loop ends |
| `DynamicDAE_reset` | **violated** | change flags raised in an object's update are not looked at before the solver goes on |
| `Contingency_parallel` | holds | all five modes on one, two and three threads with time-outs, to a file and to a database: the lists are complete and share events only in mode N-3-LINE, the report of a complete run shows the outages that the mode promises, contingencies do not disturb each other or the master, no event dangles, the report is final, no contingency asked for is missing from it (`NoneMissed` names the exceptions), and the analysis ends |

Type invariants are proved (section 4) and not run again.
Delayed Collectors and delayed parts B are in the faulty run only. The safety properties of the other run hold for them too, by the theorems
of section 4, except `NoLostUpdate` with a delayed part B (hypothesis `Prompt`); the liveness is checked without them.
The four violations are listed with their sources under `findings` in `PROJECT.json`.

### Bounds

* `Horizon` is the last time. Periods and delays are 1 or 2 (4 once), so that horizons of 2 (queue), 3 or 4
  (control relay), 6 (relay) and 8 (breaker: two reclose cycles and a reset) see an event served, moved
  and served again, an entry filled, freed, filled and freed again, and a condition trigger, clear and
  trigger within one delay. The queue's interleavings inside one driver step are far more than those
  over time, which is why its horizon is short.
* `Inf` stands for `maxTime`; it only has to exceed every time that can be computed.
* Three adapters besides the null event are enough for an event before, at and after the iterator.
* `MaxPending` bounds the parts B a failed power flow leaves, `MaxRequests` the messages a relay
  receives (4: two entries and two reuses), `maxChecks` the checks that wait before the grid may move.
  `ClientIds` is `{2}` where ids are to collide with `instructionCounter`.
* `Tol` (`timeTols`) is 0 or 1, so that events just after the current time count as due in some runs.
* `DynamicDAE`: `tStop` 6 with a tolerance of 1, small steps below 2, a probe of 2, a relay with a period of 2 (no longer than the probe, so that
  a reset runs it twice), one small step allowed
  (10 in the code) and two roots or moved updates: enough for an event that is moved, a reset
  that runs it early and a solver that stalls, in one run.
* `Contingency`: three lines and a generator, or four lines, give three to six contingencies in most modes and twelve or
  more in N-1-1 and N-3-LINE, of which `count1` keeps three or four; four time-outs (`MaxTimeouts`) are enough for contingencies that are found late and
  counted twice while others are still missing.

`CHECK_DEADLOCK FALSE` everywhere: a simulation stops at its stop time, an analysis when its report is written.

### Fairness

`FairSpec` of `EventQueue` and `ControlRelay` is weak fairness of the driver and of the steps of a pass: one thread
runs the loop of `eventDrivenPowerflow` or `dynamicDAE` to the stop time and a pass has no blocking call.
Nothing is assumed of users, messages or the grid. `FairSpec` of `DynamicDAE` is weak fairness of the loop itself,
which is one thread; that roots are finitely many is the bound `MaxRoots`, not fairness (a return at a root is not counted as a step without progress, so the code itself does not end if roots repeat for ever). `FairSpec` of `Contingency`
is weak fairness of the analysis and of each thread of the pool: threads are scheduled, a power flow returns, and no
lock is held while waiting. A time-out is never forced and never excluded.

## 4. What is proved

With TLAPS, for every value of the constants that the named assumptions allow (`AdapterAssumption`,
`TimeAssumption`, `RelayAssumption`, `BreakerAssumption`, `DynamicAssumption`, `JobAssumption`, `ListAssumption`: types,
positive periods and tolerances, `Inf` beyond every time that is computed, nonempty finite pools). `DynamicAssumption` also asks for a probe,
a small step and periods longer than the tolerance `timeTol`; the code sets the first two so, and does not reject a shorter period. All theorems
are listed in `PROJECT.json`.

* **EventQueueProofs**: `TypeCorrect` and `NeverEmpty` (no adapter twice in the vector, the null event always in it, with
  any faults). `Delivery` and `EarliestFirst`: unless a power flow fails between the passes, the front is the earliest event
  between driver steps and everything due when the A pass took the lock has been executed. `DeliveryInv` is
  needed because neither fact is inductive: while a pass runs only the part of the vector ahead of the iterator is
  sorted (`OrderInv`), and an adapter still owed its execution is ahead of the iterator or in `partB_list` (`OwedInv`).
* **EventQueuePairing**: `FiresOnceOnly`, `Pairing`, `Punctual`: an immediate one-shot fires at most once, each part A has
  one part B, nothing runs early. `OnceInv` says that what has
  fired is flagged and about to be erased, or gone; `PairInv` that `partB_list` is empty between steps and holds, without
  repetition, adapters that the A pass has passed; `LateInv` that what waits for its part B is due. `UpdatesKept`
  (`NoLostUpdate`): no adapter of an object is scheduled after the update that the object asks for, with any number of adapters
  for one object and alerts between the passes, unless a power flow fails; excepted are the adapters in `overtaken`, which the code parks at `maxTime`. The invariant `AskedInv` adds that an object whose
  part B waits had its part A no earlier than its time, which is why `updateB` moves it past the update just made and does
  not leave it at `maxTime`; two adapters of one object keep it because the A pass visits them in time order. The hypothesis
  `Prompt` is that parts B of objects are not delayed, as nothing sets `partBdelay`. `AgendaKept`: unless a power flow fails,
  `EventQueue` implements `EventAgenda`, for any adapters, with duplicates and delayed parts B; `AgendaStep`
  takes every action to a step of the agenda or a stutter. Beyond the invariants above it needs `FlagInv` (only what runs once is flagged, and not
  before it was inserted, so a new event is planned and a twin is never flagged) and `DebtInv` (what a pass has still to run is owed, so that nothing is
  served twice). `ExecuteLater` shows that execute() moves an event forward or flags it; `TwinKept`, by the least position of a run of
  duplicates, that `checkDuplicates` keeps the earliest.
* **ControlRelayProofs**: `TypeCorrect`, `RequestsKept`, `TakenOnce`, `CancelHolds`, `PendingServed`. `IInv` says that `partB` is
  empty outside the passes that use it, that nothing has happened to requests not received yet, and that a pending entry belongs to
  exactly one received request that is neither taken nor cancelled. The last is what makes reuse safe: a stale
  adapter may run an entry early, but the entry it runs has exactly one pending request. `TakenWhenDue` (`NotBeforeDue`) is the
  other side: while clients send neither CANCEL nor a GET for later (`Direct`), every adapter in the queue is the one of
  the request in its entry (`Owns`), so no action is taken before its time. Either message leaves an adapter
  behind, and `ControlRelay_reuse` shows what follows for CANCEL. `Refinement`: `ControlRelay` implements `RequestService` under `clientStatus`; every action is shown to
  be a step of one request or a stutter.
* **RelayProofs**, for every design (any conditions, actions, delays, shared actions and actions of several conditions). The handlers
  are folds, and the library's induction theorems cannot be used, so the module first proves, from the well-foundedness of the
  naturals, an induction in which the predicate is a set and the step of a fold is a function (`SetInduction`, `FoldExists`,
  `FoldSteps`); each fold of `Relay` is an instance. On these stand:
  * `RelayInvariant`, `TypeCorrect`, `DisabledStaysSilent`: for all designs and all orders of handlers. `Handled` is the set of states
    inside a handler, whose parts are each shown to stay in it.
  * `ChecksOnTime`: the queue has a continuous relay for its first check or before. The hypothesis `SinglesFirst` is that
    a delayed action of several conditions goes with one of its condition alone, because `multiConditionCheckExecute` does not turn updates on.
    Nothing is claimed of the samples of a sampled relay, which the code can lose (section 5).
  * `RootsAlwaysTrigger`: for relays that can reset, every condition at a root that the solver found is triggered. `ExactInv` says
    that `withRoots` is the list of conditions that have a root, each once, so that the offsets which `rootTest` and `rootTrigger`
    count are the same. A relay that cannot reset is left out: `rootTrigger` does not count its triggered entries as `rootTest` does (section 5).
  * `DelaysAreHeld`, `TogetherIsHeld`: an action, of one condition or of several, is taken only after its delay has passed with its conditions true
    throughout. `HeldInv` relates what the relay remembers, the grid and the history: a condition is TRIGGERED exactly
    while it is true, since `triggerTimes`, and every check was added then. `Calm` is a continuous relay that can reset whose conditions
    change at roots; after a jump the relay learns of a change late, and the statement would be about what it has seen. `Straight` (actions are
    numbered as they are placed) is needed because the check keeps a position and uses it as a number; `Separate` (actions of
    several conditions are delayed and have different numbers) because the history names an action by its number.
  * `LockNotAwaited` (`NoSelfLock`): where what `Relay_lock` shows cannot happen. A handler under the lock of the queue waits for it only if it
    alerts, which only a new check does. `updateA` adds none in a relay without delays (`AtOnce`), and none in a `Calm` one, whose
    conditions have triggered at their roots before `updateA` looks at them. TLC finds the hang in a continuous relay after a jump, so `Calm`
    cannot be dropped.
  `MCShared` of `MCRelay` satisfies `SinglesFirst`, `Calm`, `Straight` and `Separate`.
* **BreakerProofs**: `TypeCorrect`, `Asserts`, `Clearance`, `Vigilance`, `Lockout`, `Patience`. `IInv` adds to the properties which
  conditions are armed in each mode of watching (`Watch`), that an open breaker with an attempt left has its reclose time
  set (`Waits`), how the count of attempts bounds the recloses made (`Counts`), and that a closed breaker that knows of a fault has its update
  no earlier than the clearing time after it was found (`Clears`).
* **DynamicDAEProofs**: `TypeCorrect`, `NoEventPassed`, `StopAhead`, `Punctual`, `ForwardClock`. `IInv` adds that clock and
  solver are within the tolerance of each other (`Near`), what each place of the loop knows about the next times (`Places`:
  an object may move an update to before the stop, not to before the solver) and the counters' limits (`Counters`).
* **ContingencyProofs**: `TypeCorrect`, `Isolation`, `MasterKept`, `NoDanglingTarget`, `FinalReport`, `CompleteReport`, for any
  lists, any number of threads and any time-outs. One half of the invariant is about the threads: each has a
  contingency of its own, stands at a place of it and has done to its clone exactly what stands before that place; an event
  that does not point to the master is in the hands of the thread whose clone it points to. The other half is about
  the report: every contingency that has had its turn is written or late, lines and time-outs together are as many as turns, and
  the contingencies that were found late are counted apart (`CompleteReport` says of each contingency asked for that it has a line, unless it timed out itself and
  as many others as asked for have one, or one that was found late was counted twice).
  `Isolation` and `MasterKept` hold unless two threads may have one Event (`Shared`).
* **ContingencyListProofs**: `CompleteLists` (`ListCovers`): for every number of lines, generators and loads the list of each mode has exactly the
  outages that the mode promises, and contingencies share no Event except in mode N-3-LINE; for N-2 the list has nothing but pairs, and all pairs of lines.
  The lists are concatenations of lists, so the argument is an induction (`SetInduction`, over a set in place of a predicate) about
  `Lists(f, C)`: the sequence has the members of C, each once. `FlattenLists` carries it over a concatenation; the `...Made` lemmas give the set
  of contingencies of each builder, the `...Events` and `...Apart` lemmas their outages and the owners of their events, and `OneOf`, `TwoOf` and `ThreeOf` compare the
  outages with `kSubset`. `PromisedReport` (`ReportComplete`) combines this with `Isolation`, `FinalReport` and `CompleteReport`.

## 5. Also seen while modelling

These disagreements were met on the way and are not kept as runs.

*Queue and drivers.*
* `eventDrivenPowerflow` returning after a failed power flow leaves the vector unsorted for `getNextTime`.
* Two adapters of one object stay when another event of the same time lies between them (`checkDuplicates`).
* A part B whose delay reaches the period of its object finds the next update not later than itself and leaves the adapter at
  `maxTime`: with a `partBdelay`, an object with one adapter loses its updates. Nothing sets `partBdelay`.
* An object that asks for another update time while its part B waits, as a relay may in the power flow between the passes, has its part B at once, before that time, and
  its adapter may then be parked at `maxTime` (EventAdapters.h:315): the update it asked for is lost. `NoLostUpdate` and `NeverEarly` except exactly these adapters.
* A scheduled GET, a delayed one-shot, is never erased: the B pass does not look at `m_remove_event`. It runs in every later
  pass and keeps the front of the queue at its time, so that a driver that steps to `getNextTime()` makes no progress past it.
* `GridDynSimulation::step` calls `runDynamicSolverStep` with `nextStopTime`, which is the step's own end (gridDynDynamic.cpp:804, 820).
* Change flags that are raised at a root within the tolerance of the stop are not looked at either: the inner loop is not entered
  (the finding of `DynamicDAE_reset` by another way).
* When the solver fails with an invalid state, objects act in the low-voltage check at the solver's time (gridDynDynamic.cpp:898-908), and the clock may then be pushed
  by `timeTol` (lines 400-405): an update moved to within that tolerance lies behind the clock, and the stop of the next solver call with it. `StepsForward` allows for it.
* A period not longer than `timeTol` makes an object due again as soon as it has run; `DynamicAssumption` leaves it out.
* A run that ends for too many small steps returns without setting `pState` (gridDynDynamic.cpp:408-413).

*Relays.*
* CANCEL compares the absolute trigger time with `actionDelay` (ControlRelay.cpp:247).
* The check of a delayed action stores the position of the trigger in the list of its condition (Relay.cpp:830) and is
  used as an action number (Relay.cpp:893); a relay whose second condition has an action of its own, as in
  TxThermalModel.cpp:224-227, takes the first one. In `Relay` the position is kept and used as in the code; the designs that
  the properties are checked on have position and number equal.
* A check between two samples, or a root check at a sample time (`GridArea::rootCheck`, GridArea.cpp:1847, reaches every relay; gridDynDynamic.cpp:1002), leaves a sampled
  relay without an update (Relay.cpp:501, 530-540): sampling ends. If a later root check samples it again, `m_nextSampleTime` lags behind the clock, and `updateB`
  can move the update past a check that waits: `ChecksScheduled` does not hold for such a relay.
* A relay that is not resettable looks at a condition only when the delay ends.
* `multiConditionCheckExecute` does not put a relay without updates into the queue (DifferentialRelay).
* `rootTrigger` does not advance past a triggered entry that cannot reset, although `rootTest` wrote a root for it, and ignores the direction of the root.
* `setConditionStatus(ACTIVE)` on a triggered condition keeps its old checks.
* A breaker with an update period alerts inside `updateA` and meets the lock of `Relay_lock`.
* `Breaker::clone` negates `mLastRecloseTime`; `recloseEvent` for an object that is not a link sets 0.0 though its comment says
  re-enable (Breaker.cpp:168-171).
* `Breaker::timestep` (Breaker.cpp:281-292; called by `eventDrivenPowerflow`, gridDynPowerFlow.cpp:525 and 558, and by the recovery of initial conditions) sets the trip flag and disables the
  breaker without opening the switch: flag and switch disagree from then on. It is an action of `Breaker`.
* The tap is tested with `== 0.0` in one place and `<= kMin_Res` in another (Breaker.cpp:214, 477); a tap between 0 and `kMin_Res` takes a mixture of the two ways. The model has taps on
  which the tests agree.

*Contingencies and runner.*
* N-3-LINE lists share `Event` objects between contingencies (`mergeIfUnique` copies the pointer). On two threads the three calls of
  `execute` interleave: without the exception `Shared` in `MasterUntouched` TLC finds an outage triggered on the master.
  Each triple is also in the list three times.
* N-2 lists miss pairs: what is left of `skip` is computed from the contingencies *added*, not skipped
  (gridDynContingency.cpp:65, 68), against "skip the first N contingencies" (Contingency.h:191). Three lines, two
  generators and a load give 8 of 15 pairs; that all pairs of lines are there is proved. N-1-1 lists contain each element after itself.
* `count1` contingencies plus one are run and written (gridDynContingency.cpp:215, GridDynSimulationFileOps.cpp:1447), against "the
  number of contingencies to run" (Contingency.h:217).
* With no count asked for, contingencies that time out are not reported; one that finishes between its time-out and the next
  `isFinished` is written and stays in `timedoutList`, so it may be written twice. Where a count is asked for, the second line counts again, and
  another contingency may have none.
* With an output that begins with `database:/` the analysis returns at once, without a report and with its threads at work (gridDynContingency.cpp:221-223).
* After a time-out the analysis may return while threads still clone the master. An exception in `execute`, such as the `ObjectUpdateFailException` of
  `Event::updateObject` (Event.cpp:270), leaves the promise
  unkept and the report waits for ever. A negative `count2` makes `reserve` throw.
* The thread of `RunAsync` and `StepAsync` asks `isReady` about the future that the caller is assigning
  (`src/src/runner/gridDynRunner.cpp:201`, 237): a race after which the run is refused as "asynchronous operation ongoing" or not.

## 6. Only model-checked, and not modelled

Liveness (`EventsEventuallyFire`, `EventuallyTaken`, `Terminates`, `Finishes`) is left to TLC: the prover has no support for fairness. Every other property that a passing run checks is also a
theorem. Hypotheses that a theorem has beyond the named assumptions are part of its statement: `PowerflowSucceeds` and `Prompt` (queue),
`Direct` (control relay), `SinglesFirst`, `Resettable`, `Calm`, `Straight`, `Separate` and `AtOnce` (relay), `Shared` (contingencies). Section 4
says what each stands for.

Not modelled, and why, part by part: `components` in `PROJECT.json`. The most important gaps are:

* `setUpdateTime` and `set("nextupdatetime")`, which raise no alert, and periods of 0, which the loop of `updateB` never passes;
* `clone` and `mapObjectsOnto` of the queue; `removeAction`, `updateAction` of the relay; breakers on loads;
* `dynamicPartitioned`, `step` and `dynInitialize`, the network checks, and `run` with its action queue;
* players, schedulers, communicators: state machines of their own, each behind one adapter of the queue;
* bus and custom contingencies, and two threads inside one call on one Event, which is a data race;
* everything numeric: equations, solvers, measurements, and the parsers.

What could be added next, in this order: the action queue of `GridDynSimulation::run`; `dynamicPartitioned` beside `DynamicDAE`; `Scheduler` and `Player`
behind the interface that `EventAgenda` states.
