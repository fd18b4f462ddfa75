----------------------------- MODULE DynamicDAE -----------------------------
(***************************************************************************)
(* The loop of a dynamic simulation with a DAE solver: dynamicDAE and what *)
(* it calls in src/src/griddyn/simulation/gridDynDynamic.cpp.              *)
(*                                                                         *)
(* The loop takes the solver from one stop to the next, the earlier of     *)
(* tStop and the next event.  The solver may stop before: at a root, at a  *)
(* step limit or with an error.  The objects of the grid then act, which   *)
(* may move their next updates and raise flags for a change of the         *)
(* equations; the flags ask for a reset of the solver and new initial      *)
(* conditions before it goes on.  At a stop the events that are due run.   *)
(*                                                                         *)
(* The event queue is reduced to the next time of each adapter (its order  *)
(* and passes are module EventQueue); the solver and the initial           *)
(* conditions may come out in every way their interfaces allow.  Times are *)
(* multiples of a tick; block_mode_only is off.                            *)
(***************************************************************************)
EXTENDS Integers, FiniteSets, FiniteSetsExt

CONSTANTS
    Events,      \* adapters that return the ChangeCode of what they did
    Objects,     \* adapters of objects, which always return NO_CHANGE
    Period,      \* the period of each adapter, 0 for one that runs once
    Start,       \* its first time
    tStop,       \* the end of the simulation
    Tol,         \* tols.timeTol and the tolerance of the queue
    Small,       \* 1e-4: a step shorter than this is a small one
    Probe,       \* probeStepTime
    MaxSmall,    \* 10: how many small steps are allowed
    MaxRoots,    \* bound: roots and moved updates in a behaviour
    Inf          \* maxTime

Adapters == Events \cup Objects

ASSUME DynamicAssumption ==
    /\ Events \cap Objects = {} /\ IsFiniteSet(Adapters) /\ Adapters # {}
    /\ Tol \in Nat \ {0} /\ Small \in Nat /\ Probe \in Nat
    /\ Small > Tol /\ Probe > Tol
    /\ MaxSmall \in Nat /\ MaxRoots \in Nat
    /\ tStop \in Nat \ {0} /\ Inf \in Nat /\ Inf > tStop + Tol + Probe
    /\ Start \in [Adapters -> 1..tStop]
    /\ Period \in [Adapters -> Nat]
    /\ \A e \in Adapters : Period[e] > 0 => Period[e] > Tol

VARIABLES
    pc,             \* where dynamicDAE is: see PCs
    pState,
    currentTime,
    timeReturn,     \* the time the solver has reached
    nextStop,
    nextStopTime,
    tstep,          \* steps without progress
    smStep,         \* small steps
    next,           \* m_nextTime of each adapter
    flags,          \* changes of the equations: "layout" for states, objects
                    \* and Jacobian, "root" for the number of roots
    code,           \* the ChangeCode that dynamicCheckAndReset is given
    inLoop,         \* the reset is one of the inner loop, not of the events
    budget,         \* roots and moved updates that are left
    ran             \* history: [due, at] of the adapters of the latest pass

queue == <<next, flags, budget>>
steps == <<tstep, smStep>>
vars == <<pc, pState, currentTime, timeReturn, nextStop, nextStopTime, steps,
          queue, code, inLoop, ran>>

PCs == {"startup", "outer", "inner", "reset", "probed", "conditions", "solve",
        "complete", "failed"}
Flags == {"layout", "root"}

Init ==
    /\ pc = "startup" /\ pState \in {"INITIALIZED", "PARTIAL"}
    /\ currentTime = 0 /\ timeReturn = 0 /\ nextStop = 0 /\ nextStopTime = 0
    /\ tstep = 0 /\ smStep = 0
    /\ next = Start /\ flags = {} /\ budget = MaxRoots
    /\ code = "NO_CHANGE" /\ inLoop = FALSE /\ ran = {}

-----------------------------------------------------------------------------
Earlier(a, b) == IF a <= b THEN a ELSE b

\* EventQueue::getNextTime
getNextTime(nt) == Min({nt[e] : e \in Adapters})

\* Objects that act at time t may move their next updates to later times.
Move(t) ==
    \E moved \in SUBSET Objects : \E d \in [moved -> (t + 1)..tStop] :
        next' = [e \in Adapters |-> IF e \in moved THEN d[e] ELSE next[e]]

\* rootTrigger, or a rootCheck for low voltages, at time t: objects act on the
\* grid, and some raise flags.
objectsAct(t) ==
    /\ \E fl \in SUBSET Flags : flags' = flags \cup fl
    /\ Move(t)

\* The root checks of the initial conditions: one for low voltages if a bus has
\* raised LOW_BUS_VOLTAGE (and in the recovery), one in checkAlgebraicRoots if
\* there are algebraic roots.  The latter ends with handleRootChange, which
\* deals with a new number of roots; without it the flag stays.
rootChecks(t) ==
    /\ \E fl \in SUBSET Flags, known \in SUBSET {"root"} :
            flags' = (flags \cup fl) \ known
    /\ Move(t)

Quiet == UNCHANGED <<next, flags>>

\* EventQueue::executeEvents(c), called when the clock shows at: the adapters
\* that are due run, and those in changing change the equations.
executeEvents(c, at, changing, fl) ==
    LET due == {e \in Adapters : next[e] <= c + Tol}
    IN  /\ changing \subseteq due
        /\ fl # {} => changing # {}
        /\ next' = [e \in Adapters |-> IF e \notin due THEN next[e]
                        ELSE IF Period[e] > 0 THEN next[e] + Period[e] ELSE Inf]
        /\ flags' = flags \cup fl
        /\ ran' = {[due |-> next[e], at |-> at] : e \in due}
        /\ UNCHANGED budget

\* What executeEvents returns: an object that changes the equations is not
\* seen in the return value, whatever it does.
Returns(changing, fl) ==
    IF changing \cap Events = {} THEN "NO_CHANGE"
    ELSE IF "layout" \in fl THEN "STATE_SIZE_CHANGE" ELSE "PARAMETER_CHANGE"

-----------------------------------------------------------------------------
(* The solver                                                              *)

\* runDynamicSolverStep from time t0 returns ret at time t, and
\* handleEarlySolverReturn lets the objects act: at a root, and in a check for
\* low voltages after SOLVER_INVALID_STATE_ERROR, one of the errors.
runDynamicSolverStep(t0, ret, t) ==
    /\ timeReturn' = t
    /\ \/ ret = "SUCCESS" /\ t = nextStop /\ Quiet /\ UNCHANGED budget
       \/ /\ ret = "ROOT_FOUND" /\ t \in t0..nextStop
          /\ budget > 0 /\ budget' = budget - 1
          /\ objectsAct(t)
       \/ /\ ret = "STEP_LIMIT" /\ t \in t0..nextStop
          /\ Quiet /\ UNCHANGED budget
       \/ /\ ret = "ERROR" /\ t \in t0..nextStop
          /\ objectsAct(t) /\ UNCHANGED budget

-----------------------------------------------------------------------------
(* Steps of dynamicDAE                                                     *)

\* dynamicDAEStartupConditions succeeds.
startup ==
    /\ pc = "startup" /\ pc' = "outer"
    /\ rootChecks(currentTime)
    /\ nextStopTime' = Earlier(tStop, getNextTime(next'))
    /\ UNCHANGED <<pState, currentTime, timeReturn, nextStop, steps, budget,
                   code, inLoop, ran>>

\* The first root check of the startup asks for a reset.
startupReset ==
    /\ pc = "startup" /\ pc' = "reset" /\ code' = "STATE_SIZE_CHANGE"
    /\ rootChecks(currentTime)
    /\ UNCHANGED <<pState, currentTime, timeReturn, nextStop, nextStopTime,
                   steps, budget, inLoop, ran>>

startupFails ==
    /\ pc = "startup" /\ pc' = "failed"
    /\ UNCHANGED <<pState, currentTime, timeReturn, nextStop, nextStopTime,
                   steps, queue, code, inLoop, ran>>

\* The top of the main loop: the next stop
finish ==
    /\ pc = "outer" /\ timeReturn >= tStop
    /\ pc' = "complete" /\ pState' = "COMPLETE"
    /\ UNCHANGED <<currentTime, timeReturn, nextStop, nextStopTime, steps,
                   queue, code, inLoop, ran>>

\* The interval is too small: the clock is advanced.
skip ==
    LET stop == Earlier(tStop, nextStopTime)
    IN  /\ pc = "outer" /\ timeReturn < tStop
        /\ stop - currentTime < Tol
        /\ nextStop' = stop /\ nextStopTime' = tStop /\ timeReturn' = stop
        /\ pc' = "inner"
        /\ UNCHANGED <<pState, currentTime, steps, queue, code, inLoop, ran>>

toStop ==
    LET stop == Earlier(tStop, nextStopTime)
    IN  /\ pc = "outer" /\ timeReturn < tStop
        /\ stop - currentTime >= Tol
        /\ nextStop' = stop /\ nextStopTime' = tStop
        /\ inLoop' = FALSE /\ pc' = "solve"
        /\ UNCHANGED <<pState, currentTime, timeReturn, steps, queue, code, ran>>

\* The first call of the solver for a stop.  Only an error ends the run.
solve(ret, t) ==
    /\ pc = "solve" /\ ~inLoop
    /\ runDynamicSolverStep(timeReturn, ret, t)
    /\ currentTime' = t
    /\ IF ret = "ERROR" THEN pc' = "failed" /\ pState' = "PARTIAL"
                        ELSE pc' = "inner" /\ UNCHANGED pState
    /\ UNCHANGED <<nextStop, nextStopTime, steps, code, inLoop, ran>>

\* The inner loop: the solver stopped before the stop.
resume ==
    /\ pc = "inner" /\ timeReturn + Tol < nextStop
    /\ pc' = "reset" /\ code' = "NO_CHANGE" /\ inLoop' = TRUE
    /\ UNCHANGED <<pState, currentTime, timeReturn, nextStop, nextStopTime,
                   steps, queue, ran>>

\* Mutant of stop: the events up to the end of the simulation run.
stopAll(changing, fl) ==
    /\ pc = "inner" /\ timeReturn + Tol >= nextStop
    /\ currentTime' = nextStop
    /\ executeEvents(tStop, nextStop, changing, fl)
    /\ pc' = "outer" /\ nextStopTime' = getNextTime(next')
    /\ UNCHANGED <<pState, timeReturn, nextStop, steps, inLoop, code>>

\* The stop is reached: its events run.
stop(changing, fl) ==
    LET ret == Returns(changing, fl)
    IN  /\ pc = "inner" /\ timeReturn + Tol >= nextStop
        /\ currentTime' = nextStop
        /\ executeEvents(nextStop, nextStop, changing, fl)
        /\ IF ret = "NO_CHANGE"
             THEN /\ pc' = "outer" /\ nextStopTime' = getNextTime(next')
                  /\ UNCHANGED <<inLoop, code>>
             ELSE /\ pc' = "reset" /\ code' = ret /\ inLoop' = FALSE
                  /\ UNCHANGED nextStopTime
        /\ UNCHANGED <<pState, timeReturn, nextStop, steps>>

-----------------------------------------------------------------------------
(* dynamicCheckAndReset                                                    *)

NeedsProbe == "layout" \in flags \/ code = "STATE_SIZE_CHANGE"

Soon == {e \in Adapters : next[e] < currentTime + Probe}

\* checkEventsForDynamicReset: events that come soon run before the reset.  If
\* they changed anything dynamicCheckAndReset starts again.
resetProbes(changing, fl) ==
    /\ pc = "reset" /\ NeedsProbe /\ Soon # {}
    /\ executeEvents(currentTime + Probe, currentTime, changing, fl)
    /\ pc' = IF Returns(changing, fl) = "NO_CHANGE" THEN "probed" ELSE "reset"
    /\ UNCHANGED <<pState, currentTime, timeReturn, nextStop, nextStopTime,
                   steps, code, inLoop>>

\* reInitDyn, updateOffsets, sparseReInit or handleRootChange, as the flags
\* and the code ask; the flags are cleared.
resetDone ==
    /\ pc = "probed" \/ (pc = "reset" /\ ~(NeedsProbe /\ Soon # {}))
    /\ flags' = {} /\ pc' = "conditions"
    /\ IF NeedsProbe THEN pState' \in {pState, "INITIALIZED"}
       ELSE pState' = IF code = "PARAMETER_CHANGE" THEN "INITIALIZED" ELSE pState
    /\ UNCHANGED <<currentTime, timeReturn, nextStop, nextStopTime, steps, next,
                   budget, code, inLoop, ran>>

-----------------------------------------------------------------------------
(* generateDaeDynamicInitialConditions                                     *)

\* The root check of checkAlgebraicRoots asks for another reset.
conditionsReset ==
    /\ pc = "conditions" /\ budget > 0
    /\ rootChecks(currentTime)
    /\ budget' = budget - 1
    /\ pc' = "reset" /\ code' = "STATE_SIZE_CHANGE"
    /\ UNCHANGED <<pState, currentTime, timeReturn, nextStop, nextStopTime,
                   steps, inLoop, ran>>

\* Mutant of conditions: the stop is not looked at again.
conditionsStale ==
    /\ pc = "conditions"
    /\ rootChecks(currentTime)
    /\ IF inLoop
         THEN pc' = "solve" /\ UNCHANGED <<nextStop, nextStopTime>>
         ELSE /\ pc' = "outer" /\ nextStopTime' = getNextTime(next')
              /\ UNCHANGED nextStop
    /\ UNCHANGED <<pState, currentTime, timeReturn, steps, budget, code, inLoop,
                   ran>>

\* They are found; the objects have acted in the root check.  In the inner
\* loop the next stop is looked at again.
conditions ==
    /\ pc = "conditions"
    /\ rootChecks(currentTime)
    /\ IF inLoop
         THEN /\ pc' = "solve" /\ nextStop' = Earlier(tStop, getNextTime(next'))
              /\ UNCHANGED nextStopTime
         ELSE /\ pc' = "outer" /\ nextStopTime' = getNextTime(next')
              /\ UNCHANGED nextStop
    /\ UNCHANGED <<pState, currentTime, timeReturn, steps, budget, code, inLoop,
                   ran>>

\* The run ends.  In the startup, before any stop, pState is left alone.
conditionsFail ==
    /\ pc = "conditions"
    /\ pc' = "failed" /\ pState' = IF nextStop = 0 THEN pState ELSE "PARTIAL"
    /\ UNCHANGED <<currentTime, timeReturn, nextStop, nextStopTime, steps, queue,
                   code, inLoop, ran>>

-----------------------------------------------------------------------------
(* The solver in the inner loop                                            *)

\* Mutant of progress: a step without progress is not counted.
progressUncounted(ret, t) ==
    /\ pc' = "inner" /\ currentTime' = t /\ UNCHANGED <<steps, pState>>

\* Mutant of progress: the clock is moved by a small step.
progressFar(ret, t) ==
    IF ret # "ROOT_FOUND" /\ t < currentTime + Tol
    THEN /\ pc' = "inner" /\ currentTime' = t + Small + Tol
         /\ tstep' = tstep + 1 /\ UNCHANGED <<smStep, pState>>
    ELSE /\ pc' = "inner" /\ currentTime' = t /\ UNCHANGED <<steps, pState>>

\* The solver has come from currentTime to t.  The first step without
\* progress moves the clock by the tolerance, the second ends the run; so do
\* too many small steps, which leave pState as it is.
progress(ret, t) ==
    \/ /\ ret = "ROOT_FOUND"
       /\ pc' = "inner" /\ currentTime' = t /\ UNCHANGED <<steps, pState>>
    \/ /\ ret # "ROOT_FOUND" /\ t < currentTime + Tol
       /\ tstep' = tstep + 1 /\ UNCHANGED smStep
       /\ IF tstep = 0
            THEN pc' = "inner" /\ currentTime' = t + Tol /\ UNCHANGED pState
            ELSE pc' = "failed" /\ currentTime' = t /\ pState' = "PARTIAL"
    \/ /\ ret # "ROOT_FOUND" /\ t >= currentTime + Tol /\ t < currentTime + Small
       /\ smStep' = smStep + 1 /\ currentTime' = t /\ UNCHANGED pState
       /\ IF smStep >= MaxSmall THEN pc' = "failed" /\ UNCHANGED tstep
                                ELSE pc' = "inner" /\ tstep' = 0
    \/ /\ ret # "ROOT_FOUND" /\ t >= currentTime + Small
       /\ tstep' = 0 /\ smStep' = 0 /\ currentTime' = t
       /\ pc' = "inner" /\ UNCHANGED pState

solveAgain(ret, t) ==
    /\ pc = "solve" /\ inLoop
    /\ runDynamicSolverStep(currentTime, ret, t)
    /\ progress(ret, t)
    /\ UNCHANGED <<nextStop, nextStopTime, code, inLoop, ran>>

-----------------------------------------------------------------------------
Results == {"SUCCESS", "ROOT_FOUND", "STEP_LIMIT", "ERROR"}

Next ==
    \/ startup \/ startupReset \/ startupFails \/ finish \/ skip \/ toStop \/ resume
    \/ resetDone \/ conditionsReset \/ conditions \/ conditionsFail
    \/ \E ret \in Results, t \in 0..tStop : solve(ret, t) \/ solveAgain(ret, t)
    \/ \E changing \in SUBSET Adapters, fl \in SUBSET Flags :
            stop(changing, fl) \/ resetProbes(changing, fl)

Spec == Init /\ [][Next]_vars

\* dynamicDAE is one thread that does not wait; every call of the solver and
\* of the initial conditions returns.
FairSpec == Spec /\ WF_vars(Next)

-----------------------------------------------------------------------------
(* Properties                                                              *)

TypeOK ==
    /\ pc \in PCs /\ pState \in {"INITIALIZED", "PARTIAL", "COMPLETE"}
    /\ currentTime \in 0..(tStop + Tol) /\ timeReturn \in 0..tStop
    /\ nextStop \in 0..tStop /\ nextStopTime \in Nat
    /\ tstep \in 0..2 /\ smStep \in 0..(MaxSmall + 1)
    /\ next \in [Adapters -> Nat] /\ flags \subseteq Flags
    /\ code \in {"NO_CHANGE", "PARAMETER_CHANGE", "STATE_SIZE_CHANGE"}
    /\ inLoop \in BOOLEAN /\ budget \in 0..MaxRoots
    /\ \A x \in ran : x.due \in Nat /\ x.at \in 0..tStop

\* The solver is never taken past an event, also one that the objects have
\* moved while the solver was on its way to a later stop.
NeverPast == \A e \in Adapters : timeReturn <= next[e] + Tol

\* The solver, which the initial conditions have set to currentTime, is asked
\* to go forward: the stop that is looked up again lies after it.  It may lie
\* behind by less than the tolerance only when the clock was pushed by it: an
\* object moved its update there in the check that followed the error.
StepsForward ==
    pc = "solve" => \/ currentTime < nextStop
                    \/ inLoop /\ tstep = 1 /\ currentTime < nextStop + Tol

\* No adapter runs later than its time by more than the tolerance, nor earlier
\* than by the probe of a reset.
OnTime == \A x \in ran : /\ x.at <= x.due + Tol
                         /\ x.due <= x.at + Probe + Tol

\* The clock of the simulation goes back at most by the tolerance that it was
\* pushed when the solver made no progress.
ClockForward == [][currentTime' >= currentTime - Tol]_vars

\* dynamicDAE comes to an end, if there are finitely many roots.
Terminates == <>(pc \in {"complete", "failed"})

\* The solver does not run with a change of the equations pending: "we changed
\* object states so we have to do a full reset", and IdaInterface::solve
\* asserts that it knows the number of roots.
ResetBeforeSolve == pc = "solve" => flags = {}
=============================================================================
