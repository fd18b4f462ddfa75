---------------------------- MODULE Contingency ----------------------------
(***************************************************************************)
(* A contingency analysis: runContingencyAnalysis                          *)
(* (src/src/griddyn/simulation/gridDynContingency.cpp) hands contingencies *)
(* to the threads of the work queue, each runs Contingency::execute        *)
(* (Contingency.cpp), and saveContingencyOutput                            *)
(* (GridDynSimulationFileOps.cpp) writes the lines of the report.          *)
(*                                                                         *)
(* A contingency is known by its place in the list.  Simulation 0 is the   *)
(* master, simulation c the clone of contingency c.  What a simulation is  *)
(* reduced to is the set of elements that events took out of service, and  *)
(* what a contingency finds to the set that its last power flow saw.  The  *)
(* work queue is external: it gives the blocks out in the order in which   *)
(* they were added.  Each call on an event is one step; two threads that   *)
(* are in one event at a time race beyond what is modelled.                *)
(***************************************************************************)
EXTENDS Integers, Sequences, FiniteSets

CONSTANTS
    Jobs,          \* the analyses: a list of contingencies, how many of them
                   \* (count1, count2), where the report goes and the threads
                   \* of the work queue
    MaxTimeouts    \* bound: waits of five seconds that time out

ASSUME JobAssumption ==
    /\ MaxTimeouts \in Nat
    /\ \A j \in Jobs :
        /\ j.count1 \in Int /\ j.count2 \in Nat
        /\ j.output \in {"file", "database"}
        /\ j.pool # {} /\ IsFiniteSet(j.pool)
        /\ j.list \in Seq([id : Seq(Nat),
                           stages : Seq(Seq([element : Nat, owner : Seq(Nat)]))])

VARIABLES
    job,         \* the analysis that runs
    main,        \* where its thread is
    added,       \* the last contingency that addWorkBlock was called with
    taken,       \* the last one that a thread has taken from the queue
    at,          \* thread -> the contingency it executes, and where
    target,      \* event -> the simulation of its m_obj
    out,         \* simulation -> the elements out of service
    result,      \* contingency -> what its last power flow saw
    completed,   \* the contingencies with completed set
    pos,         \* the contingency whose turn in the report it is
    timedOut,    \* timedoutList
    lines        \* the report

report == <<pos, timedOut, lines>>
vars == <<job, main, added, taken, at, target, out, result, completed, report>>

Master  == 0
Conts   == 1..Len(job.list)
Stages(c) == job.list[c].stages

\* The events of contingency c, and what they take out of service.
EventsOf(c) == UNION {{Stages(c)[s][i] : i \in DOMAIN Stages(c)[s]} :
                        s \in DOMAIN Stages(c)}
Events == UNION {EventsOf(c) : c \in Conts}
Outages(c) == {e.element : e \in EventsOf(c)}

Idle == [cont |-> 0, stage |-> 0, idx |-> 0, step |-> "idle"]

-----------------------------------------------------------------------------
(* runContingencyAnalysis                                                  *)

\* count1 alone is the number to run or, negated, the number to leave out.
numContingencies ==
    IF job.count2 # 0 THEN job.count2
    ELSE IF job.count1 > 0 THEN job.count1 ELSE 0

start == LET s == IF job.count2 # 0 THEN job.count1
                  ELSE IF job.count1 <= 0 THEN -job.count1 ELSE 0
         IN  IF s < 0 THEN 0 ELSE s

Init ==
    /\ job \in Jobs
    /\ main = "adding" /\ added = start /\ taken = start /\ pos = start + 1
    /\ at = [w \in job.pool |-> Idle]
    /\ target = [e \in Events |-> Master]
    /\ out = [s \in Conts \cup {Master} |-> {}]
    /\ result = [c \in Conts |-> {}]
    /\ completed = {} /\ timedOut = <<>> /\ lines = <<>>

\* Mutant of More: the loop stops before the last contingency.
MoreShort == /\ added < Len(job.list) - 1
             /\ numContingencies = 0 \/ added - start <= numContingencies

\* The loop ends after the contingency that makes ccnt > numContingencies.
More == /\ added < Len(job.list)
        /\ numContingencies = 0 \/ added - start <= numContingencies

addWorkBlock ==
    /\ main = "adding" /\ More
    /\ added' = added + 1
    /\ UNCHANGED <<job, main, taken, at, target, out, result, completed, report>>

\* saveContingencyOutput returns at once if no contingency is used.
NoneUsed == added <= start

\* The report goes to a file.  Nothing is written to a "database:/", and
\* nothing is waited for: the analysis returns while the threads are at work.
startReport ==
    /\ main = "adding" /\ ~More
    /\ main' = IF NoneUsed \/ job.output = "database" THEN "done" ELSE "first"
    /\ UNCHANGED <<job, added, taken, at, target, out, result, completed, report>>

-----------------------------------------------------------------------------
(* Contingency::execute on thread w                                        *)

\* Mutant of Arrive: the last event of a stage is left out.
ArriveShort(c, s, i) ==
    [cont |-> c, stage |-> s, idx |-> i,
     step |-> IF s > Len(Stages(c)) THEN "finish"
              ELSE IF i >= Len(Stages(c)[s]) THEN "solve" ELSE "update"]

\* The next thing to do at place i of stage s.
Arrive(c, s, i) ==
    [cont |-> c, stage |-> s, idx |-> i,
     step |-> IF s > Len(Stages(c)) THEN "finish"
              ELSE IF i > Len(Stages(c)[s]) THEN "solve" ELSE "update"]

Event(w) == Stages(at[w].cont)[at[w].stage][at[w].idx]

GoTo(w, step) == at' = [at EXCEPT ![w].step = step]

\* The thread takes the next block and clones the simulation.
cloneSim(w) ==
    LET c == taken + 1
    IN  /\ at[w].step = "idle" /\ taken < added
        /\ taken' = c
        /\ at' = [at EXCEPT ![w] = Arrive(c, 1, 1)]
        /\ out' = [out EXCEPT ![c] = out[Master]]
        /\ UNCHANGED <<job, main, added, target, result, completed, report>>

\* Mutant of updateObject: the event is triggered where it points to.
updateNothing(w) ==
    /\ at[w].step = "update" /\ GoTo(w, "trigger")
    /\ UNCHANGED <<job, main, added, taken, target, out, result, completed, report>>

\* updateObject(contSim).  It finds the object in the clone: the exception that
\* it throws otherwise would end the thread, and is left out.
updateObject(w) ==
    /\ at[w].step = "update" /\ GoTo(w, "trigger")
    /\ target' = [target EXCEPT ![Event(w)] = at[w].cont]
    /\ UNCHANGED <<job, main, added, taken, out, result, completed, report>>

\* Event::trigger sets the field of the object that m_obj points to.
trigger(w) ==
    /\ at[w].step = "trigger" /\ GoTo(w, "back")
    /\ out' = [out EXCEPT ![target[Event(w)]] = @ \cup {Event(w).element}]
    /\ UNCHANGED <<job, main, added, taken, target, result, completed, report>>

\* Mutant of mapBack: it is left out.
mapNothing(w) ==
    /\ at[w].step = "back"
    /\ at' = [at EXCEPT ![w] = Arrive(@.cont, @.stage, @.idx + 1)]
    /\ UNCHANGED <<job, main, added, taken, target, out, result, completed, report>>

\* updateObject(gds) "map the event back to the original simulation"
mapBack(w) ==
    /\ at[w].step = "back"
    /\ at' = [at EXCEPT ![w] = Arrive(@.cont, @.stage, @.idx + 1)]
    /\ target' = [target EXCEPT ![Event(w)] = Master]
    /\ UNCHANGED <<job, main, added, taken, out, result, completed, report>>

\* pFlowInitialize and powerflow end a stage.  Whether the power flow converges
\* decides only which numbers the contingency keeps.
powerflow(w) ==
    /\ at[w].step = "solve"
    /\ result' = [result EXCEPT ![at[w].cont] = out[at[w].cont]]
    /\ at' = [at EXCEPT ![w] = Arrive(@.cont, @.stage + 1, 1)]
    /\ UNCHANGED <<job, main, added, taken, target, out, completed, report>>

\* Mutant of finish: only the promise is kept.
finishUnmarked(w) ==
    /\ at[w].step = "finish" /\ GoTo(w, "leave")
    /\ UNCHANGED <<job, main, added, taken, target, out, result, completed, report>>

\* The results are in the contingency before completed is set.
finish(w) ==
    /\ at[w].step = "finish" /\ GoTo(w, "leave")
    /\ completed' = completed \cup {at[w].cont}
    /\ UNCHANGED <<job, main, added, taken, target, out, result, report>>

\* The promise is kept, the clone is destroyed.
leave(w) ==
    /\ at[w].step = "leave"
    /\ at' = [at EXCEPT ![w] = Idle]
    /\ UNCHANGED <<job, main, added, taken, target, out, result, completed, report>>

-----------------------------------------------------------------------------
(* saveContingencyOutput with count = numContingencies                     *)

\* A line with what the contingency has found, and its count in ccnt.
Write(c) == lines' = Append(lines, [cont |-> c, outages |-> result[c]])

Enough == numContingencies > 0 /\ Len(lines') > numContingencies

execution == <<job, added, taken, at, target, out, result, completed>>

\* The header waits for the first contingency without limit.
writeHeader ==
    /\ main = "first" /\ pos \in completed
    /\ main' = "loop"
    /\ UNCHANGED <<execution, report>>

NextTurn ==
    /\ pos' = pos + 1
    /\ main' = IF Enough THEN "retry" ELSE "loop"

\* Mutant of writeLine: it does not wait.
writeLineUnfinished ==
    /\ main = "loop" /\ pos <= added
    /\ Write(pos) /\ NextTurn
    /\ UNCHANGED <<execution, timedOut>>

\* isFinished, or within the five seconds
writeLine ==
    /\ main = "loop" /\ pos <= added /\ pos \in completed
    /\ Write(pos) /\ NextTurn
    /\ UNCHANGED <<execution, timedOut>>

\* wait_for times out.
timeout ==
    /\ main = "loop" /\ pos <= added /\ pos \notin completed
    /\ Len(timedOut) < MaxTimeouts
    /\ timedOut' = Append(timedOut, pos) /\ main' = "late"
    /\ UNCHANGED <<execution, pos, lines>>

\* isFinished is asked again: a contingency that has finished since then is
\* written, though it is in timedoutList.
afterTimeout ==
    /\ main = "late"
    /\ IF pos \in completed THEN Write(pos) ELSE UNCHANGED lines
    /\ NextTurn
    /\ UNCHANGED <<execution, timedOut>>

endLoop ==
    /\ main = "loop" /\ pos > added
    /\ main' = "retry"
    /\ UNCHANGED <<execution, report>>

\* Mutant of Retried: one line too few is taken for enough.
RetriedNever == Len(lines) < numContingencies - 1 /\ timedOut # <<>>

Retried == Len(lines) < numContingencies /\ timedOut # <<>>

\* Those that timed out are waited for without limit, if fewer than count
\* lines are written; "waiting" is the second loop.
retry ==
    /\ main = "retry"
    /\ IF Retried THEN main' = "waiting" /\ pos' = 1
                  ELSE main' = "done" /\ UNCHANGED pos
    /\ UNCHANGED <<execution, timedOut, lines>>

writeLate ==
    /\ main = "waiting" /\ pos <= Len(timedOut) /\ timedOut[pos] \in completed
    /\ Write(timedOut[pos])
    /\ pos' = pos + 1
    /\ main' = IF Enough THEN "done" ELSE "waiting"
    /\ UNCHANGED <<execution, timedOut>>

endWaiting ==
    /\ main = "waiting" /\ pos > Len(timedOut)
    /\ main' = "done"
    /\ UNCHANGED <<execution, report>>

-----------------------------------------------------------------------------
Execute(w) ==
    \/ cloneSim(w) \/ updateObject(w) \/ trigger(w) \/ mapBack(w)
    \/ powerflow(w) \/ finish(w) \/ leave(w)

Analysis ==
    \/ addWorkBlock \/ startReport \/ writeHeader \/ writeLine \/ timeout
    \/ afterTimeout \/ endLoop \/ retry \/ writeLate \/ endWaiting

Next == Analysis \/ \E w \in job.pool : Execute(w)

Spec == Init /\ [][Next]_vars

\* The threads run: a power flow returns, and nothing is waited for under a
\* lock.
FairSpec == /\ Spec /\ WF_vars(Analysis)
            /\ \A w \in UNION {j.pool : j \in Jobs} :
                    WF_vars(w \in job.pool /\ Execute(w))

-----------------------------------------------------------------------------
(* Properties                                                              *)

\* Two threads may have one Event in their hands.
Shared == /\ Cardinality(job.pool) > 1
          /\ \E c, d \in Conts : c # d /\ EventsOf(c) \cap EventsOf(d) # {}

Steps == {"idle", "update", "trigger", "back", "solve", "finish", "leave"}
MainSteps == {"adding", "first", "loop", "late", "retry", "waiting", "done"}

TypeOK ==
    /\ main \in MainSteps
    /\ added \in Nat /\ taken \in Nat /\ taken <= added /\ pos \in Nat \ {0}
    /\ at \in [job.pool -> [cont : Nat, stage : Nat, idx : Nat, step : Steps]]
    /\ target \in [Events -> Conts \cup {Master}]
    /\ out \in [Conts \cup {Master} -> SUBSET Nat]
    /\ result \in [Conts -> SUBSET Nat]
    /\ completed \subseteq Conts
    /\ timedOut \in Seq(Nat)
    /\ lines \in Seq([cont : Nat, outages : SUBSET Nat])

\* A contingency is solved with the outages of its own events and no others,
\* whatever the other threads do to their clones meanwhile, unless threads
\* share an Event.
OwnOutages == (\A c \in completed : result[c] = Outages(c)) \/ Shared

\* No event is triggered on the master, from which the later contingencies
\* are cloned and with which the simulation goes on, unless threads share an
\* Event.
MasterUntouched == out[Master] = {} \/ Shared

\* An event points into the master or into a clone that some thread still
\* has: updateObject, which starts from the old m_obj, finds it alive.  This
\* is so even if threads share the event.
TargetAlive ==
    \A e \in Events : target[e] # Master =>
        \E w \in job.pool : at[w].cont = target[e]

\* A line of the report shows the final result of a contingency that was run,
\* and only one that was found late is in the report twice.
LinesFinal ==
    /\ \A k \in DOMAIN lines :
        /\ lines[k].cont \in completed
        /\ lines[k].outages = result[lines[k].cont]
    /\ \A k, l \in DOMAIN lines : k < l /\ lines[k].cont = lines[l].cont =>
            \E i \in DOMAIN timedOut : timedOut[i] = lines[k].cont

\* The contingencies that were asked for, those that have a line, and those
\* whose wait timed out.  Twice: one that was found late has two lines.
Asked == {c \in (start + 1)..Len(job.list) :
            numContingencies = 0 \/ c <= start + numContingencies}
Seen  == {lines[k].cont : k \in DOMAIN lines}
Late(c) == \E i \in DOMAIN timedOut : timedOut[i] = c
Twice == \E k, l \in DOMAIN lines : k < l /\ lines[k].cont = lines[l].cont

\* At the end each contingency that was asked for has a line in the file.  It
\* is left out only if its wait timed out and, when a number was asked for, as
\* many others have a line, or one that was found late was counted twice.  At
\* most one line more than asked for is written.
NoneMissed ==
    main = "done" /\ job.output = "file" =>
        /\ \A c \in Asked \ Seen :
              /\ Late(c)
              /\ \/ numContingencies = 0 \/ Twice
                 \/ Cardinality(Seen) >= numContingencies
        /\ numContingencies > 0 => Len(lines) <= numContingencies + 1

\* The analysis ends, and so do the threads: each contingency that was handed
\* out is executed, also after the analysis has returned.
Finishes == <>(/\ main = "done" /\ completed = (start + 1)..added
               /\ \A w \in job.pool : at[w] = Idle)
=============================================================================
