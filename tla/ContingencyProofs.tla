------------------------- MODULE ContingencyProofs -------------------------
(***************************************************************************)
(* Proofs about module Contingency, for every set of analyses, every       *)
(* number of threads, contingencies, stages and events, and every pattern  *)
(* of time-outs.                                                           *)
(*                                                                         *)
(* The invariant has two halves.  ExecInv is about the threads: each has a *)
(* contingency of its own (OwnI), stands at a place of it (PlaceI) and has *)
(* done to its clone what stands before that place (OutI); an event that   *)
(* does not point to the master is in the hands of the thread whose clone  *)
(* it points to (TargetI), and is in no other hands unless threads share   *)
(* events (HandI).  ReportInv is about the thread that writes the report:  *)
(* what it has passed is completed or has timed out.                       *)
(***************************************************************************)
EXTENDS Contingency, FiniteSetTheorems, TLAPS

\* What has happened to the clone of c when place i of stage s is reached.
Before(c, s, i) ==
    {x \in Outages(c) : \E t \in DOMAIN Stages(c) : \E k \in DOMAIN Stages(c)[t] :
        /\ t < s \/ (t = s /\ k < i)
        /\ x = Stages(c)[t][k].element}

\* A thread is at place i of stage s of contingency c.
Place(c, s, i) ==
    /\ s \in 1..(Len(Stages(c)) + 1) /\ i \in Nat \ {0}
    /\ s <= Len(Stages(c)) => i <= Len(Stages(c)[s]) + 1
    /\ s > Len(Stages(c)) => i = 1

AtEvent(r) == r.step \in {"update", "trigger", "back"}
InHand(r)  == r.step \in {"trigger", "back"}
Ended(r)   == r.step \in {"finish", "leave"}

Placed(r) ==
    /\ Place(r.cont, r.stage, r.idx)
    /\ AtEvent(r) => r.stage <= Len(Stages(r.cont))
                     /\ r.idx <= Len(Stages(r.cont)[r.stage])
    /\ r.step = "solve" => r.stage <= Len(Stages(r.cont))
                           /\ r.idx = Len(Stages(r.cont)[r.stage]) + 1
    /\ Ended(r) => r.stage = Len(Stages(r.cont)) + 1

Tripped(r) == Before(r.cont, r.stage, IF r.step = "back" THEN r.idx + 1 ELSE r.idx)

Busy(r) == r.step # "idle"

EventAt(r) == Stages(r.cont)[r.stage][r.idx]

\* The parts of the invariant, with the variables that a step changes as
\* arguments: A is at, T taken, G target, O out, R result and C completed.
Thread == [cont : Nat, stage : Nat, idx : Nat, step : Steps]

TypeI(B, A, T, G, O, R, C) ==
    /\ B \in Nat /\ T \in Nat /\ start <= T /\ T <= B
    /\ B <= Len(job.list) \/ B = start
    /\ A \in [job.pool -> Thread]
    /\ G \in [Events -> Conts \cup {Master}]
    /\ O \in [Conts \cup {Master} -> SUBSET Nat]
    /\ R \in [Conts -> SUBSET Nat]
    /\ C \subseteq Conts

PlaceI(A, T) == \A w \in job.pool : Busy(A[w]) =>
    A[w].cont \in (start + 1)..T /\ Placed(A[w])

OwnI(A) == \A v, w \in job.pool : v # w /\ Busy(A[v]) /\ Busy(A[w]) =>
    A[v].cont # A[w].cont

DoneI(A, T, C) ==
    /\ C \subseteq (start + 1)..T
    /\ \A w \in job.pool : Busy(A[w]) => (A[w].cont \in C <=> A[w].step = "leave")

TargetI(A, G) == \A e \in Events : G[e] # Master =>
    \E w \in job.pool : InHand(A[w]) /\ A[w].cont = G[e] /\ EventAt(A[w]) = e

HandI(A, G) == ~Shared => \A w \in job.pool : InHand(A[w]) =>
    G[EventAt(A[w])] = A[w].cont

OutI(A, O) == ~Shared =>
    /\ O[Master] = {}
    /\ \A w \in job.pool : Busy(A[w]) => O[A[w].cont] = Tripped(A[w])

ResultI(A, T, R, C) ==
    /\ \A c \in Conts : c > T => R[c] = {}
    /\ ~Shared => \A w \in job.pool : Ended(A[w]) =>
                    R[A[w].cont] = Outages(A[w].cont)
    /\ ~Shared => \A c \in C : R[c] = Outages(c)

Exec(B, A, T, G, O, R, C) ==
    /\ TypeI(B, A, T, G, O, R, C)
    /\ PlaceI(A, T) /\ OwnI(A) /\ DoneI(A, T, C)
    /\ TargetI(A, G) /\ HandI(A, G) /\ OutI(A, O) /\ ResultI(A, T, R, C)

ExecInv == job \in Jobs /\ Exec(added, at, taken, target, out, result, completed)

ReportType ==
    /\ main \in MainSteps /\ pos \in Nat \ {0}
    /\ timedOut \in Seq(Nat)
    /\ lines \in Seq([cont : Nat, outages : SUBSET Nat])

-----------------------------------------------------------------------------
LineType == [cont : Nat, outages : SUBSET Nat]

Reported(ls, c) == \E k \in DOMAIN ls : ls[k].cont = c

\* The contingencies that were handed out.
HandedInv ==
    /\ numContingencies > 0 => added - start <= numContingencies + 1
    /\ main # "adding" => ~More

\* Before the loops the report is empty; in the first loop it has what has
\* been completed among the contingencies that have had their turn.
TurnInv ==
    /\ main \in {"adding", "first"} =>
            pos = start + 1 /\ lines = <<>> /\ timedOut = <<>>
    /\ main \in {"loop", "late"} =>
            /\ start < pos /\ pos <= added + 1 /\ (main = "late" => pos <= added)
            /\ \A k \in DOMAIN lines : lines[k].cont < pos
            /\ \A c \in (start + 1)..(pos - 1) : Late(c) \/ Reported(lines, c)
            /\ Len(lines) <= (pos - 1) - start
            /\ numContingencies > 0 => Len(lines) <= numContingencies
    /\ main = "late" => Late(pos)

\* The report of the first loop is at an end.
Looped == main \in {"retry", "waiting"} \/ (main = "done" /\ job.output = "file")

AllReported == \A c \in (start + 1)..added : Reported(lines, c)

\* After the first loop each contingency has a line or is late.  The second
\* loop writes the late ones in their order, until there are enough lines.
TailInv ==
    /\ Looped =>
        /\ \A c \in (start + 1)..added : Late(c) \/ Reported(lines, c)
        /\ numContingencies > 0 => Len(lines) <= numContingencies + 1
    /\ main = "waiting" =>
        /\ numContingencies > 0 /\ Len(lines) <= numContingencies
        /\ \A i \in DOMAIN timedOut : i < pos => Reported(lines, timedOut[i])
    /\ main = "done" /\ job.output = "file" =>
        AllReported \/ numContingencies = 0 \/ Len(lines) >= numContingencies

ReportInv == ReportType /\ HandedInv /\ TurnInv /\ TailInv /\ LinesFinal

IInv == ExecInv /\ ReportInv

-----------------------------------------------------------------------------
(* The list of contingencies.                                              *)

EventType == [element : Nat, owner : Seq(Nat)]
ContType  == [id : Seq(Nat), stages : Seq(Seq(EventType))]

LEMMA JobTypes ==
    ASSUME job \in Jobs
    PROVE  /\ job.count1 \in Int /\ job.count2 \in Nat /\ IsFiniteSet(job.pool)
           /\ job.list \in Seq(ContType)
BY JobAssumption DEF EventType, ContType

LEMMA Numbers ==
    ASSUME job \in Jobs
    PROVE  start \in Nat /\ numContingencies \in Nat /\ Len(job.list) \in Nat
<1>1. job.count1 \in Int /\ job.count2 \in Nat
  BY JobTypes
<1>2. Len(job.list) \in Nat
  BY JobTypes
<1>3. start \in Nat
  BY <1>1 DEF start
<1>4. numContingencies \in Nat
  BY <1>1 DEF numContingencies
<1> QED BY <1>2, <1>3, <1>4

LEMMA StageTypes ==
    ASSUME job \in Jobs, NEW c \in Conts
    PROVE  /\ Stages(c) \in Seq(Seq(EventType)) /\ Len(Stages(c)) \in Nat
           /\ \A s \in 1..Len(Stages(c)) : /\ Stages(c)[s] \in Seq(EventType)
                                          /\ Len(Stages(c)[s]) \in Nat
<1>1. job.list[c] \in ContType
  BY JobTypes DEF Conts
<1>2. Stages(c) \in Seq(Seq(EventType))
  BY <1>1 DEF Stages, ContType
<1> QED BY <1>2

\* What is at a place of a contingency is one of its events.
LEMMA EventTypes ==
    ASSUME job \in Jobs, NEW c \in Conts,
           NEW s \in 1..Len(Stages(c)), NEW i \in 1..Len(Stages(c)[s])
    PROVE  /\ Stages(c)[s][i] \in EventsOf(c)
           /\ Stages(c)[s][i] \in Events
           /\ Stages(c)[s][i].element \in Outages(c)
           /\ Stages(c)[s][i].element \in Nat
<1>1. s \in DOMAIN Stages(c) /\ i \in DOMAIN Stages(c)[s]
  BY StageTypes
<1>2. Stages(c)[s][i] \in EventsOf(c)
  BY <1>1 DEF EventsOf
<1>3. Stages(c)[s][i] \in EventType
  BY StageTypes
<1>4. Stages(c)[s][i].element \in Nat
  BY <1>3 DEF EventType
<1> QED BY <1>2, <1>4 DEF Events, Outages

LEMMA EventsHavePlaces ==
    ASSUME job \in Jobs, NEW c \in Conts, NEW x \in Outages(c)
    PROVE  \E s \in 1..Len(Stages(c)) : \E i \in 1..Len(Stages(c)[s]) :
                x = Stages(c)[s][i].element
<1>1. PICK e \in EventsOf(c) : x = e.element
  BY DEF Outages
<1>2. PICK s \in DOMAIN Stages(c) : e \in {Stages(c)[s][i] : i \in DOMAIN Stages(c)[s]}
  BY <1>1 DEF EventsOf
<1>3. PICK i \in DOMAIN Stages(c)[s] : e = Stages(c)[s][i]
  BY <1>2
<1>4. s \in 1..Len(Stages(c)) /\ i \in 1..Len(Stages(c)[s])
  BY <1>2, <1>3, StageTypes
<1> QED BY <1>1, <1>3, <1>4

\* Nothing comes before the first place.
LEMMA BeforeFirst ==
    ASSUME job \in Jobs, NEW c \in Conts
    PROVE  Before(c, 1, 1) = {}
<1>1. \A t \in DOMAIN Stages(c) : t >= 1
  BY StageTypes
<1>2. \A t \in DOMAIN Stages(c) : \A k \in DOMAIN Stages(c)[t] : k >= 1
  BY StageTypes
<1> QED BY <1>1, <1>2, StageTypes DEF Before

\* One event more comes before the next place.
LEMMA BeforeNext ==
    ASSUME job \in Jobs, NEW c \in Conts,
           NEW s \in 1..Len(Stages(c)), NEW i \in 1..Len(Stages(c)[s])
    PROVE  Before(c, s, i + 1) = Before(c, s, i) \cup {Stages(c)[s][i].element}
<1>0. /\ DOMAIN Stages(c) = 1..Len(Stages(c))
      /\ \A t \in DOMAIN Stages(c) : DOMAIN Stages(c)[t] = 1..Len(Stages(c)[t])
  BY StageTypes
<1>1. ASSUME NEW x \in Before(c, s, i + 1)
      PROVE  x \in Before(c, s, i) \cup {Stages(c)[s][i].element}
  <2>0. PICK t \in DOMAIN Stages(c) : \E k \in DOMAIN Stages(c)[t] :
            /\ t < s \/ (t = s /\ k < i + 1)
            /\ x = Stages(c)[t][k].element
    BY <1>1 DEF Before
  <2>1. PICK k \in DOMAIN Stages(c)[t] :
            /\ t < s \/ (t = s /\ k < i + 1)
            /\ x = Stages(c)[t][k].element
    BY <2>0
  <2>2. CASE t = s /\ k = i
    BY <2>1, <2>2
  <2>3. CASE ~(t = s /\ k = i)
    <3>1. t < s \/ (t = s /\ k < i)
      BY <2>1, <2>3, <1>0, StageTypes
    <3> QED BY <2>1, <3>1, <1>1 DEF Before
  <2> QED BY <2>2, <2>3
<1>2. ASSUME NEW x \in Before(c, s, i)
      PROVE  x \in Before(c, s, i + 1)
  <2>0. PICK t \in DOMAIN Stages(c) : \E k \in DOMAIN Stages(c)[t] :
            /\ t < s \/ (t = s /\ k < i)
            /\ x = Stages(c)[t][k].element
    BY <1>2 DEF Before
  <2>1. PICK k \in DOMAIN Stages(c)[t] :
            /\ t < s \/ (t = s /\ k < i)
            /\ x = Stages(c)[t][k].element
    BY <2>0
  <2>2. t < s \/ (t = s /\ k < i + 1)
    BY <2>1, <1>0, StageTypes
  <2> QED BY <2>1, <2>2, <1>2 DEF Before
<1>3. Stages(c)[s][i].element \in Before(c, s, i + 1)
  <2>1. s \in DOMAIN Stages(c) /\ i \in DOMAIN Stages(c)[s] /\ i < i + 1
    BY <1>0, StageTypes
  <2> QED BY <2>1, EventTypes DEF Before
<1> QED BY <1>1, <1>2, <1>3

\* What comes before the end of a stage comes before the next one.
LEMMA BeforeStage ==
    ASSUME job \in Jobs, NEW c \in Conts, NEW s \in 1..Len(Stages(c))
    PROVE  Before(c, s, Len(Stages(c)[s]) + 1) = Before(c, s + 1, 1)
<1>0. /\ DOMAIN Stages(c) = 1..Len(Stages(c))
      /\ \A t \in DOMAIN Stages(c) : DOMAIN Stages(c)[t] = 1..Len(Stages(c)[t])
  BY StageTypes
<1>1. ASSUME NEW t \in DOMAIN Stages(c), NEW k \in DOMAIN Stages(c)[t]
      PROVE  (t < s \/ (t = s /\ k < Len(Stages(c)[s]) + 1))
                <=> (t < s + 1 \/ (t = s + 1 /\ k < 1))
  BY <1>0, StageTypes
<1> QED BY <1>1 DEF Before

\* At the end all of the events have come.
LEMMA BeforeEnd ==
    ASSUME job \in Jobs, NEW c \in Conts
    PROVE  Before(c, Len(Stages(c)) + 1, 1) = Outages(c)
<1>0. /\ DOMAIN Stages(c) = 1..Len(Stages(c))
      /\ \A t \in DOMAIN Stages(c) : DOMAIN Stages(c)[t] = 1..Len(Stages(c)[t])
  BY StageTypes
<1>1. ASSUME NEW x \in Outages(c)
      PROVE  x \in Before(c, Len(Stages(c)) + 1, 1)
  <2>0. PICK s \in 1..Len(Stages(c)) : \E i \in 1..Len(Stages(c)[s]) :
            x = Stages(c)[s][i].element
    BY EventsHavePlaces
  <2>1. PICK i \in 1..Len(Stages(c)[s]) : x = Stages(c)[s][i].element
    BY <2>0
  <2>2. s < Len(Stages(c)) + 1
    BY StageTypes
  <2> QED BY <2>1, <2>2, <1>0 DEF Before
<1> QED BY <1>1 DEF Before

\* Arrive leads to a place.
LEMMA ArrivePlaced ==
    ASSUME job \in Jobs, NEW c \in Conts, NEW s, NEW i, Place(c, s, i)
    PROVE  LET r == Arrive(c, s, i)
           IN  /\ r \in Thread /\ Placed(r) /\ Busy(r)
               /\ r.cont = c /\ r.step \in {"update", "solve", "finish"}
               /\ Tripped(r) = Before(c, s, i)
               /\ Ended(r) => s = Len(Stages(c)) + 1 /\ i = 1
<1> DEFINE r == Arrive(c, s, i)
<1>1. /\ r.cont = c /\ r.stage = s /\ r.idx = i
      /\ r.step \in {"update", "solve", "finish"}
  BY DEF Arrive
<1>2. c \in Nat /\ s \in Nat /\ i \in Nat /\ Len(Stages(c)) \in Nat
  BY StageTypes DEF Place, Conts
<1>3. r \in Thread
  BY <1>2 DEF Arrive, Thread, Steps
<1>4. /\ r.step = "finish" <=> s > Len(Stages(c))
      /\ r.step = "update" <=> s <= Len(Stages(c)) /\ ~(i > Len(Stages(c)[s]))
      /\ r.step = "solve" <=> s <= Len(Stages(c)) /\ i > Len(Stages(c)[s])
  BY <1>2 DEF Arrive
<1>5. s <= Len(Stages(c)) => Len(Stages(c)[s]) \in Nat
  BY <1>2, StageTypes DEF Place
<1>6. Placed(r)
  BY <1>1, <1>2, <1>4, <1>5 DEF Placed, Place, AtEvent, Ended
<1>7. Tripped(r) = Before(c, s, i)
  BY <1>1 DEF Tripped
<1>8. Ended(r) => s = Len(Stages(c)) + 1 /\ i = 1
  BY <1>1, <1>2, <1>4 DEF Ended, Place
<1> QED BY <1>1, <1>3, <1>6, <1>7, <1>8 DEF Busy

-----------------------------------------------------------------------------
(* The threads.                                                            *)

\* The analysis does not change, so the invariant after a step is about the
\* new values of the other variables only.
LEMMA ExecPrimed ==
    ASSUME job' = job, job \in Jobs,
           Exec(added', at', taken', target', out', result', completed')
    PROVE  ExecInv'
<1>1. start' = start /\ Conts' = Conts /\ Events' = Events /\ (Shared <=> Shared')
  BY DEF start, Conts, Events, EventsOf, Stages, Shared
<1>2. TypeI(added, at, taken, target, out, result, completed)'
  BY <1>1 DEF Exec, TypeI, Thread, Master
<1>3. PlaceI(at, taken)'
  BY <1>1 DEF Exec, PlaceI, Busy, Placed, Place, AtEvent, Ended, Stages
<1>4. OwnI(at)'
  BY DEF Exec, OwnI, Busy
<1>5. DoneI(at, taken, completed)'
  BY <1>1 DEF Exec, DoneI, Busy
<1>6. TargetI(at, target)'
  BY <1>1 DEF Exec, TargetI, InHand, EventAt, Stages, Master
<1>7. HandI(at, target)'
  BY <1>1 DEF Exec, HandI, InHand, EventAt, Stages
<1>8. OutI(at, out)'
  <2>1. ASSUME NEW w \in job.pool
        PROVE  Tripped(at[w])' = Tripped(at'[w])
    BY DEF Tripped, Before, Outages, EventsOf, Stages
  <2>2. OutI(at', out')
    BY DEF Exec
  <2> QED BY <1>1, <2>1, <2>2 DEF OutI, Busy, Master
<1>9. ResultI(at, taken, result, completed)'
  BY <1>1 DEF Exec, ResultI, Ended, Outages, EventsOf, Stages
<1> QED BY <1>2, <1>3, <1>4, <1>5, <1>6, <1>7, <1>8, <1>9 DEF ExecInv, Exec

\* A busy thread has a contingency of the list.
LEMMA BusyCont ==
    ASSUME ExecInv, NEW w \in job.pool, Busy(at[w])
    PROVE  /\ at[w] \in Thread /\ at[w].cont \in Conts /\ at[w].cont # Master
           /\ at[w].cont \in (start + 1)..taken /\ Placed(at[w])
<1>1. at[w] \in Thread /\ at[w].cont \in (start + 1)..taken /\ Placed(at[w])
  BY DEF ExecInv, Exec, TypeI, PlaceI
<1>2. /\ start \in Nat /\ Len(job.list) \in Nat /\ taken \in Nat /\ added \in Nat
      /\ taken <= added /\ (added <= Len(job.list) \/ added = start)
  BY Numbers DEF ExecInv, Exec, TypeI
<1>3. at[w].cont \in Conts /\ at[w].cont # Master
  BY <1>1, <1>2 DEF Conts, Master
<1> QED BY <1>1, <1>3

\* The event at which a busy thread stands.
LEMMA BusyEvent ==
    ASSUME ExecInv, NEW w \in job.pool, AtEvent(at[w])
    PROVE  /\ Busy(at[w]) /\ EventAt(at[w]) = Event(w)
           /\ at[w].stage \in 1..Len(Stages(at[w].cont))
           /\ at[w].idx \in 1..Len(Stages(at[w].cont)[at[w].stage])
           /\ Event(w) \in EventsOf(at[w].cont) /\ Event(w) \in Events
           /\ Event(w).element \in Nat
<1>1. Busy(at[w]) /\ EventAt(at[w]) = Event(w)
  BY DEF AtEvent, Busy, EventAt, Event
<1>2. at[w] \in Thread /\ at[w].cont \in Conts /\ Placed(at[w]) /\ job \in Jobs
  BY <1>1, BusyCont DEF ExecInv
<1>3. Len(Stages(at[w].cont)) \in Nat
  BY <1>2, StageTypes
<1>4. at[w].stage \in 1..Len(Stages(at[w].cont))
  BY <1>2, <1>3 DEF Placed, Place
<1>5. Len(Stages(at[w].cont)[at[w].stage]) \in Nat
  BY <1>2, <1>4, StageTypes
<1>6. at[w].idx \in 1..Len(Stages(at[w].cont)[at[w].stage])
  BY <1>2, <1>4, <1>5 DEF Placed, Place
<1> QED BY <1>1, <1>2, <1>4, <1>6, EventTypes DEF Event

\* Unless threads share events, two threads have different ones.
LEMMA OneHand ==
    ASSUME ExecInv, ~Shared, NEW v \in job.pool, NEW w \in job.pool, v # w,
           AtEvent(at[v]), AtEvent(at[w])
    PROVE  Event(v) # Event(w)
<1>1. /\ Event(v) \in EventsOf(at[v].cont) /\ Event(w) \in EventsOf(at[w].cont)
      /\ at[v].cont \in Conts /\ at[w].cont \in Conts /\ Busy(at[v]) /\ Busy(at[w])
  BY BusyEvent, BusyCont
<1>2. at[v].cont # at[w].cont
  BY <1>1 DEF ExecInv, Exec, OwnI
<1>3. Cardinality(job.pool) > 1
  <2>1. IsFiniteSet(job.pool) /\ {v, w} \subseteq job.pool
    BY JobTypes DEF ExecInv
  <2>2. Cardinality({v, w}) <= Cardinality(job.pool)
    BY <2>1, FS_Subset
  <2>3. IsFiniteSet({v}) /\ Cardinality({v}) = 1
    BY FS_Singleton
  <2>4. Cardinality({v} \cup {w}) = 2
    BY <2>3, FS_AddElement
  <2>5. {v} \cup {w} = {v, w}
    OBVIOUS
  <2>6. Cardinality(job.pool) \in Nat
    BY <2>1, FS_CardinalityType
  <2>7. Cardinality({v, w}) = 2
    BY <2>4, <2>5
  <2> QED BY <2>2, <2>6, <2>7
<1> QED BY <1>1, <1>2, <1>3 DEF Shared

\* A thread that goes to another place of its contingency.
LEMMA Moved ==
    ASSUME ExecInv, NEW w \in job.pool, NEW r \in Thread,
           Busy(at[w]), Busy(r), r.cont = at[w].cont, Placed(r)
    PROVE  LET A == [at EXCEPT ![w] = r]
           IN  /\ A \in [job.pool -> Thread] /\ A[w] = r
               /\ \A v \in job.pool : v # w => A[v] = at[v]
               /\ PlaceI(A, taken) /\ OwnI(A)
<1> DEFINE A == [at EXCEPT ![w] = r]
<1>1. at \in [job.pool -> Thread]
  BY DEF ExecInv, Exec, TypeI
<1>2. /\ A \in [job.pool -> Thread] /\ A[w] = r
      /\ \A v \in job.pool : v # w => A[v] = at[v]
  BY <1>1
<1> HIDE DEF A
<1>3. PlaceI(A, taken)
  BY <1>2 DEF ExecInv, Exec, PlaceI
<1>4. OwnI(A)
  BY <1>2 DEF ExecInv, Exec, OwnI
<1> QED BY <1>2, <1>3, <1>4 DEF A

\* No event is in the hands of a thread that goes to its next place.
LEMMA TargetKept ==
    ASSUME ExecInv, NEW w \in job.pool, ~InHand(at[w]),
           NEW A, \A v \in job.pool : v # w => A[v] = at[v]
    PROVE  TargetI(A, target)
BY DEF ExecInv, Exec, TargetI

-----------------------------------------------------------------------------
(* One lemma for each step of a thread.                                    *)

ExecNext == Exec(added', at', taken', target', out', result', completed')

LEMMA cloneSimStep ==
    ASSUME ExecInv, NEW w \in job.pool, cloneSim(w)
    PROVE  ExecNext
<1> DEFINE c == taken + 1
           r == Arrive(c, 1, 1)
<1>0. /\ taken < added /\ taken' = c /\ at' = [at EXCEPT ![w] = r]
      /\ out' = [out EXCEPT ![c] = out[Master]] /\ ~Busy(at[w])
      /\ added' = added /\ target' = target /\ result' = result /\ completed' = completed
  BY DEF cloneSim, report, Busy
<1>1. TypeI(added, at, taken, target, out, result, completed)
  BY DEF ExecInv, Exec
<1>2. /\ start \in Nat /\ Len(job.list) \in Nat /\ job \in Jobs
      /\ taken \in Nat /\ added \in Nat /\ start <= taken
      /\ added <= Len(job.list) \/ added = start
  BY <1>1, Numbers DEF ExecInv, TypeI
<1>3. c \in Conts /\ c # Master /\ c \in (start + 1)..c
  BY <1>0, <1>2 DEF Conts, Master
<1>4. Place(c, 1, 1)
  BY <1>2, <1>3, StageTypes DEF Place
<1>5. /\ r \in Thread /\ Placed(r) /\ Busy(r) /\ r.cont = c
      /\ r.step \in {"update", "solve", "finish"}
      /\ Tripped(r) = Before(c, 1, 1)
      /\ Ended(r) => Len(Stages(c)) + 1 = 1
  BY <1>2, <1>3, <1>4, ArrivePlaced
<1> HIDE DEF c, r
<1>6. at' \in [job.pool -> Thread] /\ at'[w] = r
      /\ \A v \in job.pool : v # w => at'[v] = at[v]
  BY <1>0, <1>1, <1>5 DEF TypeI
<1>7. \A v \in job.pool : Busy(at[v]) => at[v].cont # c /\ at[v].cont \in (start + 1)..c
  BY <1>2, BusyCont DEF c
<1>8. out' \in [Conts \cup {Master} -> SUBSET Nat]
  BY <1>0, <1>1, <1>3 DEF TypeI
<1>9. TypeI(added', at', taken', target', out', result', completed')
  BY <1>0, <1>1, <1>2, <1>6, <1>8 DEF TypeI, c
<1>10. PlaceI(at', taken')
  BY <1>0, <1>3, <1>5, <1>6, <1>7, BusyCont DEF PlaceI
<1>11. OwnI(at')
  BY <1>5, <1>6, <1>7 DEF ExecInv, Exec, OwnI
<1>12. completed \subseteq (start + 1)..taken /\ c \notin completed
  BY <1>2 DEF ExecInv, Exec, DoneI, c
<1>13. DoneI(at', taken', completed')
  <2>1. completed \subseteq (start + 1)..c
    BY <1>2, <1>12 DEF c
  <2> QED BY <2>1, <1>0, <1>5, <1>6, <1>12 DEF ExecInv, Exec, DoneI
<1>14. TargetI(at', target')
  <2>1. ~InHand(at[w])
    BY <1>0 DEF InHand, Busy
  <2> QED BY <2>1, <1>0, <1>6, TargetKept
<1>15. HandI(at', target')
  BY <1>0, <1>5, <1>6 DEF ExecInv, Exec, HandI, InHand
<1>16. OutI(at', out')
  <2> SUFFICES ASSUME ~Shared PROVE OutI(at', out')
    BY DEF OutI
  <2>1. out[Master] = {} /\ \A v \in job.pool : Busy(at[v]) => out[at[v].cont] = Tripped(at[v])
    BY DEF ExecInv, Exec, OutI
  <2>2. out'[Master] = {} /\ out'[c] = {}
    BY <2>1, <1>0, <1>1, <1>3 DEF TypeI
  <2>3. \A v \in job.pool : v # w /\ Busy(at[v]) => out'[at[v].cont] = Tripped(at[v])
    BY <2>1, <1>0, <1>1, <1>7, BusyCont DEF TypeI
  <2>4. Tripped(r) = {}
    BY <1>2, <1>3, <1>5, BeforeFirst
  <2> QED BY <2>2, <2>3, <2>4, <1>5, <1>6 DEF OutI
<1>17. ResultI(at', taken', result', completed')
  <2>1. result[c] = {}
    BY <1>2, <1>3 DEF ExecInv, Exec, ResultI, c
  <2>2. Ended(r) => Outages(c) = {}
    <3> SUFFICES ASSUME Ended(r) PROVE Outages(c) = {}
      OBVIOUS
    <3>1. Len(Stages(c)) + 1 = 1
      BY <1>5
    <3> QED BY <3>1, <1>2, <1>3, BeforeFirst, BeforeEnd
  <2>3. \A d \in Conts : d > c => result[d] = {}
    BY <1>2 DEF ExecInv, Exec, ResultI, Conts, c
  <2>4. ~Shared => \A v \in job.pool : Ended(at'[v]) =>
                    result[at'[v].cont] = Outages(at'[v].cont)
    BY <2>1, <2>2, <1>5, <1>6 DEF ExecInv, Exec, ResultI
  <2> QED BY <2>3, <2>4, <1>0 DEF ExecInv, Exec, ResultI
<1> QED BY <1>9, <1>10, <1>11, <1>13, <1>14, <1>15, <1>16, <1>17 DEF ExecNext, Exec

LEMMA updateObjectStep ==
    ASSUME ExecInv, NEW w \in job.pool, updateObject(w)
    PROVE  ExecNext
<1> DEFINE r == [at[w] EXCEPT !.step = "trigger"]
           c == at[w].cont
           e == Event(w)
<1>0. /\ at[w].step = "update" /\ at' = [at EXCEPT ![w].step = "trigger"]
      /\ target' = [target EXCEPT ![e] = c]
      /\ added' = added /\ taken' = taken /\ out' = out /\ result' = result
      /\ completed' = completed
  BY DEF updateObject, GoTo, report
<1>1. TypeI(added, at, taken, target, out, result, completed)
  BY DEF ExecInv, Exec
<1>2. AtEvent(at[w]) /\ Busy(at[w]) /\ ~InHand(at[w]) /\ ~Ended(at[w])
  BY <1>0 DEF AtEvent, Busy, InHand, Ended
<1>3. /\ at[w] \in Thread /\ c \in Conts /\ Placed(at[w])
      /\ e \in Events /\ EventAt(at[w]) = e
  BY <1>2, BusyCont, BusyEvent
<1>4. /\ r \in Thread /\ r.cont = c /\ r.stage = at[w].stage /\ r.idx = at[w].idx
      /\ r.step = "trigger"
  BY <1>3 DEF Thread, Steps
<1>5. at' = [at EXCEPT ![w] = r]
  BY <1>0, <1>1 DEF TypeI
<1> HIDE DEF r, c, e
<1>6. /\ Placed(r) /\ Busy(r) /\ ~Ended(r) /\ EventAt(r) = e /\ Tripped(r) = Tripped(at[w])
  <2>1. Placed(r)
    BY <1>2, <1>3, <1>4 DEF Placed, AtEvent, Ended, c
  <2>2. Tripped(r) = Tripped(at[w])
    BY <1>0, <1>4 DEF Tripped, c
  <2> QED BY <2>1, <2>2, <1>3, <1>4 DEF EventAt, Busy, Ended, c
<1>7. /\ at' \in [job.pool -> Thread] /\ at'[w] = r
      /\ \A v \in job.pool : v # w => at'[v] = at[v]
      /\ PlaceI(at', taken) /\ OwnI(at')
  BY <1>2, <1>4, <1>5, <1>6, Moved DEF c
<1>8. target' \in [Events -> Conts \cup {Master}] /\ target'[e] = c
      /\ \A f \in Events : f # e => target'[f] = target[f]
  BY <1>0, <1>1, <1>3 DEF TypeI
<1>9. TypeI(added', at', taken', target', out', result', completed')
  BY <1>0, <1>1, <1>7, <1>8 DEF TypeI
<1>10. DoneI(at', taken', completed')
  BY <1>0, <1>2, <1>4, <1>7 DEF ExecInv, Exec, DoneI, c
<1>11. TargetI(at', target')
  <2>1. InHand(r)
    BY <1>4 DEF InHand
  <2>2. ASSUME NEW f \in Events, f # e, target'[f] # Master
        PROVE  \E v \in job.pool : InHand(at'[v]) /\ at'[v].cont = target'[f] /\ EventAt(at'[v]) = f
    BY <2>2, <1>2, <1>7, <1>8 DEF ExecInv, Exec, TargetI
  <2> QED BY <2>1, <2>2, <1>4, <1>6, <1>7, <1>8 DEF TargetI
<1>12. HandI(at', target')
  <2> SUFFICES ASSUME ~Shared, NEW v \in job.pool, InHand(at'[v])
               PROVE  target'[EventAt(at'[v])] = at'[v].cont
    BY DEF HandI
  <2>1. CASE v = w
    BY <2>1, <1>4, <1>6, <1>7, <1>8
  <2>2. CASE v # w
    <3>1. at'[v] = at[v] /\ InHand(at[v]) /\ AtEvent(at[v])
      BY <2>2, <1>7 DEF InHand, AtEvent
    <3>2. EventAt(at[v]) # e /\ EventAt(at[v]) \in Events
      BY <2>2, <3>1, <1>2, OneHand, BusyEvent DEF e
    <3> QED BY <3>1, <3>2, <1>8 DEF ExecInv, Exec, HandI
  <2> QED BY <2>1, <2>2
<1>13. OutI(at', out')
  BY <1>0, <1>2, <1>4, <1>6, <1>7 DEF ExecInv, Exec, OutI, c
<1>14. ResultI(at', taken', result', completed')
  BY <1>0, <1>6, <1>7 DEF ExecInv, Exec, ResultI
<1> QED BY <1>0, <1>7, <1>9, <1>10, <1>11, <1>12, <1>13, <1>14 DEF ExecNext, Exec

LEMMA triggerStep ==
    ASSUME ExecInv, NEW w \in job.pool, trigger(w)
    PROVE  ExecNext
<1> DEFINE r == [at[w] EXCEPT !.step = "back"]
           c == at[w].cont
           e == Event(w)
           d == target[e]
<1>0. /\ at[w].step = "trigger" /\ at' = [at EXCEPT ![w].step = "back"]
      /\ out' = [out EXCEPT ![d] = @ \cup {e.element}]
      /\ added' = added /\ taken' = taken /\ target' = target /\ result' = result
      /\ completed' = completed
  BY DEF trigger, GoTo, report
<1>1. TypeI(added, at, taken, target, out, result, completed) /\ job \in Jobs
  BY DEF ExecInv, Exec
<1>2. AtEvent(at[w]) /\ Busy(at[w]) /\ InHand(at[w]) /\ ~Ended(at[w])
  BY <1>0 DEF AtEvent, Busy, InHand, Ended
<1>3. /\ at[w] \in Thread /\ c \in Conts /\ Placed(at[w]) /\ c # Master
      /\ e \in Events /\ EventAt(at[w]) = e /\ e.element \in Nat
      /\ at[w].stage \in 1..Len(Stages(c)) /\ at[w].idx \in 1..Len(Stages(c)[at[w].stage])
  BY <1>2, BusyCont, BusyEvent
<1>4. /\ r \in Thread /\ r.cont = c /\ r.stage = at[w].stage /\ r.idx = at[w].idx
      /\ r.step = "back"
  BY <1>3 DEF Thread, Steps
<1>5. at' = [at EXCEPT ![w] = r]
  BY <1>0, <1>1 DEF TypeI
<1>6. Tripped(r) = Tripped(at[w]) \cup {e.element}
  <2>1. Tripped(r) = Before(c, at[w].stage, at[w].idx + 1)
    BY <1>4 DEF Tripped
  <2>2. Tripped(at[w]) = Before(c, at[w].stage, at[w].idx)
    BY <1>0 DEF Tripped
  <2>3. e = Stages(c)[at[w].stage][at[w].idx]
    BY DEF Event
  <2> QED BY <2>1, <2>2, <2>3, <1>1, <1>3, BeforeNext
<1> HIDE DEF r, c, e, d
<1>7. /\ Placed(r) /\ Busy(r) /\ ~Ended(r) /\ EventAt(r) = e /\ InHand(r)
  <2>1. Placed(r)
    BY <1>2, <1>3, <1>4 DEF Placed, AtEvent, Ended, c
  <2> QED BY <2>1, <1>3, <1>4 DEF EventAt, Busy, Ended, InHand, c
<1>8. /\ at' \in [job.pool -> Thread] /\ at'[w] = r
      /\ \A v \in job.pool : v # w => at'[v] = at[v]
      /\ PlaceI(at', taken) /\ OwnI(at')
  BY <1>2, <1>4, <1>5, <1>7, Moved DEF c
<1>9. d \in Conts \cup {Master}
  BY <1>1, <1>3 DEF TypeI, d
<1>10. /\ out' \in [Conts \cup {Master} -> SUBSET Nat]
       /\ out'[d] = out[d] \cup {e.element}
       /\ \A s \in Conts \cup {Master} : s # d => out'[s] = out[s]
  BY <1>0, <1>1, <1>3, <1>9 DEF TypeI
<1>11. TypeI(added', at', taken', target', out', result', completed')
  BY <1>0, <1>1, <1>8, <1>10 DEF TypeI
<1>12. DoneI(at', taken', completed')
  BY <1>0, <1>2, <1>4, <1>8 DEF ExecInv, Exec, DoneI, c
<1>13. TargetI(at', target')
  <2> SUFFICES ASSUME NEW f \in Events, target[f] # Master
               PROVE  \E v \in job.pool : InHand(at'[v]) /\ at'[v].cont = target[f]
                                          /\ EventAt(at'[v]) = f
    BY <1>0 DEF TargetI
  <2>1. PICK v \in job.pool : InHand(at[v]) /\ at[v].cont = target[f] /\ EventAt(at[v]) = f
    BY DEF ExecInv, Exec, TargetI
  <2>2. CASE v = w
    BY <2>1, <2>2, <1>3, <1>4, <1>7, <1>8 DEF c
  <2>3. CASE v # w
    BY <2>1, <2>3, <1>8
  <2> QED BY <2>2, <2>3
<1>14. HandI(at', target')
  BY <1>0, <1>2, <1>3, <1>4, <1>7, <1>8 DEF ExecInv, Exec, HandI, c
<1>15. OutI(at', out')
  <2> SUFFICES ASSUME ~Shared PROVE OutI(at', out')
    BY DEF OutI
  <2>1. d = c
    BY <1>2, <1>3 DEF ExecInv, Exec, HandI, c, d
  <2>2. /\ out[Master] = {} /\ out[c] = Tripped(at[w])
        /\ \A v \in job.pool : Busy(at[v]) => out[at[v].cont] = Tripped(at[v])
    BY <1>2 DEF ExecInv, Exec, OutI, c
  <2>3. \A v \in job.pool : v # w /\ Busy(at[v]) => at[v].cont # c /\ at[v].cont \in Conts
    BY <1>2, BusyCont DEF ExecInv, Exec, OwnI, c
  <2>4. out'[Master] = {} /\ out'[c] = Tripped(r)
    BY <2>1, <2>2, <1>3, <1>6, <1>10
  <2>5. \A v \in job.pool : v # w /\ Busy(at[v]) => out'[at[v].cont] = Tripped(at[v])
    BY <2>1, <2>2, <2>3, <1>10
  <2> QED BY <2>4, <2>5, <1>4, <1>8 DEF OutI
<1>16. ResultI(at', taken', result', completed')
  BY <1>0, <1>7, <1>8 DEF ExecInv, Exec, ResultI
<1> QED BY <1>0, <1>8, <1>11, <1>12, <1>13, <1>14, <1>15, <1>16 DEF ExecNext, Exec

LEMMA mapBackStep ==
    ASSUME ExecInv, NEW w \in job.pool, mapBack(w)
    PROVE  ExecNext
<1> DEFINE c == at[w].cont
           e == Event(w)
           r == Arrive(c, at[w].stage, at[w].idx + 1)
<1>0. /\ at[w].step = "back"
      /\ target' = [target EXCEPT ![e] = Master]
      /\ added' = added /\ taken' = taken /\ out' = out /\ result' = result
      /\ completed' = completed
  BY DEF mapBack, report
<1>1. TypeI(added, at, taken, target, out, result, completed) /\ job \in Jobs
  BY DEF ExecInv, Exec
<1>2. AtEvent(at[w]) /\ Busy(at[w]) /\ InHand(at[w]) /\ ~Ended(at[w])
  BY <1>0 DEF AtEvent, Busy, InHand, Ended
<1>3. /\ at[w] \in Thread /\ c \in Conts /\ Placed(at[w]) /\ c # Master
      /\ e \in Events /\ EventAt(at[w]) = e
      /\ at[w].stage \in 1..Len(Stages(c)) /\ at[w].idx \in 1..Len(Stages(c)[at[w].stage])
  BY <1>2, BusyCont, BusyEvent
<1>4. at' = [at EXCEPT ![w] = r]
  BY <1>1 DEF mapBack, TypeI
<1>5. Place(c, at[w].stage, at[w].idx + 1)
  BY <1>1, <1>3, StageTypes DEF Place
<1>6. /\ r \in Thread /\ Placed(r) /\ Busy(r) /\ r.cont = c
      /\ r.step \in {"update", "solve", "finish"}
      /\ Tripped(r) = Before(c, at[w].stage, at[w].idx + 1)
      /\ Ended(r) => at[w].stage = Len(Stages(c)) + 1
  BY <1>1, <1>3, <1>5, ArrivePlaced
<1>7. Tripped(r) = Tripped(at[w]) /\ ~Ended(r) /\ ~InHand(r) /\ r.step # "leave"
  <2>1. Tripped(r) = Tripped(at[w])
    BY <1>0, <1>6 DEF Tripped
  <2>2. ~Ended(r)
    BY <1>1, <1>3, <1>6, StageTypes
  <2> QED BY <2>1, <2>2, <1>6 DEF InHand
<1> HIDE DEF r, c, e
<1>8. /\ at' \in [job.pool -> Thread] /\ at'[w] = r
      /\ \A v \in job.pool : v # w => at'[v] = at[v]
      /\ PlaceI(at', taken) /\ OwnI(at')
  BY <1>2, <1>4, <1>6, Moved DEF c
<1>9. target' \in [Events -> Conts \cup {Master}] /\ target'[e] = Master
      /\ \A f \in Events : f # e => target'[f] = target[f]
  BY <1>0, <1>1, <1>3 DEF TypeI
<1>10. TypeI(added', at', taken', target', out', result', completed')
  BY <1>0, <1>1, <1>8, <1>9 DEF TypeI
<1>11. DoneI(at', taken', completed')
  BY <1>0, <1>2, <1>6, <1>7, <1>8 DEF ExecInv, Exec, DoneI, c
<1>12. TargetI(at', target')
  <2> SUFFICES ASSUME NEW f \in Events, target'[f] # Master
               PROVE  \E v \in job.pool : InHand(at'[v]) /\ at'[v].cont = target'[f]
                                          /\ EventAt(at'[v]) = f
    BY DEF TargetI
  <2>1. f # e /\ target'[f] = target[f]
    BY <1>9
  <2>2. PICK v \in job.pool : InHand(at[v]) /\ at[v].cont = target[f] /\ EventAt(at[v]) = f
    BY <2>1 DEF ExecInv, Exec, TargetI
  <2>3. v # w
    BY <2>1, <2>2, <1>3
  <2> QED BY <2>1, <2>2, <2>3, <1>8
<1>13. HandI(at', target')
  <2> SUFFICES ASSUME ~Shared, NEW v \in job.pool, InHand(at'[v])
               PROVE  target'[EventAt(at'[v])] = at'[v].cont
    BY DEF HandI
  <2>1. v # w
    BY <1>7, <1>8
  <2>2. at'[v] = at[v] /\ InHand(at[v]) /\ AtEvent(at[v])
    BY <2>1, <1>8 DEF InHand, AtEvent
  <2>3. EventAt(at[v]) # e /\ EventAt(at[v]) \in Events
    BY <2>1, <2>2, <1>2, OneHand, BusyEvent DEF e
  <2> QED BY <2>2, <2>3, <1>9 DEF ExecInv, Exec, HandI
<1>14. OutI(at', out')
  BY <1>0, <1>2, <1>6, <1>7, <1>8 DEF ExecInv, Exec, OutI, c
<1>15. ResultI(at', taken', result', completed')
  BY <1>0, <1>7, <1>8 DEF ExecInv, Exec, ResultI
<1> QED BY <1>0, <1>8, <1>10, <1>11, <1>12, <1>13, <1>14, <1>15 DEF ExecNext, Exec

LEMMA powerflowStep ==
    ASSUME ExecInv, NEW w \in job.pool, powerflow(w)
    PROVE  /\ ExecNext
           /\ \A d \in completed : result'[d] = result[d]
<1> DEFINE c == at[w].cont
           r == Arrive(c, at[w].stage + 1, 1)
<1>0. /\ at[w].step = "solve"
      /\ result' = [result EXCEPT ![c] = out[c]]
      /\ added' = added /\ taken' = taken /\ out' = out /\ target' = target
      /\ completed' = completed
  BY DEF powerflow, report
<1>1. TypeI(added, at, taken, target, out, result, completed) /\ job \in Jobs
  BY DEF ExecInv, Exec
<1>2. Busy(at[w]) /\ ~InHand(at[w]) /\ ~Ended(at[w])
  BY <1>0 DEF Busy, InHand, Ended
<1>3. /\ at[w] \in Thread /\ c \in Conts /\ Placed(at[w]) /\ c # Master
      /\ c \in (start + 1)..taken
  BY <1>2, BusyCont
<1>4. at' = [at EXCEPT ![w] = r]
  BY <1>1 DEF powerflow, TypeI
<1>5. /\ at[w].stage \in 1..Len(Stages(c))
      /\ at[w].idx = Len(Stages(c)[at[w].stage]) + 1
  BY <1>0, <1>1, <1>3, StageTypes DEF Placed, Place
<1>6. Place(c, at[w].stage + 1, 1)
  BY <1>1, <1>3, <1>5, StageTypes DEF Place
<1>7. /\ r \in Thread /\ Placed(r) /\ Busy(r) /\ r.cont = c
      /\ r.step \in {"update", "solve", "finish"}
      /\ Tripped(r) = Before(c, at[w].stage + 1, 1)
      /\ Ended(r) => at[w].stage + 1 = Len(Stages(c)) + 1
  BY <1>1, <1>3, <1>6, ArrivePlaced
<1>8. Tripped(r) = Tripped(at[w])
  BY <1>0, <1>1, <1>3, <1>5, <1>7, BeforeStage DEF Tripped
<1>9. Ended(r) => Tripped(r) = Outages(c)
  BY <1>1, <1>3, <1>7, BeforeEnd
<1> HIDE DEF r, c
<1>10. /\ at' \in [job.pool -> Thread] /\ at'[w] = r
       /\ \A v \in job.pool : v # w => at'[v] = at[v]
       /\ PlaceI(at', taken) /\ OwnI(at')
  BY <1>2, <1>4, <1>7, Moved DEF c
<1>11. result' \in [Conts -> SUBSET Nat] /\ result'[c] = out[c]
       /\ \A d \in Conts : d # c => result'[d] = result[d]
  BY <1>0, <1>1, <1>3 DEF TypeI
<1>12. TypeI(added', at', taken', target', out', result', completed')
  BY <1>0, <1>1, <1>10, <1>11 DEF TypeI
<1>13. c \notin completed
  BY <1>0, <1>2 DEF ExecInv, Exec, DoneI, c
<1>14. DoneI(at', taken', completed')
  BY <1>0, <1>7, <1>10, <1>13 DEF ExecInv, Exec, DoneI
<1>15. TargetI(at', target')
  BY <1>0, <1>2, <1>10, TargetKept
<1>16. HandI(at', target')
  BY <1>0, <1>7, <1>10 DEF ExecInv, Exec, HandI, InHand
<1>17. OutI(at', out')
  BY <1>0, <1>2, <1>7, <1>8, <1>10 DEF ExecInv, Exec, OutI, c
<1>18. \A d \in completed : d # c /\ d \in Conts /\ result'[d] = result[d]
  BY <1>1, <1>11, <1>13 DEF TypeI
<1>19. ResultI(at', taken', result', completed')
  <2>1. \A d \in Conts : d > taken => d # c /\ result'[d] = {}
    BY <1>1, <1>3, <1>11, Numbers DEF ExecInv, Exec, ResultI, TypeI, Conts
  <2>2. ASSUME ~Shared, NEW v \in job.pool, Ended(at'[v])
        PROVE  result'[at'[v].cont] = Outages(at'[v].cont)
    <3>1. CASE v = w
      <4>1. out[c] = Tripped(at[w])
        BY <2>2, <1>2 DEF ExecInv, Exec, OutI, c
      <4> QED BY <3>1, <4>1, <2>2, <1>7, <1>8, <1>9, <1>10, <1>11
    <3>2. CASE v # w
      <4>1. at'[v] = at[v] /\ Ended(at[v]) /\ Busy(at[v])
        BY <3>2, <2>2, <1>10 DEF Ended, Busy
      <4>2. at[v].cont # c /\ at[v].cont \in Conts
        BY <3>2, <4>1, <1>2, BusyCont DEF ExecInv, Exec, OwnI, c
      <4> QED BY <4>1, <4>2, <2>2, <1>11 DEF ExecInv, Exec, ResultI
    <3> QED BY <3>1, <3>2
  <2>3. ~Shared => \A d \in completed : result'[d] = Outages(d)
    BY <1>18 DEF ExecInv, Exec, ResultI
  <2> QED BY <2>1, <2>2, <2>3, <1>0 DEF ResultI
<1> QED BY <1>0, <1>10, <1>12, <1>14, <1>15, <1>16, <1>17, <1>18, <1>19 DEF ExecNext, Exec

LEMMA finishStep ==
    ASSUME ExecInv, NEW w \in job.pool, finish(w)
    PROVE  ExecNext
<1> DEFINE c == at[w].cont
           r == [at[w] EXCEPT !.step = "leave"]
<1>0. /\ at[w].step = "finish" /\ at' = [at EXCEPT ![w].step = "leave"]
      /\ completed' = completed \cup {c}
      /\ added' = added /\ taken' = taken /\ out' = out /\ target' = target
      /\ result' = result
  BY DEF finish, GoTo, report
<1>1. TypeI(added, at, taken, target, out, result, completed) /\ job \in Jobs
  BY DEF ExecInv, Exec
<1>2. Busy(at[w]) /\ ~InHand(at[w]) /\ Ended(at[w])
  BY <1>0 DEF Busy, InHand, Ended
<1>3. /\ at[w] \in Thread /\ c \in Conts /\ Placed(at[w])
      /\ c \in (start + 1)..taken
  BY <1>2, BusyCont
<1>4. /\ r \in Thread /\ r.cont = c /\ r.stage = at[w].stage /\ r.idx = at[w].idx
      /\ r.step = "leave"
  BY <1>3 DEF Thread, Steps
<1>5. at' = [at EXCEPT ![w] = r]
  BY <1>0, <1>1 DEF TypeI
<1> HIDE DEF r, c
<1>6. Placed(r) /\ Busy(r) /\ Ended(r) /\ ~InHand(r) /\ Tripped(r) = Tripped(at[w])
  <2>1. Placed(r)
    BY <1>2, <1>3, <1>4 DEF Placed, AtEvent, Ended, c
  <2>2. Tripped(r) = Tripped(at[w])
    BY <1>0, <1>4 DEF Tripped, c
  <2> QED BY <2>1, <2>2, <1>4 DEF Busy, Ended, InHand
<1>7. /\ at' \in [job.pool -> Thread] /\ at'[w] = r
      /\ \A v \in job.pool : v # w => at'[v] = at[v]
      /\ PlaceI(at', taken) /\ OwnI(at')
  BY <1>2, <1>4, <1>5, <1>6, Moved DEF c
<1>8. TypeI(added', at', taken', target', out', result', completed')
  BY <1>0, <1>1, <1>3, <1>7 DEF TypeI
<1>9. DoneI(at', taken', completed')
  <2>1. completed' \subseteq (start + 1)..taken
    BY <1>0, <1>3 DEF ExecInv, Exec, DoneI
  <2>2. \A v \in job.pool : v # w /\ Busy(at[v]) => at[v].cont # c
    BY <1>2 DEF ExecInv, Exec, OwnI, c
  <2>3. ASSUME NEW v \in job.pool, Busy(at'[v])
        PROVE  at'[v].cont \in completed' <=> at'[v].step = "leave"
    <3>1. CASE v = w
      <4>1. c \in completed'
        BY <1>0
      <4>2. at'[v].cont = c /\ at'[v].step = "leave"
        BY <3>1, <1>4, <1>7
      <4> QED BY <4>1, <4>2
    <3>2. CASE v # w
      <4>1. at'[v] = at[v] /\ at[v].cont # c
        BY <3>2, <2>2, <2>3, <1>7
      <4>2. at[v].cont \in completed <=> at[v].step = "leave"
        BY <4>1, <2>3 DEF ExecInv, Exec, DoneI
      <4> QED BY <4>1, <4>2, <1>0
    <3> QED BY <3>1, <3>2
  <2> QED BY <2>1, <2>3, <1>0 DEF DoneI
<1>10. TargetI(at', target')
  BY <1>0, <1>2, <1>7, TargetKept
<1>11. HandI(at', target')
  BY <1>0, <1>6, <1>7 DEF ExecInv, Exec, HandI
<1>12. OutI(at', out')
  BY <1>0, <1>2, <1>4, <1>6, <1>7 DEF ExecInv, Exec, OutI, c
<1>13. ResultI(at', taken', result', completed')
  <2>1. ~Shared => result[c] = Outages(c)
    BY <1>2 DEF ExecInv, Exec, ResultI, c
  <2> QED BY <2>1, <1>0, <1>4, <1>7 DEF ExecInv, Exec, ResultI
<1> QED BY <1>0, <1>7, <1>8, <1>9, <1>10, <1>11, <1>12, <1>13 DEF ExecNext, Exec

LEMMA leaveStep ==
    ASSUME ExecInv, NEW w \in job.pool, leave(w)
    PROVE  ExecNext
<1>0. /\ at[w].step = "leave" /\ at' = [at EXCEPT ![w] = Idle]
      /\ added' = added /\ taken' = taken /\ out' = out /\ target' = target
      /\ result' = result /\ completed' = completed
  BY DEF leave, report
<1>1. TypeI(added, at, taken, target, out, result, completed)
  BY DEF ExecInv, Exec
<1>2. Idle \in Thread /\ ~Busy(Idle) /\ ~InHand(Idle) /\ ~Ended(Idle)
  BY DEF Idle, Thread, Steps, Busy, InHand, Ended
<1>3. /\ at' \in [job.pool -> Thread] /\ at'[w] = Idle
      /\ \A v \in job.pool : v # w => at'[v] = at[v]
  BY <1>0, <1>1, <1>2 DEF TypeI
<1>4. TypeI(added', at', taken', target', out', result', completed')
  BY <1>0, <1>1, <1>3 DEF TypeI
<1>5. PlaceI(at', taken')
  BY <1>0, <1>2, <1>3 DEF ExecInv, Exec, PlaceI
<1>6. OwnI(at')
  BY <1>2, <1>3 DEF ExecInv, Exec, OwnI
<1>7. DoneI(at', taken', completed')
  BY <1>0, <1>2, <1>3 DEF ExecInv, Exec, DoneI
<1>8. TargetI(at', target')
  BY <1>0, <1>3, TargetKept DEF InHand
<1>9. HandI(at', target')
  BY <1>0, <1>2, <1>3 DEF ExecInv, Exec, HandI
<1>10. OutI(at', out')
  BY <1>0, <1>2, <1>3 DEF ExecInv, Exec, OutI
<1>11. ResultI(at', taken', result', completed')
  BY <1>0, <1>2, <1>3 DEF ExecInv, Exec, ResultI
<1> QED BY <1>4, <1>5, <1>6, <1>7, <1>8, <1>9, <1>10, <1>11 DEF ExecNext, Exec

\* The thread of the analysis hands out contingencies and writes the report.
LEMMA addWorkBlockStep ==
    ASSUME ExecInv, addWorkBlock
    PROVE  ExecNext
<1>0. /\ added' = added + 1 /\ added < Len(job.list)
      /\ taken' = taken /\ at' = at /\ target' = target /\ out' = out
      /\ result' = result /\ completed' = completed
  BY DEF addWorkBlock, More
<1>1. TypeI(added, at, taken, target, out, result, completed) /\ Len(job.list) \in Nat
  BY Numbers DEF ExecInv, Exec
<1>2. TypeI(added', at', taken', target', out', result', completed')
  BY <1>0, <1>1, Numbers DEF TypeI, ExecInv
<1> QED BY <1>0, <1>2 DEF ExecInv, Exec, ExecNext

LEMMA ExecStep ==
    ASSUME ExecInv, [Next]_vars
    PROVE  ExecInv' /\ job' = job /\ completed \subseteq completed'
           /\ \A d \in completed : result'[d] = result[d]
<1> DEFINE Kept == \A d \in completed : result'[d] = result[d]
<1>1. CASE addWorkBlock
  <2>1. job' = job /\ completed' = completed /\ Kept
    BY <1>1 DEF addWorkBlock
  <2> QED BY <1>1, <2>1, addWorkBlockStep, ExecPrimed DEF ExecNext, ExecInv
<1>2. CASE UNCHANGED execution
  <2>1. job' = job /\ completed' = completed /\ Kept
    BY <1>2 DEF execution
  <2>2. ExecNext
    BY <1>2 DEF execution, ExecInv, ExecNext
  <2> QED BY <2>1, <2>2, ExecPrimed DEF ExecNext, ExecInv
<1>3. CASE \E w \in job.pool : Execute(w)
  <2>1. PICK w \in job.pool : Execute(w)
    BY <1>3
  <2>2. job' = job
    BY <2>1 DEF Execute, cloneSim, updateObject, trigger, mapBack, powerflow, finish, leave
  <2>3. completed \subseteq completed'
    BY <2>1 DEF Execute, cloneSim, updateObject, trigger, mapBack, powerflow, finish, leave
  <2>4. Kept
    <3>1. CASE powerflow(w)
      BY <3>1, powerflowStep
    <3>2. CASE ~powerflow(w)
      BY <3>2, <2>1 DEF Execute, cloneSim, updateObject, trigger, mapBack, finish, leave
    <3> QED BY <3>1, <3>2
  <2>5. ExecNext
    BY <2>1, cloneSimStep, updateObjectStep, triggerStep, mapBackStep, powerflowStep,
       finishStep, leaveStep DEF Execute
  <2> QED BY <2>2, <2>3, <2>4, <2>5, ExecPrimed DEF ExecNext, ExecInv
<1>4. addWorkBlock \/ UNCHANGED execution \/ \E w \in job.pool : Execute(w)
  BY DEF Next, Analysis, startReport, writeHeader, writeLine, timeout, afterTimeout,
         endLoop, retry, writeLate, endWaiting, execution, vars
<1> QED BY <1>1, <1>2, <1>3, <1>4

-----------------------------------------------------------------------------
(* The report.                                                             *)

\* A line more.
LEMMA Written ==
    ASSUME ReportType, NEW c \in Nat, result[c] \in SUBSET Nat, Write(c)
    PROVE  /\ lines' \in Seq(LineType) /\ Len(lines') = Len(lines) + 1
           /\ DOMAIN lines' = 1..(Len(lines) + 1) /\ DOMAIN lines = 1..Len(lines)
           /\ Len(lines) \in Nat
           /\ \A k \in 1..Len(lines) : lines'[k] = lines[k]
           /\ lines'[Len(lines) + 1] = [cont |-> c, outages |-> result[c]]
           /\ lines'[Len(lines) + 1].cont = c
           /\ lines'[Len(lines) + 1].outages = result[c]
           /\ Reported(lines', c)
           /\ \A d : Reported(lines, d) => Reported(lines', d)
<1> DEFINE l == [cont |-> c, outages |-> result[c]]
<1>1. l \in LineType /\ l.cont = c /\ l.outages = result[c]
  BY DEF LineType
<1>2. lines \in Seq(LineType) /\ lines' = Append(lines, l)
  BY DEF ReportType, LineType, Write
<1> HIDE DEF l
<1>3. /\ lines' \in Seq(LineType) /\ Len(lines') = Len(lines) + 1 /\ Len(lines) \in Nat
      /\ DOMAIN lines' = 1..(Len(lines) + 1) /\ DOMAIN lines = 1..Len(lines)
      /\ \A k \in 1..Len(lines) : lines'[k] = lines[k]
      /\ lines'[Len(lines) + 1] = l
  BY <1>1, <1>2
<1>4. Reported(lines', c)
  BY <1>1, <1>3 DEF Reported
<1>5. \A d : Reported(lines, d) => Reported(lines', d)
  BY <1>3 DEF Reported
<1> QED BY <1>1, <1>3, <1>4, <1>5 DEF l

\* A line more is final, and it is the first of its contingency or late.
LEMMA WrittenFinal ==
    ASSUME ReportType, LinesFinal, NEW c \in completed, c \in Nat,
           result[c] \in SUBSET Nat, Write(c), Late(c) \/ ~Reported(lines, c),
           timedOut' = timedOut, result' = result, completed' = completed
    PROVE  LinesFinal'
<1>0. /\ Len(lines) \in Nat
      /\ DOMAIN lines' = 1..(Len(lines) + 1) /\ DOMAIN lines = 1..Len(lines)
      /\ \A k \in 1..Len(lines) : lines'[k] = lines[k]
      /\ lines'[Len(lines) + 1].cont = c
      /\ lines'[Len(lines) + 1].outages = result[c]
  BY Written
<1>1. ASSUME NEW k \in DOMAIN lines'
      PROVE  lines'[k].cont \in completed /\ lines'[k].outages = result[lines'[k].cont]
  <2>1. CASE k \in 1..Len(lines)
    <3>1. lines'[k] = lines[k] /\ k \in DOMAIN lines
      BY <1>0, <2>1
    <3> QED BY <3>1 DEF LinesFinal
  <2>2. CASE k = Len(lines) + 1
    BY <2>2, <1>0
  <2> QED BY <2>1, <2>2, <1>0
<1>2. ASSUME NEW k \in DOMAIN lines', NEW m \in DOMAIN lines', k < m,
             lines'[k].cont = lines'[m].cont
      PROVE  Late(lines'[k].cont)
  <2>1. k \in 1..Len(lines) /\ k \in DOMAIN lines
    BY <1>0, <1>2
  <2>2. lines'[k] = lines[k]
    BY <1>0, <2>1
  <2>3. CASE m \in 1..Len(lines)
    <3>1. lines'[m] = lines[m] /\ m \in DOMAIN lines
      BY <1>0, <2>3
    <3> QED BY <2>1, <2>2, <3>1, <1>2 DEF LinesFinal, Late
  <2>4. CASE m = Len(lines) + 1
    <3>1. lines[k].cont = c
      BY <2>2, <2>4, <1>0, <1>2
    <3>2. Reported(lines, c)
      BY <2>1, <3>1 DEF Reported
    <3> QED BY <2>2, <3>1, <3>2
  <2> QED BY <2>3, <2>4, <1>0
<1> QED BY <1>1, <1>2 DEF LinesFinal, Late

\* Facts about numbers that every step needs.
LEMMA ReportFacts ==
    ASSUME IInv
    PROVE  /\ job \in Jobs /\ start \in Nat /\ numContingencies \in Nat
           /\ Len(job.list) \in Nat /\ added \in Nat /\ start <= added
           /\ added <= Len(job.list) \/ added = start
           /\ pos \in Nat /\ Len(lines) \in Nat /\ Len(timedOut) \in Nat
           /\ DOMAIN lines = 1..Len(lines) /\ DOMAIN timedOut = 1..Len(timedOut)
           /\ \A c \in completed : c \in Conts /\ c \in Nat /\ result[c] \in SUBSET Nat
<1>1. /\ TypeI(added, at, taken, target, out, result, completed) /\ job \in Jobs
      /\ ReportType
  BY DEF IInv, ExecInv, Exec, ReportInv
<1>2. start \in Nat /\ numContingencies \in Nat /\ Len(job.list) \in Nat
  BY <1>1, Numbers
<1>3. /\ added \in Nat /\ start <= added /\ (added <= Len(job.list) \/ added = start)
  BY <1>1, <1>2 DEF TypeI
<1>4. \A c \in completed : c \in Conts /\ c \in Nat /\ result[c] \in SUBSET Nat
  BY <1>1, <1>2 DEF TypeI, Conts
<1>5. /\ pos \in Nat /\ Len(lines) \in Nat /\ Len(timedOut) \in Nat
      /\ DOMAIN lines = 1..Len(lines) /\ DOMAIN timedOut = 1..Len(timedOut)
  BY <1>1 DEF ReportType
<1> QED BY <1>1, <1>2, <1>3, <1>4, <1>5

LEMMA SameNumbers ==
    ASSUME job' = job
    PROVE  start' = start /\ numContingencies' = numContingencies
BY DEF start, numContingencies

\* Nothing in the report changes: a step of a thread, or none.
LEMMA ReportSame ==
    ASSUME IInv, job' = job, main' = main, added' = added, UNCHANGED report,
           completed \subseteq completed',
           \A d \in completed : result'[d] = result[d]
    PROVE  ReportInv'
<1>1. start' = start /\ numContingencies' = numContingencies
  BY SameNumbers
<1>2. pos' = pos /\ timedOut' = timedOut /\ lines' = lines
  BY DEF report
<1>3. ReportType' /\ HandedInv'
  BY <1>1, <1>2 DEF IInv, ReportInv, ReportType, HandedInv, More
<1>4. TurnInv'
  BY <1>1, <1>2 DEF IInv, ReportInv, TurnInv, Late, Reported
<1>5. TailInv'
  BY <1>1, <1>2 DEF IInv, ReportInv, TailInv, Looped, AllReported, Late, Reported
<1>6. LinesFinal'
  BY <1>2 DEF IInv, ReportInv, LinesFinal
<1> QED BY <1>3, <1>4, <1>5, <1>6 DEF ReportInv

LEMMA addWorkBlockReport ==
    ASSUME IInv, addWorkBlock
    PROVE  ReportInv'
<1>1. /\ main = "adding" /\ main' = "adding" /\ added' = added + 1 /\ job' = job
      /\ pos' = pos /\ timedOut' = timedOut /\ lines' = lines
      /\ completed' = completed /\ result' = result
      /\ numContingencies = 0 \/ added - start <= numContingencies
  BY DEF addWorkBlock, report, More
<1>2. start' = start /\ numContingencies' = numContingencies
  BY <1>1, SameNumbers
<1>3. ReportType'
  BY <1>1 DEF IInv, ReportInv, ReportType
<1>4. HandedInv'
  BY <1>1, <1>2, ReportFacts DEF HandedInv
<1>5. TurnInv'
  BY <1>1, <1>2 DEF IInv, ReportInv, TurnInv, Late, Reported
<1>6. TailInv'
  BY <1>1 DEF TailInv, Looped
<1>7. LinesFinal'
  BY <1>1 DEF IInv, ReportInv, LinesFinal
<1> QED BY <1>3, <1>4, <1>5, <1>6, <1>7 DEF ReportInv

LEMMA startReportReport ==
    ASSUME IInv, startReport
    PROVE  ReportInv'
<1>1. /\ main = "adding" /\ ~More
      /\ main' = IF NoneUsed \/ job.output = "database" THEN "done" ELSE "first"
      /\ added' = added /\ job' = job
      /\ pos' = pos /\ timedOut' = timedOut /\ lines' = lines
      /\ completed' = completed /\ result' = result
  BY DEF startReport, report
<1>2. start' = start /\ numContingencies' = numContingencies
  BY <1>1, SameNumbers
<1>3. ReportType'
  BY <1>1 DEF IInv, ReportInv, ReportType, MainSteps
<1>4. HandedInv'
  BY <1>1, <1>2 DEF IInv, ReportInv, HandedInv, More
<1>5. TurnInv'
  BY <1>1, <1>2 DEF IInv, ReportInv, TurnInv, Late, Reported
<1>6. TailInv'
  <2>1. CASE main' = "done" /\ job.output = "file"
    <3>1. added = start
      BY <2>1, <1>1, ReportFacts DEF NoneUsed
    <3>2. \A c \in (start + 1)..added : FALSE
      BY <3>1, ReportFacts
    <3>3. lines = <<>>
      BY <1>1 DEF IInv, ReportInv, TurnInv
    <3>4. Len(lines) = 0
      BY <3>3
    <3> QED BY <2>1, <3>2, <3>4, <1>1, <1>2, ReportFacts DEF TailInv, Looped, AllReported
  <2>2. CASE ~(main' = "done" /\ job.output = "file")
    BY <2>2, <1>1 DEF TailInv, Looped
  <2> QED BY <2>1, <2>2
<1>7. LinesFinal'
  BY <1>1 DEF IInv, ReportInv, LinesFinal
<1> QED BY <1>3, <1>4, <1>5, <1>6, <1>7 DEF ReportInv

LEMMA writeHeaderReport ==
    ASSUME IInv, writeHeader
    PROVE  ReportInv'
<1>1. /\ main = "first" /\ main' = "loop"
      /\ added' = added /\ job' = job
      /\ pos' = pos /\ timedOut' = timedOut /\ lines' = lines
      /\ completed' = completed /\ result' = result
  BY DEF writeHeader, report, execution
<1>2. start' = start /\ numContingencies' = numContingencies
  BY <1>1, SameNumbers
<1>3. ReportType'
  BY <1>1 DEF IInv, ReportInv, ReportType, MainSteps
<1>4. HandedInv'
  BY <1>1, <1>2 DEF IInv, ReportInv, HandedInv, More
<1>5. TurnInv'
  <2>1. pos = start + 1 /\ lines = <<>> /\ timedOut = <<>>
    BY <1>1 DEF IInv, ReportInv, TurnInv
  <2>2. \A c \in (start + 1)..(pos - 1) : FALSE
    BY <2>1, ReportFacts
  <2>3. Len(lines) = 0
    BY <2>1
  <2> QED BY <2>1, <2>2, <2>3, <1>1, <1>2, ReportFacts DEF TurnInv
<1>6. TailInv'
  BY <1>1 DEF TailInv, Looped
<1>7. LinesFinal'
  BY <1>1 DEF IInv, ReportInv, LinesFinal
<1> QED BY <1>3, <1>4, <1>5, <1>6, <1>7 DEF ReportInv

LEMMA LineConts ==
    ASSUME ReportType
    PROVE  \A k \in DOMAIN lines : lines[k].cont \in Nat
<1>1. lines \in Seq(LineType)
  BY DEF ReportType, LineType
<1> SUFFICES ASSUME NEW k \in DOMAIN lines PROVE lines[k].cont \in Nat
  OBVIOUS
<1>2. lines[k] \in LineType
  BY <1>1
<1> QED BY <1>2 DEF LineType

\* What TurnInv says of the first loop.
LEMMA InLoop ==
    ASSUME IInv, main \in {"loop", "late"}
    PROVE  /\ start < pos /\ pos <= added + 1
           /\ \A k \in DOMAIN lines : lines[k].cont < pos
           /\ \A c \in (start + 1)..(pos - 1) : Late(c) \/ Reported(lines, c)
           /\ Len(lines) <= (pos - 1) - start
           /\ numContingencies > 0 => Len(lines) <= numContingencies
           /\ main = "late" => pos <= added /\ Late(pos)
           /\ ~Reported(lines, pos)
<1>1. TurnInv
  BY DEF IInv, ReportInv
<1>2. \A k \in DOMAIN lines : lines[k].cont < pos
  BY <1>1 DEF TurnInv
<1>3. \A k \in DOMAIN lines : lines[k].cont \in Nat
  BY LineConts DEF IInv, ReportInv
<1>4. ~Reported(lines, pos)
  BY <1>2, <1>3, ReportFacts DEF Reported
<1> QED BY <1>1, <1>2, <1>4 DEF TurnInv

\* A contingency has had its turn: it is written, or it is late and is not.
LEMMA TurnTaken ==
    ASSUME IInv, main \in {"loop", "late"}, pos <= added, UNCHANGED execution,
           timedOut' = timedOut, NextTurn,
           \/ Write(pos) /\ pos \in completed
           \/ main = "late" /\ lines' = lines
    PROVE  ReportInv'
<1>1. /\ job' = job /\ added' = added /\ completed' = completed /\ result' = result
      /\ pos' = pos + 1 /\ main' = IF Enough THEN "retry" ELSE "loop"
  BY DEF execution, NextTurn
<1>2. start' = start /\ numContingencies' = numContingencies
  BY <1>1, SameNumbers
<1>3. ReportType /\ LinesFinal /\ HandedInv
  BY DEF IInv, ReportInv
<1>4. /\ start \in Nat /\ numContingencies \in Nat /\ added \in Nat /\ pos \in Nat
      /\ Len(lines) \in Nat /\ Len(timedOut) \in Nat /\ start < pos
  BY ReportFacts, InLoop
<1>5. Late(pos) \/ ~Reported(lines, pos)
  BY InLoop
<1>6. LinesFinal'
  <2>1. CASE Write(pos) /\ pos \in completed
    BY <2>1, <1>1, <1>3, <1>5, WrittenFinal, ReportFacts
  <2>2. CASE lines' = lines
    BY <2>2, <1>1, <1>3 DEF LinesFinal
  <2> QED BY <2>1, <2>2
<1>7. lines' \in Seq(LineType) /\ Len(lines') \in Nat
  <2>1. CASE Write(pos) /\ pos \in completed
    <3>1. lines' \in Seq(LineType) /\ Len(lines') = Len(lines) + 1
      BY <2>1, <1>3, Written, ReportFacts
    <3> QED BY <3>1, <1>4
  <2>2. CASE lines' = lines
    BY <2>2, <1>3, <1>4 DEF ReportType, LineType
  <2> QED BY <2>1, <2>2
<1>8. \A k \in DOMAIN lines' : lines'[k].cont < pos + 1
  <2>0. \A k \in DOMAIN lines : lines[k].cont < pos /\ lines[k].cont \in Nat
    BY InLoop, <1>3, LineConts
  <2>1. CASE Write(pos) /\ pos \in completed
    <3>1. /\ DOMAIN lines' = 1..(Len(lines) + 1) /\ DOMAIN lines = 1..Len(lines)
          /\ \A k \in 1..Len(lines) : lines'[k] = lines[k]
          /\ lines'[Len(lines) + 1].cont = pos
      BY <2>1, <1>3, Written, ReportFacts
    <3> QED BY <3>1, <2>0, <1>4
  <2>2. CASE lines' = lines
    BY <2>0, <2>2, <1>4
  <2> QED BY <2>1, <2>2
<1>9. \A c \in (start + 1)..pos : Late(c) \/ Reported(lines', c)
  <2> SUFFICES ASSUME NEW c \in (start + 1)..pos
               PROVE  Late(c) \/ Reported(lines', c)
    OBVIOUS
  <2>1. CASE Write(pos) /\ pos \in completed
    <3>1. Reported(lines', pos) /\ (Reported(lines, c) => Reported(lines', c))
      BY <2>1, <1>3, Written, ReportFacts
    <3>2. CASE c = pos
      BY <3>1, <3>2
    <3>3. CASE c # pos
      <4>1. c \in (start + 1)..(pos - 1)
        BY <3>3, <1>4
      <4> QED BY <4>1, <3>1, InLoop
    <3> QED BY <3>2, <3>3
  <2>2. CASE main = "late" /\ lines' = lines
    <3>1. CASE c = pos
      BY <3>1, <2>2, InLoop
    <3>2. CASE c # pos
      <4>1. c \in (start + 1)..(pos - 1)
        BY <3>2, <1>4
      <4> QED BY <4>1, <2>2, InLoop
    <3> QED BY <3>1, <3>2
  <2> QED BY <2>1, <2>2
<1>10. Len(lines') <= pos - start /\ Len(lines') <= Len(lines) + 1
  <2>1. CASE Write(pos) /\ pos \in completed
    <3>1. Len(lines') = Len(lines) + 1
      BY <2>1, <1>3, Written, ReportFacts
    <3> QED BY <3>1, <1>4, InLoop
  <2>2. CASE main = "late" /\ lines' = lines
    BY <2>2, <1>4, InLoop
  <2> QED BY <2>1, <2>2
<1>11. ReportType'
  BY <1>1, <1>3, <1>4, <1>7 DEF ReportType, MainSteps, LineType
<1>12. HandedInv'
  BY <1>1, <1>2, <1>3 DEF HandedInv, More
<1>13. TurnInv'
  <2>1. CASE main' = "loop"
    <3>1. \A c \in (start + 1)..((pos + 1) - 1) : Late(c) \/ Reported(lines', c)
      BY <1>4, <1>9
    <3>2. Len(lines') <= ((pos + 1) - 1) - start
      BY <1>4, <1>7, <1>10
    <3>3. numContingencies > 0 => Len(lines') <= numContingencies
      BY <2>1, <1>1, <1>2, <1>4, <1>7 DEF Enough
    <3>4. start < pos + 1 /\ pos + 1 <= added + 1
      BY <1>4
    <3> QED BY <2>1, <3>1, <3>2, <3>3, <3>4, <1>1, <1>2, <1>8 DEF TurnInv, Late, Reported
  <2>2. CASE main' = "retry"
    BY <2>2 DEF TurnInv
  <2> QED BY <2>1, <2>2, <1>1
<1>14. TailInv'
  <2>1. CASE main' = "loop"
    BY <2>1 DEF TailInv, Looped
  <2>2. CASE main' = "retry"
    <3>1. numContingencies > 0 /\ Len(lines') > numContingencies
      BY <2>2, <1>1, <1>2 DEF Enough
    <3>2. added - start <= numContingencies + 1
      BY <3>1, <1>3 DEF HandedInv
    <3>3. added <= pos
      BY <3>1, <3>2, <1>4, <1>7, <1>10
    <3>4. \A c \in (start + 1)..added : c \in (start + 1)..pos
      BY <3>3, <1>4
    <3>5. \A c \in (start + 1)..added : Late(c) \/ Reported(lines', c)
      BY <3>4, <1>9
    <3>6. Len(lines') <= numContingencies + 1
      BY <3>1, <1>4, <1>7, <1>10, InLoop
    <3> QED BY <2>2, <3>5, <3>6, <1>1, <1>2 DEF TailInv, Looped, Late, Reported
  <2> QED BY <2>1, <2>2, <1>1
<1> QED BY <1>6, <1>11, <1>12, <1>13, <1>14 DEF ReportInv

LEMMA timeoutReport ==
    ASSUME IInv, timeout
    PROVE  ReportInv'
<1>1. /\ main = "loop" /\ main' = "late" /\ pos <= added
      /\ added' = added /\ job' = job
      /\ pos' = pos /\ timedOut' = Append(timedOut, pos) /\ lines' = lines
      /\ completed' = completed /\ result' = result
  BY DEF timeout, execution
<1>2. start' = start /\ numContingencies' = numContingencies
  BY <1>1, SameNumbers
<1>3. ReportType /\ LinesFinal /\ HandedInv
  BY DEF IInv, ReportInv
<1>4. /\ timedOut' \in Seq(Nat) /\ Len(timedOut') = Len(timedOut) + 1
      /\ DOMAIN timedOut' = 1..(Len(timedOut) + 1) /\ timedOut'[Len(timedOut) + 1] = pos
      /\ \A i \in 1..Len(timedOut) : timedOut'[i] = timedOut[i]
      /\ DOMAIN timedOut = 1..Len(timedOut) /\ Len(timedOut) \in Nat /\ pos \in Nat
  BY <1>1, <1>3 DEF ReportType
<1>6. \A c : Late(c) => Late(c)'
  <2> SUFFICES ASSUME NEW c, Late(c) PROVE \E i \in DOMAIN timedOut' : timedOut'[i] = c
    BY DEF Late
  <2>1. PICK i \in DOMAIN timedOut : timedOut[i] = c
    BY DEF Late
  <2> QED BY <2>1, <1>4
<1>7. \E i \in DOMAIN timedOut' : timedOut'[i] = pos
  BY <1>4
<1>8. ReportType'
  BY <1>1, <1>3, <1>4 DEF ReportType, MainSteps
<1>9. HandedInv'
  BY <1>1, <1>2, <1>3 DEF HandedInv, More
<1>10. TurnInv'
  <2>1. \A c \in (start + 1)..(pos - 1) :
            (\E i \in DOMAIN timedOut' : timedOut'[i] = c) \/ Reported(lines, c)
    BY <1>1, <1>6, InLoop DEF Late
  <2>3. start < pos /\ pos <= added + 1 /\ \A k \in DOMAIN lines : lines[k].cont < pos
    BY <1>1, InLoop
  <2>4. /\ Len(lines) <= (pos - 1) - start
        /\ numContingencies > 0 => Len(lines) <= numContingencies
    BY <1>1, InLoop
  <2> QED BY <2>1, <2>3, <2>4, <1>1, <1>2, <1>7 DEF TurnInv, Late, Reported
<1>11. TailInv'
  BY <1>1 DEF TailInv, Looped
<1>12. LinesFinal'
  <2>1. ASSUME NEW k \in DOMAIN lines, NEW m \in DOMAIN lines, k < m,
               lines[k].cont = lines[m].cont
        PROVE  \E i \in DOMAIN timedOut' : timedOut'[i] = lines[k].cont
    BY <2>1, <1>3, <1>6 DEF LinesFinal, Late
  <2> QED BY <2>1, <1>1, <1>3 DEF LinesFinal
<1> QED BY <1>8, <1>9, <1>10, <1>11, <1>12 DEF ReportInv

LEMMA endLoopReport ==
    ASSUME IInv, endLoop
    PROVE  ReportInv'
<1>1. /\ main = "loop" /\ main' = "retry" /\ pos > added
      /\ added' = added /\ job' = job
      /\ pos' = pos /\ timedOut' = timedOut /\ lines' = lines
      /\ completed' = completed /\ result' = result
  BY DEF endLoop, report, execution
<1>2. start' = start /\ numContingencies' = numContingencies
  BY <1>1, SameNumbers
<1>3. ReportType /\ LinesFinal /\ HandedInv
  BY DEF IInv, ReportInv
<1>4. pos = added + 1
  BY <1>1, InLoop, ReportFacts
<1>5. \A c \in (start + 1)..added : Late(c) \/ Reported(lines, c)
  BY <1>1, <1>4, InLoop, ReportFacts
<1>6. numContingencies > 0 => Len(lines) <= numContingencies
  BY <1>1, InLoop
<1>7. numContingencies > 0 => Len(lines) <= numContingencies + 1
  BY <1>6, ReportFacts
<1>8. ReportType' /\ HandedInv' /\ LinesFinal'
  BY <1>1, <1>2, <1>3 DEF ReportType, MainSteps, HandedInv, More, LinesFinal
<1>9. TurnInv'
  BY <1>1 DEF TurnInv
<1>10. TailInv'
  BY <1>1, <1>2, <1>5, <1>7 DEF TailInv, Looped, Late, Reported
<1> QED BY <1>8, <1>9, <1>10 DEF ReportInv

LEMMA writeLineReport ==
    ASSUME IInv, writeLine
    PROVE  ReportInv'
BY TurnTaken DEF writeLine

LEMMA afterTimeoutReport ==
    ASSUME IInv, afterTimeout
    PROVE  ReportInv'
<1>1. /\ main = "late" /\ NextTurn /\ UNCHANGED execution /\ timedOut' = timedOut
      /\ (Write(pos) /\ pos \in completed) \/ lines' = lines
  BY DEF afterTimeout
<1>2. pos <= added
  BY <1>1, InLoop
<1> QED BY <1>1, <1>2, TurnTaken

LEMMA retryReport ==
    ASSUME IInv, retry
    PROVE  ReportInv'
<1>1. /\ main = "retry" /\ added' = added /\ job' = job
      /\ timedOut' = timedOut /\ lines' = lines
      /\ completed' = completed /\ result' = result
      /\ \/ Retried /\ main' = "waiting" /\ pos' = 1
         \/ ~Retried /\ main' = "done" /\ pos' = pos
  BY DEF retry, execution
<1>2. start' = start /\ numContingencies' = numContingencies
  BY <1>1, SameNumbers
<1>3. ReportType /\ LinesFinal /\ HandedInv /\ TailInv
  BY DEF IInv, ReportInv
<1>4. ReportType'
  BY <1>1, <1>3 DEF ReportType, MainSteps
<1>5. HandedInv' /\ LinesFinal'
  BY <1>1, <1>2, <1>3 DEF HandedInv, More, LinesFinal
<1>6. TurnInv'
  BY <1>1 DEF TurnInv
<1>7. /\ \A c \in (start + 1)..added : Late(c) \/ Reported(lines, c)
      /\ numContingencies > 0 => Len(lines) <= numContingencies + 1
  BY <1>1, <1>3 DEF TailInv, Looped
<1>8. TailInv'
  <2>1. CASE Retried /\ main' = "waiting" /\ pos' = 1
    <3>1. numContingencies > 0 /\ Len(lines) <= numContingencies
      BY <2>1, ReportFacts DEF Retried
    <3>2. \A i \in DOMAIN timedOut : ~(i < 1)
      BY ReportFacts
    <3> QED BY <2>1, <3>1, <3>2, <1>1, <1>2, <1>7 DEF TailInv, Looped, Late, Reported
  <2>2. CASE ~Retried /\ main' = "done" /\ pos' = pos
    <3>1. AllReported \/ numContingencies = 0 \/ Len(lines) >= numContingencies
      <4>1. CASE timedOut = <<>>
        BY <4>1, <1>7 DEF AllReported, Late
      <4>2. CASE timedOut # <<>>
        BY <4>2, <2>2, ReportFacts DEF Retried
      <4> QED BY <4>1, <4>2
    <3> QED BY <2>2, <3>1, <1>1, <1>2, <1>7
            DEF TailInv, Looped, AllReported, Late, Reported
  <2> QED BY <2>1, <2>2, <1>1
<1> QED BY <1>4, <1>5, <1>6, <1>8 DEF ReportInv

LEMMA writeLateReport ==
    ASSUME IInv, writeLate
    PROVE  ReportInv'
<1> DEFINE c == timedOut[pos]
<1>1. /\ main = "waiting" /\ added' = added /\ job' = job
      /\ timedOut' = timedOut /\ pos' = pos + 1 /\ pos <= Len(timedOut)
      /\ c \in completed /\ Write(c)
      /\ completed' = completed /\ result' = result
      /\ main' = IF Enough THEN "done" ELSE "waiting"
  BY DEF writeLate, execution
<1>2. start' = start /\ numContingencies' = numContingencies
  BY <1>1, SameNumbers
<1>3. ReportType /\ LinesFinal /\ HandedInv /\ TailInv
  BY DEF IInv, ReportInv
<1>4. pos \in DOMAIN timedOut /\ pos \in Nat \ {0}
  BY <1>1, <1>3, ReportFacts DEF ReportType
<1>5. Late(c) /\ timedOut # <<>>
  BY <1>4 DEF Late
<1> HIDE DEF c
<1>6. c \in Nat /\ result[c] \in SUBSET Nat
  BY <1>1, ReportFacts
<1>7. LinesFinal'
  BY <1>1, <1>3, <1>5, <1>6, WrittenFinal
<1>8. /\ lines' \in Seq(LineType) /\ Len(lines') = Len(lines) + 1
      /\ \A d : Reported(lines, d) => Reported(lines', d)
  BY <1>1, <1>3, <1>6, Written
<1>9. ReportType'
  BY <1>1, <1>3, <1>4, <1>8 DEF ReportType, MainSteps, LineType
<1>10. HandedInv'
  BY <1>1, <1>2, <1>3 DEF HandedInv, More
<1>11. TurnInv'
  BY <1>1 DEF TurnInv
<1>12. /\ start \in Nat /\ numContingencies \in Nat /\ added \in Nat /\ pos \in Nat
       /\ Len(lines) \in Nat /\ Len(timedOut) \in Nat
  BY ReportFacts
<1>13. TailInv'
  <2>0. /\ numContingencies > 0 /\ Len(lines) <= numContingencies
        /\ \A i \in DOMAIN timedOut : i < pos => Reported(lines, timedOut[i])
        /\ \A d \in (start + 1)..added : Late(d) \/ Reported(lines, d)
    BY <1>1, <1>3 DEF TailInv, Looped
  <2>1. \A d \in (start + 1)..added : Late(d) \/ Reported(lines', d)
    BY <2>0, <1>8
  <2>2. Len(lines') <= numContingencies + 1
    BY <2>0, <1>8, <1>12
  <2>3. CASE main' = "waiting"
    <3>1. Len(lines') <= numContingencies
      BY <2>0, <2>3, <1>1, <1>2, <1>8, <1>12 DEF Enough
    <3>2. ASSUME NEW i \in DOMAIN timedOut, i < pos + 1
          PROVE  Reported(lines', timedOut[i])
      <4>1. i \in Nat
        BY ReportFacts
      <4>2. i < pos \/ i = pos
        BY <3>2, <4>1, <1>12
      <4>3. Reported(lines', c)
        BY <1>1, <1>3, <1>6, Written
      <4> QED BY <4>2, <4>3, <2>0, <1>8 DEF c
    <3> QED BY <2>0, <2>1, <2>2, <2>3, <3>1, <3>2, <1>1, <1>2 DEF TailInv, Looped, Late, Reported
  <2>4. CASE main' = "done"
    <3>1. numContingencies > 0 /\ Len(lines') > numContingencies
      BY <2>4, <1>1, <1>2 DEF Enough
    <3>2. Len(lines') >= numContingencies
      BY <3>1, <1>8, <1>12
    <3> QED BY <2>1, <2>2, <2>4, <3>2, <1>1, <1>2 DEF TailInv, Looped, Late, Reported
  <2> QED BY <2>3, <2>4, <1>1
<1> QED BY <1>7, <1>9, <1>10, <1>11, <1>13 DEF ReportInv

LEMMA endWaitingReport ==
    ASSUME IInv, endWaiting
    PROVE  ReportInv'
<1>1. /\ main = "waiting" /\ main' = "done" /\ added' = added /\ job' = job
      /\ timedOut' = timedOut /\ lines' = lines /\ pos' = pos /\ pos > Len(timedOut)
      /\ completed' = completed /\ result' = result
  BY DEF endWaiting, execution, report
<1>2. start' = start /\ numContingencies' = numContingencies
  BY <1>1, SameNumbers
<1>3. ReportType /\ LinesFinal /\ HandedInv /\ TailInv
  BY DEF IInv, ReportInv
<1>4. ReportType'
  BY <1>1, <1>3 DEF ReportType, MainSteps
<1>5. HandedInv' /\ LinesFinal'
  BY <1>1, <1>2, <1>3 DEF HandedInv, More, LinesFinal
<1>6. TurnInv'
  BY <1>1 DEF TurnInv
<1>7. /\ \A c \in (start + 1)..added : Late(c) \/ Reported(lines, c)
      /\ numContingencies > 0 => Len(lines) <= numContingencies + 1
      /\ \A i \in DOMAIN timedOut : i < pos => Reported(lines, timedOut[i])
  BY <1>1, <1>3 DEF TailInv, Looped
<1>8. \A i \in DOMAIN timedOut : i < pos
  BY <1>1, ReportFacts
<1>9. AllReported
  BY <1>7, <1>8 DEF AllReported, Late
<1>10. TailInv'
  BY <1>1, <1>2, <1>7, <1>9 DEF TailInv, Looped, AllReported, Late, Reported
<1> QED BY <1>4, <1>5, <1>6, <1>10 DEF ReportInv

LEMMA ReportStep ==
    ASSUME IInv, [Next]_vars
    PROVE  ReportInv'
<1>1. ExecInv
  BY DEF IInv
<1>2. job' = job /\ completed \subseteq completed' /\ \A d \in completed : result'[d] = result[d]
  BY <1>1, ExecStep
<1>3. CASE Analysis
  BY <1>3, addWorkBlockReport, startReportReport, writeHeaderReport, writeLineReport,
     timeoutReport, afterTimeoutReport, endLoopReport, retryReport, writeLateReport,
     endWaitingReport DEF Analysis
<1>4. CASE \E w \in job.pool : Execute(w)
  <2>1. main' = main /\ added' = added /\ UNCHANGED report
    BY <1>4 DEF Execute, cloneSim, updateObject, trigger, mapBack, powerflow, finish, leave
  <2> QED BY <1>2, <2>1, ReportSame
<1>5. CASE UNCHANGED vars
  <2>1. main' = main /\ added' = added /\ UNCHANGED report
    BY <1>5 DEF vars, report
  <2> QED BY <1>2, <2>1, ReportSame
<1> QED BY <1>3, <1>4, <1>5 DEF Next

-----------------------------------------------------------------------------
(* The theorems.                                                           *)

LEMMA InitInv ==
    ASSUME Init
    PROVE  IInv
<1>1. /\ job \in Jobs /\ main = "adding" /\ added = start /\ taken = start
      /\ pos = start + 1 /\ completed = {} /\ timedOut = <<>> /\ lines = <<>>
      /\ at = [w \in job.pool |-> Idle]
      /\ target = [e \in Events |-> Master]
      /\ out = [s \in Conts \cup {Master} |-> {}]
      /\ result = [c \in Conts |-> {}]
  BY DEF Init
<1>2. start \in Nat /\ numContingencies \in Nat /\ Len(job.list) \in Nat
  BY <1>1, Numbers
<1>3. \A w \in job.pool : at[w] = Idle /\ ~Busy(at[w]) /\ ~InHand(at[w]) /\ ~Ended(at[w])
  BY <1>1 DEF Idle, Busy, InHand, Ended
<1>4. at \in [job.pool -> Thread]
  <2>1. Idle \in Thread
    BY DEF Idle, Thread, Steps
  <2> QED BY <2>1, <1>1
<1>5. TypeI(added, at, taken, target, out, result, completed)
  BY <1>1, <1>2, <1>4 DEF TypeI
<1>6. PlaceI(at, taken) /\ OwnI(at) /\ DoneI(at, taken, completed)
  BY <1>1, <1>3 DEF PlaceI, OwnI, DoneI
<1>7. TargetI(at, target)
  BY <1>1 DEF TargetI
<1>8. HandI(at, target)
  BY <1>3 DEF HandI
<1>9. OutI(at, out)
  BY <1>1, <1>3 DEF OutI
<1>10. ResultI(at, taken, result, completed)
  BY <1>1, <1>3 DEF ResultI
<1>11. ExecInv
  BY <1>1, <1>5, <1>6, <1>7, <1>8, <1>9, <1>10 DEF ExecInv, Exec
<1>12. ReportType
  BY <1>1, <1>2 DEF ReportType, MainSteps
<1>13. HandedInv /\ TurnInv /\ TailInv
  BY <1>1, <1>2 DEF HandedInv, TurnInv, TailInv, Looped
<1>14. LinesFinal
  BY <1>1 DEF LinesFinal
<1> QED BY <1>11, <1>12, <1>13, <1>14 DEF IInv, ReportInv

LEMMA StepInv ==
    ASSUME IInv, [Next]_vars
    PROVE  IInv'
BY ExecStep, ReportStep DEF IInv

LEMMA InvHolds == Spec => []IInv
BY InitInv, StepInv, PTL DEF Spec

\* Every variable keeps its type, and no thread takes a contingency that was
\* not handed out (WorkQueue, runContingencyAnalysis).
THEOREM TypeCorrect == Spec => []TypeOK
<1>1. IInv => TypeOK
  <2> SUFFICES ASSUME IInv PROVE TypeOK
    OBVIOUS
  <2>1. TypeI(added, at, taken, target, out, result, completed) /\ ReportType
    BY DEF IInv, ExecInv, Exec, ReportInv
  <2> QED BY <2>1 DEF TypeI, ReportType, TypeOK, Thread
<1> QED BY <1>1, InvHolds, PTL

\* Contingency::execute on any number of threads solves each contingency with
\* the outages of its own events, unless threads share an Event.
THEOREM Isolation == Spec => []OwnOutages
<1>1. IInv => OwnOutages
  BY DEF IInv, ExecInv, Exec, ResultI, OwnOutages
<1> QED BY <1>1, InvHolds, PTL

\* Contingency::execute triggers no event on the master, unless threads share
\* an Event.
THEOREM MasterKept == Spec => []MasterUntouched
<1>1. IInv => MasterUntouched
  BY DEF IInv, ExecInv, Exec, OutI, MasterUntouched
<1> QED BY <1>1, InvHolds, PTL

\* No Event is left with a pointer into a clone that has been destroyed, even
\* if threads share it (updateObject before and after trigger in execute).
THEOREM NoDanglingTarget == Spec => []TargetAlive
<1>1. IInv => TargetAlive
  BY DEF IInv, ExecInv, Exec, TargetI, TargetAlive
<1> QED BY <1>1, InvHolds, PTL

\* saveContingencyOutput writes final results only, and repeats only what was
\* found late.
THEOREM FinalReport == Spec => []LinesFinal
<1>1. IInv => LinesFinal
  BY DEF IInv, ReportInv
<1> QED BY <1>1, InvHolds, PTL

\* If no contingency has two lines, as many have one as there are lines.
LEMMA DistinctLines ==
    ASSUME ReportType, ~Twice
    PROVE  Cardinality(Seen) = Len(lines)
<1> DEFINE n == Len(lines)
           f == [k \in 1..n |-> lines[k].cont]
<1>1. n \in Nat /\ DOMAIN lines = 1..n
  BY DEF ReportType
<1> HIDE DEF n
<1>2. f \in [1..n -> Seen]
  BY <1>1 DEF Seen
<1>3. ASSUME NEW k \in 1..n, NEW l \in 1..n, f[k] = f[l]
      PROVE  k = l
  <2>1. lines[k].cont = lines[l].cont
    BY <1>3
  <2>2. ~(k < l) /\ ~(l < k)
    BY <2>1, <1>1 DEF Twice
  <2> QED BY <2>2, <1>1
<1>4. \A c \in Seen : \E k \in 1..n : f[k] = c
  BY <1>1 DEF Seen
<1>5. f \in Bijection(1..n, Seen)
  <2> HIDE DEF f
  <2> QED BY <1>2, <1>3, <1>4 DEF Bijection, Injection, Surjection, IsInjective
<1>6. ExistsBijection(1..n, Seen)
  BY <1>5 DEF ExistsBijection
<1> QED BY <1>1, <1>6, FS_CountingElements DEF n

\* Whatever times out, saveContingencyOutput leaves a line for each contingency
\* that was asked for, unless it is late and as many others have one or one
\* was counted twice, and at most one line too many.
THEOREM CompleteReport == Spec => []NoneMissed
<1>1. IInv => NoneMissed
  <2> SUFFICES ASSUME IInv, main = "done", job.output = "file"
               PROVE  /\ \A c \in Asked \ Seen :
                            /\ Late(c)
                            /\ \/ numContingencies = 0 \/ Twice
                               \/ Cardinality(Seen) >= numContingencies
                      /\ numContingencies > 0 => Len(lines) <= numContingencies + 1
    BY DEF NoneMissed
  <2>1. ReportType /\ HandedInv /\ TailInv
    BY DEF IInv, ReportInv
  <2>2. /\ \A c \in (start + 1)..added : Late(c) \/ Reported(lines, c)
        /\ numContingencies > 0 => Len(lines) <= numContingencies + 1
        /\ AllReported \/ numContingencies = 0 \/ Len(lines) >= numContingencies
    BY <2>1 DEF TailInv, Looped
  <2>3. ~More
    BY <2>1 DEF HandedInv
  <2>4. ASSUME NEW c \in Asked PROVE c \in (start + 1)..added
    BY <2>3, ReportFacts DEF Asked, More
  <2>5. \A c : Reported(lines, c) <=> c \in Seen
    BY DEF Reported, Seen
  <2>6. ASSUME NEW c \in Asked \ Seen
        PROVE  /\ Late(c)
               /\ \/ numContingencies = 0 \/ Twice
                  \/ Cardinality(Seen) >= numContingencies
    <3>1. c \in (start + 1)..added /\ ~Reported(lines, c)
      BY <2>4, <2>5
    <3>2. numContingencies = 0 \/ Len(lines) >= numContingencies
      BY <3>1, <2>2 DEF AllReported
    <3> QED BY <3>1, <3>2, <2>1, <2>2, DistinctLines
  <2> QED BY <2>2, <2>6
<1> QED BY <1>1, InvHolds, PTL
=============================================================================
