------------------------ MODULE ContingencyAnalysis ------------------------
(***************************************************************************)
(* The analyses of module Contingency with the lists of module             *)
(* ContingencyList: each is of a grid and in a mode, and its list is the   *)
(* one that buildContingencyList makes of them.                            *)
(***************************************************************************)
EXTENDS Contingency, ContingencyList

ASSUME ListAssumption ==
    \A j \in Jobs : /\ j.grid \in Grids /\ j.mode \in Modes
                    /\ j.list = buildContingencyList(j.grid, j.mode)

\* The combinations of outages that the list has.
Covered == {Outages(c) : c \in Conts}

\* The list has every combination of outages that its mode promises and no
\* other (of N-2 only the pairs of lines are sure to be there: see buildN1),
\* and its contingencies have events of their own: clone copies the events
\* that go into several of them.  mergeIfUnique does not, so the threads share
\* events in mode N-3-LINE.
ListCovers ==
    /\ Covered \subseteq Promised(job.grid, job.mode)
    /\ job.mode # "N-2" => Promised(job.grid, job.mode) \subseteq Covered
    /\ job.mode = "N-2" => Promised(job.grid, "N-2-LINE") \subseteq Covered
    /\ Shared => job.mode = "N-3-LINE"

\* If all contingencies are run and no wait times out, the file shows the
\* outages that the mode promises, all of them and no others, unless threads
\* share an Event: what buildContingencyList lists, each thread solves on its
\* own clone and saveContingencyOutput writes.
ReportComplete ==
    /\ main = "done" /\ job.output = "file"
    /\ timedOut = <<>> /\ start = 0 /\ numContingencies = 0
    /\ job.mode # "N-2" /\ ~Shared
    => {lines[k].outages : k \in DOMAIN lines} = Promised(job.grid, job.mode)
=============================================================================
