-------------------------- MODULE ContingencyList --------------------------
(***************************************************************************)
(* The lists of contingencies that buildContingencyList makes              *)
(* (src/src/griddyn/simulation/gridDynContingency.cpp).                    *)
(*                                                                         *)
(* An element is a connected line, generator or load, numbered in the      *)
(* order in which the builders meet them; its event sets it out of         *)
(* service.  A contingency is its stages, sequences of events (a null      *)
(* event, which execute passes over, is left out).  Events are shared      *)
(* pointers, and whether two contingencies have one Event or two matters:  *)
(* an event carries as owner the contingency that it was made for.         *)
(***************************************************************************)
EXTENDS Integers, SequencesExt

\* A grid is known by how many lines, generators and loads are connected.
Grids == [lines : Nat, gens : Nat, loads : Nat]

Elements(g) == 1..(g.lines + g.gens + g.loads)

Empty == [id |-> <<>>, stages |-> <<>>]

\* Mutant of clone: the pointers are copied, not the events.
cloneShallow(cont, id) == [cont EXCEPT !.id = id]

\* Contingency::clone copies every event.
clone(cont, id) ==
    [id |-> id,
     stages |-> [s \in DOMAIN cont.stages |->
                    [i \in DOMAIN cont.stages[s] |->
                        [cont.stages[s][i] EXCEPT !.owner = id]]]]

\* Contingency::add, with ensureSizeAtLeast.  Stages count from 0.
add(cont, event, stage) ==
    [cont EXCEPT !.stages =
        [s \in 1..Max({Len(cont.stages), stage + 1}) |->
            LET old == IF s <= Len(cont.stages) THEN cont.stages[s] ELSE <<>>
            IN  IF s = stage + 1 THEN Append(old, event) ELSE old]]

\* A new contingency for element e, on top of info.baseCont if there is one.
addContingency(base, e, stage) ==
    LET id == Append(base.id, e)
    IN  add(clone(base, id), [element |-> e, owner |-> id], stage)

\* The elements before .. before + n, without the first skip of them:
\* buildLineContingencies, buildGenContingencies and buildLoadContingencies.
buildContingencies(before, n, base, stage, skip) ==
    [i \in 1..Max({n - skip, 0}) |-> addContingency(base, before + skip + i, stage)]

lineContingencies(g, base, stage, skip) ==
    buildContingencies(0, g.lines, base, stage, skip)

\* Lines, then generators, then loads.  What is left of skip is computed from
\* the contingencies that were added, not from those that were skipped.
buildN1(g, base, stage, skip) ==
    LET lines    == lineContingencies(g, base, stage, skip)
        genSkip  == Max({skip - Len(lines), 0})
        gens     == buildContingencies(g.lines, g.gens, base, stage, genSkip)
        loadSkip == Max({genSkip - Len(gens), 0})
    IN  lines \o gens
        \o buildContingencies(g.lines + g.gens, g.loads, base, stage, loadSkip)

\* Mutant of buildN2Line: ++contIndex comes after its use.
buildN2LineLate(g) ==
    FlattenSeq([k \in 1..g.lines |-> lineContingencies(g,
                    lineContingencies(g, Empty, 0, 0)[k], 0, k - 1)])

\* Each line with each later line.
buildN2Line(g) ==
    FlattenSeq([k \in 1..g.lines |-> lineContingencies(g,
                    lineContingencies(g, Empty, 0, 0)[k], 0, k)])

\* mergeIfUnique in the first stage: the pointers of the other's events are
\* copied.  Two events are equal if they do the same to the same element.
mergeIfUnique(cont, other) ==
    LET matched(e) == \E i \in DOMAIN cont.stages[1] :
                            cont.stages[1][i].element = e.element
    IN  [cont EXCEPT !.stages[1] = @ \o FlattenSeq(
            [i \in DOMAIN other.stages[1] |->
                IF matched(other.stages[1][i]) THEN <<>> ELSE <<other.stages[1][i]>>])]

\* A clone of the pair with the events of the single contingency, unless it
\* has them already.
addContingencyIfUnique(pair, single) ==
    LET cont   == clone(pair, pair.id \o single.id)
        merged == mergeIfUnique(cont, single)
    IN  IF merged # cont THEN <<merged>> ELSE <<>>

\* Each pair of lines with each line.
buildN3Line(g) ==
    LET singles == lineContingencies(g, Empty, 0, 0)
        pairs   == buildN2Line(g)
    IN  FlattenSeq([k \in DOMAIN pairs |-> FlattenSeq([l \in DOMAIN singles |->
            addContingencyIfUnique(pairs[k], singles[l])])])

\* Every element with every later one, and every one after every one.
buildN2(g) ==
    LET singles == buildN1(g, Empty, 0, 0)
    IN  FlattenSeq([k \in DOMAIN singles |-> buildN1(g, singles[k], 0, k)])

buildN11(g) ==
    LET singles == buildN1(g, Empty, 0, 0)
    IN  FlattenSeq([k \in DOMAIN singles |-> buildN1(g, singles[k], 1, 0)])

Modes == {"N-1", "N-1-1", "N-2", "N-2-LINE", "N-3-LINE"}

buildContingencyList(g, mode) ==
    CASE mode = "N-1"      -> buildN1(g, Empty, 0, 0)
      [] mode = "N-1-1"    -> buildN11(g)
      [] mode = "N-2"      -> buildN2(g)
      [] mode = "N-2-LINE" -> buildN2Line(g)
      [] mode = "N-3-LINE" -> buildN3Line(g)

-----------------------------------------------------------------------------
\* What the modes promise: the outages that have to be in the list.
Promised(g, mode) ==
    CASE mode = "N-1"      -> kSubset(1, Elements(g))
      [] mode = "N-1-1"    -> kSubset(1, Elements(g)) \cup kSubset(2, Elements(g))
      [] mode = "N-2"      -> kSubset(2, Elements(g))
      [] mode = "N-2-LINE" -> kSubset(2, 1..g.lines)
      [] mode = "N-3-LINE" -> kSubset(3, 1..g.lines)
=============================================================================
