--------------------------- MODULE MCContingency ---------------------------
(***************************************************************************)
(* Analyses of a grid of three lines and a generator, or of four lines.    *)
(***************************************************************************)
EXTENDS ContingencyAnalysis

CONSTANTS w1, w2, w3

\* A grid of lines and a generator, or one of lines alone.
J(gens, mode, count1, count2, output, pool) ==
    LET grid == [lines |-> 4 - gens, gens |-> gens, loads |-> 0]
    IN  [grid |-> grid, mode |-> mode, list |-> buildContingencyList(grid, mode),
         count1 |-> count1, count2 |-> count2,
         output |-> output, pool |-> pool]

Both == {w1, w2}

\* All of the single outages, with one left out, from the second, more than
\* are left, after the last, and to a database; pairs in one stage and in two,
\* on one, two and three threads; triples, on one thread and on two.
Filed(gens, mode, count1, count2, pool) == J(gens, mode, count1, count2, "file", pool)

MCJobs == {Filed(1, "N-1", 0, 0, Both), Filed(1, "N-1", -1, 0, Both),
           Filed(1, "N-1", 1, 2, Both), Filed(1, "N-1", 2, 3, Both),
           Filed(1, "N-1", 9, 1, Both), J(1, "N-1", 1, 0, "database", Both),
           Filed(1, "N-2-LINE", 2, 0, Both), Filed(1, "N-2-LINE", 0, 0, {w1, w2, w3}),
           Filed(1, "N-2", 2, 0, Both), Filed(1, "N-1-1", 2, 0, Both),
           Filed(1, "N-1-1", 4, 0, {w1}),
           Filed(1, "N-3-LINE", 0, 0, {w1}), Filed(0, "N-3-LINE", 3, 0, Both)}
=============================================================================
