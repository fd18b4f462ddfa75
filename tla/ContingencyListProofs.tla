----------------------- MODULE ContingencyListProofs -----------------------
(***************************************************************************)
(* Proofs about the lists that buildContingencyList makes, for every grid. *)
(*                                                                         *)
(* A builder's list is compared with a set of ids: Lists(f, C) says that   *)
(* the sequence f has the members of C, each once.  FlattenLists carries   *)
(* that over a concatenation of lists.  From it each mode's list is shown  *)
(* to consist of one contingency for each id of the mode (the ...Made      *)
(* lemmas), with the outages of its id and events that it shares with no   *)
(* other (the ...Apart lemmas); kSubset then turns ids into what the modes *)
(* promise (the ...Covers lemmas).                                         *)
(***************************************************************************)
EXTENDS ContingencyAnalysis, ContingencyProofs, NaturalsInduction,
        WellFoundedInduction

-----------------------------------------------------------------------------
(* Induction                                                               *)

\* A set of numbers that is not empty has a smallest one.
LEMMA LeastElement ==
    ASSUME NEW T \in SUBSET Nat, T # {}
    PROVE  \E x \in T : \A y \in T : x <= y
<1>1. PICK x \in T : \A y \in T : ~(<<y, x>> \in OpToRel(<, Nat))
    BY NatLessThanWellFounded, WFMin
<1>2. ASSUME NEW y \in T PROVE x <= y
    <2>1. x \in Nat /\ y \in Nat
        OBVIOUS
    <2>2. ~(y < x)
        BY <1>1, <2>1 DEF OpToRel
    <2> QED BY <2>1, <2>2
<1> QED BY <1>2

\* Induction over 1..n with the predicate as a set
LEMMA SetInduction ==
    ASSUME NEW n \in Nat \ {0}, NEW Z,
           1 \in Z, \A i \in 2..n : i - 1 \in Z => i \in Z
    PROVE  n \in Z
<1> DEFINE Bad == {i \in 1..n : i \notin Z}
<1>1. SUFFICES ASSUME Bad # {} PROVE FALSE
    OBVIOUS
<1>2. PICK m \in Bad : \A i \in Bad : m <= i
    <2>1. Bad \in SUBSET Nat
        OBVIOUS
    <2> HIDE DEF Bad
    <2> QED BY <1>1, <2>1, LeastElement
<1>3. m \in 2..n
    OBVIOUS
<1>4. m - 1 \in 1..n /\ m - 1 \notin Bad
    BY <1>2, <1>3
<1>5. m - 1 \in Z
    BY <1>4
<1> QED BY <1>3, <1>5

-----------------------------------------------------------------------------
(* Lists without repetition                                                *)

\* The sequence f has the members of C, each of them once.
Lists(f, C) ==
    /\ f \in Seq(C)
    /\ \A x \in C : \E i \in DOMAIN f : f[i] = x
    /\ \A i, j \in DOMAIN f : f[i] = f[j] => i = j

\* c is f, of n places, and then h, of m places.
Joined(c, f, h, n, m, S) ==
    /\ c \in Seq(S) /\ Len(c) = n + m /\ DOMAIN c = 1..(n + m)
    /\ \A i \in 1..n : c[i] = f[i]
    /\ \A i \in (n + 1)..(n + m) : c[i] = h[i - n]

\* Where the parts of a concatenation are.
LEMMA ConcatPlaces ==
    ASSUME NEW S, NEW f \in Seq(S), NEW h \in Seq(S)
    PROVE  Joined(f \o h, f, h, Len(f), Len(h), S)
BY DEF Joined

\* Two lists of different things, one after the other
LEMMA ConcatLists ==
    ASSUME NEW C, NEW D, NEW f, NEW h, Lists(f, C), Lists(h, D), C \cap D = {}
    PROVE  Lists(f \o h, C \cup D)
<1> DEFINE c == f \o h
<1>1. f \in Seq(C) /\ h \in Seq(D)
    BY DEF Lists
<1>2. f \in Seq(C \cup D) /\ h \in Seq(C \cup D)
    BY <1>1
<1>3. c \in Seq(C \cup D) /\ Len(c) = Len(f) + Len(h)
    BY <1>2
<1>4. \A i \in DOMAIN f : i \in DOMAIN c /\ c[i] = f[i]
    BY <1>2
<1>5. \A i \in DOMAIN h : Len(f) + i \in DOMAIN c /\ c[Len(f) + i] = h[i]
    BY <1>2
<1>6. \A i \in DOMAIN c : \/ i \in DOMAIN f
                          \/ i > Len(f) /\ i - Len(f) \in DOMAIN h /\ c[i] = h[i - Len(f)]
    BY <1>2, <1>3
<1>7. \A i \in DOMAIN f : f[i] \in C
    BY <1>1
<1>8. \A i \in DOMAIN h : h[i] \in D
    BY <1>1
<1>9. DOMAIN c \subseteq Nat /\ Len(f) \in Nat /\ DOMAIN h \subseteq Nat
    BY <1>2, <1>3
<1> HIDE DEF c
<1>10. ASSUME NEW x \in C \cup D PROVE \E i \in DOMAIN c : c[i] = x
    <2>1. CASE x \in C
        BY <2>1, <1>4 DEF Lists
    <2>2. CASE x \in D
        BY <2>2, <1>5 DEF Lists
    <2> QED BY <2>1, <2>2
<1>11. ASSUME NEW i \in DOMAIN c, NEW j \in DOMAIN c, c[i] = c[j] PROVE i = j
    <2>1. CASE i \in DOMAIN f /\ j \in DOMAIN f
        BY <2>1, <1>4, <1>11 DEF Lists
    <2>2. CASE i \notin DOMAIN f /\ j \notin DOMAIN f
        <3>1. h[i - Len(f)] = h[j - Len(f)]
            BY <2>2, <1>6, <1>11
        <3>2. i - Len(f) \in DOMAIN h /\ j - Len(f) \in DOMAIN h
            BY <2>2, <1>6
        <3>3. i - Len(f) = j - Len(f)
            BY <3>1, <3>2 DEF Lists
        <3> QED BY <3>3, <1>9
    <2>3. CASE i \in DOMAIN f /\ j \notin DOMAIN f
        BY <2>3, <1>4, <1>6, <1>7, <1>8, <1>11
    <2>4. CASE i \notin DOMAIN f /\ j \in DOMAIN f
        BY <2>4, <1>4, <1>6, <1>7, <1>8, <1>11
    <2> QED BY <2>1, <2>2, <2>3, <2>4
<1> QED BY <1>3, <1>10, <1>11 DEF Lists, c

\* A list that is written as a function of the place
LEMMA CountLists ==
    ASSUME NEW n \in Nat, NEW C, NEW f \in [1..n -> C],
           \A x \in C : \E i \in 1..n : f[i] = x,
           \A i, j \in 1..n : f[i] = f[j] => i = j
    PROVE  Lists(f, C)
BY DEF Lists
-----------------------------------------------------------------------------
(* FlattenSeq                                                              *)

\* f is what FlattenSeq has computed after the first m of the sequences.
IsFlat(f, seqs, m) ==
    f = [i \in 1..m |-> IF i = 1 THEN seqs[i] ELSE f[i - 1] \o seqs[i]]

\* The function that FlattenSeq defines by recursion exists.
LEMMA FlatExists ==
    ASSUME NEW seqs, NEW n \in Nat \ {0}
    PROVE  \E f : IsFlat(f, seqs, n)
<1> DEFINE Z == {m \in 1..n : \E f : IsFlat(f, seqs, m)}
<1>1. 1 \in Z
    <2>1. IsFlat([i \in 1..1 |-> seqs[1]], seqs, 1)
        BY DEF IsFlat
    <2>2. 1 \in 1..n
        OBVIOUS
    <2>3. \E f : IsFlat(f, seqs, 1)
        BY <2>1
    <2> QED BY <2>2, <2>3
<1>2. ASSUME NEW m \in 2..n, m - 1 \in Z PROVE m \in Z
    <2>1. PICK f : IsFlat(f, seqs, m - 1)
        BY <1>2
    <2> DEFINE g == [i \in 1..m |-> IF i = m THEN f[m - 1] \o seqs[m] ELSE f[i]]
    <2>2. \A i \in 1..(m - 1) : f[i] = IF i = 1 THEN seqs[i] ELSE f[i - 1] \o seqs[i]
        BY <2>1 DEF IsFlat
    <2>3. ASSUME NEW i \in 1..m
          PROVE  g[i] = IF i = 1 THEN seqs[i] ELSE g[i - 1] \o seqs[i]
        <3>1. CASE i = m
            <4>0. m \in 1..m
                OBVIOUS
            <4>1. g[m] = f[m - 1] \o seqs[m]
                BY <4>0, Zenon
            <4>2. m - 1 \in 1..m /\ m - 1 # m /\ m # 1
                OBVIOUS
            <4>3. g[m - 1] = f[m - 1]
                BY <4>2
            <4> QED BY <3>1, <4>1, <4>2, <4>3
        <3>2. CASE i = 1 /\ i # m
            <4>1. g[1] = f[1] /\ f[1] = seqs[1]
                BY <2>2, <3>2
            <4> QED BY <3>2, <4>1
        <3>3. CASE i # 1 /\ i # m
            <4>1. i \in 1..(m - 1) /\ i - 1 \in 1..m /\ i - 1 # m
                BY <3>3
            <4>2. g[i] = f[i] /\ g[i - 1] = f[i - 1]
                BY <3>3, <4>1
            <4> QED BY <2>2, <3>3, <4>1, <4>2
        <3> QED BY <3>1, <3>2, <3>3
    <2>4. g = [i \in 1..m |-> g[i]]
        OBVIOUS
    <2> HIDE DEF g
    <2>5. IsFlat(g, seqs, m)
        BY <2>3, <2>4 DEF IsFlat
    <2> QED BY <2>5, <1>2
<1> HIDE DEF Z
<1>3. n \in Z
    BY <1>1, <1>2, SetInduction
<1> QED BY <1>3 DEF Z

\* What FlattenSeq returns, as the last value of such a function
LEMMA FlattenIs ==
    ASSUME NEW S, NEW seqs \in Seq(S), seqs # <<>>
    PROVE  \E f : IsFlat(f, seqs, Len(seqs)) /\ FlattenSeq(seqs) = f[Len(seqs)]
<1>1. Len(seqs) \in Nat \ {0}
    OBVIOUS
<1>2. \E f : IsFlat(f, seqs, Len(seqs))
    BY <1>1, FlatExists
<1> DEFINE f == CHOOSE f : f = [i \in 1..Len(seqs) |->
                    IF i = 1 THEN seqs[i] ELSE f[i - 1] \o seqs[i]]
<1>3. IsFlat(f, seqs, Len(seqs))
    BY <1>2 DEF IsFlat
<1>4. FlattenSeq(seqs) = f[Len(seqs)]
    BY <1>1 DEF FlattenSeq
<1> QED BY <1>3, <1>4

\* Lists of different things, one after the other
LEMMA FlattenLists ==
    ASSUME NEW n \in Nat, NEW seqs, NEW C, DOMAIN seqs = 1..n, seqs = [k \in 1..n |-> seqs[k]],
           \A k \in 1..n : Lists(seqs[k], C[k]),
           \A k, l \in 1..n : k # l => C[k] \cap C[l] = {}
    PROVE  Lists(FlattenSeq(seqs), UNION {C[k] : k \in 1..n})
<1> DEFINE S == {seqs[k] : k \in 1..n}
<1>1. seqs \in Seq(S) /\ Len(seqs) = n
    OBVIOUS
<1>2. CASE n = 0
    <2>1. seqs = <<>>
        BY <1>1, <1>2
    <2>2. FlattenSeq(seqs) = <<>>
        BY <2>1 DEF FlattenSeq
    <2>3. UNION {C[k] : k \in 1..n} = {}
        BY <1>2
    <2>4. Lists(<<>>, {})
        BY DEF Lists
    <2> QED BY <2>2, <2>3, <2>4
<1>3. CASE n # 0
    <2>1. seqs # <<>>
        BY <1>1, <1>3
    <2>2. PICK f : IsFlat(f, seqs, n) /\ FlattenSeq(seqs) = f[n]
        <3> HIDE DEF S
        <3> QED BY <1>1, <2>1, FlattenIs
    <2> DEFINE U(m) == UNION {C[k] : k \in 1..m}
               Z == {m \in 1..n : Lists(f[m], U(m))}
    <2>3. \A i \in 1..n : f[i] = IF i = 1 THEN seqs[i] ELSE f[i - 1] \o seqs[i]
        BY <2>2 DEF IsFlat
    <2>4. 1 \in Z
        <3>1. 1 \in 1..n
            BY <1>3
        <3>2. f[1] = seqs[1]
            BY <2>3, <3>1
        <3>3. U(1) = C[1]
            OBVIOUS
        <3>4. Lists(f[1], U(1))
            BY <3>1, <3>2, <3>3
        <3> QED BY <3>1, <3>4
    <2>5. ASSUME NEW m \in 2..n, m - 1 \in Z PROVE m \in Z
        <3>1. m \in 1..n /\ m - 1 \in 1..n /\ m # 1
            OBVIOUS
        <3>2. f[m] = f[m - 1] \o seqs[m]
            BY <2>3, <3>1
        <3>3. Lists(f[m - 1], U(m - 1))
            BY <2>5
        <3>4. U(m) = U(m - 1) \cup C[m]
            <4>1. 1..m = (1..(m - 1)) \cup {m}
                OBVIOUS
            <4> QED BY <4>1
        <3>5. U(m - 1) \cap C[m] = {}
            <4>1. \A k \in 1..(m - 1) : k \in 1..n /\ k # m
                OBVIOUS
            <4>2. \A k \in 1..(m - 1) : C[k] \cap C[m] = {}
                BY <4>1, <3>1
            <4> QED BY <4>2
        <3> HIDE DEF U
        <3>6. Lists(f[m - 1] \o seqs[m], U(m - 1) \cup C[m])
            BY <3>1, <3>3, <3>5, ConcatLists
        <3> QED BY <3>1, <3>2, <3>4, <3>6
    <2> HIDE DEF Z
    <2>6. n \in Z
        BY <1>3, <2>4, <2>5, SetInduction
    <2> QED BY <2>2, <2>6 DEF Z
<1> QED BY <1>2, <1>3

-----------------------------------------------------------------------------
(* The contingencies                                                       *)

\* The event for element e in the contingency id, and the contingencies with
\* one element, two in one stage, two in two stages and three, the last of
\* which has the event of the contingency that it was merged from.
Ev(e, id)     == [element |-> e, owner |-> id]
Single(e)     == [id |-> <<e>>, stages |-> << <<Ev(e, <<e>>)>> >>]
Pair(k, e)    == [id |-> <<k, e>>,
                  stages |-> << <<Ev(k, <<k, e>>), Ev(e, <<k, e>>)>> >>]
Staged(k, e)  == [id |-> <<k, e>>,
                  stages |-> << <<Ev(k, <<k, e>>)>>, <<Ev(e, <<k, e>>)>> >>]
Triple(k, l, e) == [id |-> <<k, l, e>>,
                    stages |-> << <<Ev(k, <<k, l, e>>), Ev(l, <<k, l, e>>),
                                    Ev(e, <<e>>)>> >>]

\* Max of two numbers, without its CHOOSE.
LEMMA MaxOfTwo ==
    ASSUME NEW a \in Int, NEW b \in Int
    PROVE  Max({a, b}) = IF a >= b THEN a ELSE b
<1>1. \A x \in {a, b} : (\A y \in {a, b} : x >= y) => x = IF a >= b THEN a ELSE b
    OBVIOUS
<1>2. \E x \in {a, b} : \A y \in {a, b} : x >= y
    OBVIOUS
<1> QED BY <1>1, <1>2 DEF Max

\* Append, written out for a sequence of one.
LEMMA AppendToOne ==
    ASSUME NEW a, NEW b
    PROVE  Append(<<a>>, b) = <<a, b>>
<1> DEFINE t == Append(<<a>>, b)
<1>1. <<a>> \in Seq({a, b}) /\ Len(<<a>>) = 1
    OBVIOUS
<1>2. t \in Seq({a, b}) /\ Len(t) = 2 /\ t[1] = a /\ t[2] = b
    BY <1>1
<1> HIDE DEF t
<1>3. t = <<a, b>>
    BY <1>2
<1> QED BY <1>3 DEF t

\* What addContingency makes of no base, and of a contingency with one element
\* in the stage of its event and in the next.
LEMMA SingleMade ==
    ASSUME NEW e \in Nat
    PROVE  addContingency(Empty, e, 0) = Single(e)
<1> DEFINE id == <<e>>
           ev == Ev(e, id)
           c  == clone(Empty, id)
           st == [s \in 1..1 |-> IF s = 1 THEN Append(<<>>, ev) ELSE <<>>]
<1>1. Append(Empty.id, e) = id
    BY DEF Empty
<1>2. c.id = id /\ c.stages = <<>> /\ c = [id |-> id, stages |-> <<>>]
    BY DEF clone, Empty
<1>3. Max({Len(c.stages), 0 + 1}) = 1
    BY <1>2, MaxOfTwo
<1>4. \A s \in 1..1 : ~(s <= Len(c.stages)) /\ 0 + 1 = 1
    BY <1>2
<1>5. Append(<<>>, ev) = <<ev>>
    OBVIOUS
<1>6. st = << <<ev>> >>
    BY <1>5
<1>7. add(c, ev, 0) = [c EXCEPT !.stages = st]
    <2> HIDE DEF c, ev
    <2> QED BY <1>3, <1>4 DEF add
<1>8. [c EXCEPT !.stages = st] = [id |-> id, stages |-> st]
    <2> HIDE DEF st
    <2> QED BY <1>2
<1>9. addContingency(Empty, e, 0) = add(c, ev, 0)
    BY <1>1 DEF addContingency, Ev
<1> HIDE DEF c, st
<1> QED BY <1>6, <1>7, <1>8, <1>9 DEF Single

\* clone makes new events for the new contingency.
LEMMA CloneSingle ==
    ASSUME NEW k \in Nat, NEW id
    PROVE  clone(Single(k), id) = [id |-> id, stages |-> << <<Ev(k, id)>> >>]
BY DEF clone, Single, Ev

\* clone of a pair: both events belong to the new contingency.
LEMMA ClonePair ==
    ASSUME NEW k \in Nat, NEW e \in Nat, NEW id
    PROVE  clone(Pair(k, e), id) =
                [id |-> id, stages |-> << <<Ev(k, id), Ev(e, id)>> >>]
<1> DEFINE old == <<Ev(k, <<k, e>>), Ev(e, <<k, e>>)>>
<1>1. Pair(k, e).stages = <<old>> /\ DOMAIN <<old>> = {1} /\ <<old>>[1] = old
    BY DEF Pair
<1>2. DOMAIN old = {1, 2} /\ old[1] = Ev(k, <<k, e>>) /\ old[2] = Ev(e, <<k, e>>)
    OBVIOUS
<1>3. /\ [old[1] EXCEPT !.owner = id] = Ev(k, id)
      /\ [old[2] EXCEPT !.owner = id] = Ev(e, id)
    BY <1>2 DEF Ev
<1> HIDE DEF old
<1>4. [i \in DOMAIN old |-> [old[i] EXCEPT !.owner = id]] = <<Ev(k, id), Ev(e, id)>>
    BY <1>2, <1>3
<1>5. [s \in DOMAIN <<old>> |-> [i \in DOMAIN <<old>>[s] |->
            [<<old>>[s][i] EXCEPT !.owner = id]]] = << <<Ev(k, id), Ev(e, id)>> >>
    BY <1>1, <1>4
<1> QED BY <1>1, <1>5 DEF clone

\* addContingency on a single contingency, in the same stage.
LEMMA PairMade ==
    ASSUME NEW k \in Nat, NEW e \in Nat
    PROVE  addContingency(Single(k), e, 0) = Pair(k, e)
<1> DEFINE id == <<k, e>>
           ev == Ev(e, id)
           old == <<Ev(k, id)>>
           c  == [id |-> id, stages |-> <<old>>]
           st == [s \in 1..1 |-> IF s = 1 THEN Append(old, ev) ELSE old]
<1>1. Append(Single(k).id, e) = id
    BY AppendToOne DEF Single
<1>2. clone(Single(k), id) = c
    BY CloneSingle
<1>3. Len(c.stages) = 1 /\ c.stages[1] = old
    OBVIOUS
<1>4. Max({Len(c.stages), 0 + 1}) = 1
    BY <1>3, MaxOfTwo
<1>5. \A s \in 1..1 : s <= Len(c.stages) /\ s = 1 /\ c.stages[s] = old /\ 0 + 1 = 1
    BY <1>3
<1>6. Append(old, ev) = <<Ev(k, id), ev>>
    <2> HIDE DEF ev
    <2> QED BY AppendToOne
<1>7. st = << <<Ev(k, id), ev>> >>
    BY <1>6
<1>8. [c EXCEPT !.stages = st] = [id |-> id, stages |-> st]
    <2> HIDE DEF st
    <2> QED OBVIOUS
<1>9. add(c, ev, 0) = [c EXCEPT !.stages = st]
    <2> HIDE DEF c, ev, old
    <2> QED BY <1>4, <1>5 DEF add
<1>10. addContingency(Single(k), e, 0) = add(c, ev, 0)
    <2> HIDE DEF c
    <2> QED BY <1>1, <1>2 DEF addContingency, Ev
<1> HIDE DEF c, st
<1> QED BY <1>7, <1>8, <1>9, <1>10 DEF Pair

\* addContingency on a single contingency, in the stage after it.
LEMMA StagedMade ==
    ASSUME NEW k \in Nat, NEW e \in Nat
    PROVE  addContingency(Single(k), e, 1) = Staged(k, e)
<1> DEFINE id == <<k, e>>
           ev == Ev(e, id)
           old == <<Ev(k, id)>>
           c  == [id |-> id, stages |-> <<old>>]
           st == [s \in 1..2 |-> IF s = 2 THEN <<ev>> ELSE old]
<1>1. Append(Single(k).id, e) = id
    BY AppendToOne DEF Single
<1>2. clone(Single(k), id) = c
    BY CloneSingle
<1>3. Len(c.stages) = 1 /\ c.stages[1] = old
    OBVIOUS
<1>4. Max({Len(c.stages), 1 + 1}) = 2
    BY <1>3, MaxOfTwo
<1>5. 1 <= Len(c.stages) /\ ~(2 <= Len(c.stages)) /\ 1 + 1 = 2
    BY <1>3
<1>6. Append(<<>>, ev) = <<ev>>
    OBVIOUS
<1>7. st = << old, <<ev>> >>
    OBVIOUS
<1>8. [c EXCEPT !.stages = st] = [id |-> id, stages |-> st]
    <2> HIDE DEF st
    <2> QED OBVIOUS
<1>9. add(c, ev, 1) = [c EXCEPT !.stages = st]
    <2> DEFINE body(s) == LET was == IF s <= Len(c.stages) THEN c.stages[s] ELSE <<>>
                          IN  IF s = 1 + 1 THEN Append(was, ev) ELSE was
    <2>1. 1..2 = {1, 2}
        OBVIOUS
    <2>2. body(1) = old
        BY <1>3, <1>5
    <2>3. body(2) = <<ev>>
        <3> HIDE DEF c, ev
        <3> QED BY <1>5, <1>6
    <2> HIDE DEF c, ev, old
    <2>4. \A s \in 1..2 : body(s) = IF s = 2 THEN <<ev>> ELSE old
        BY <2>1, <2>2, <2>3
    <2>5. add(c, ev, 1) = [c EXCEPT !.stages = [s \in 1..2 |-> body(s)]]
        BY <1>4 DEF add
    <2>6. [s \in 1..2 |-> body(s)] = st
        BY <2>4
    <2> QED BY <2>5, <2>6
<1>10. addContingency(Single(k), e, 1) = add(c, ev, 1)
    <2> HIDE DEF c
    <2> QED BY <1>1, <1>2 DEF addContingency, Ev
<1> HIDE DEF c, st
<1> QED BY <1>7, <1>8, <1>9, <1>10 DEF Staged

-----------------------------------------------------------------------------
(* The builders                                                            *)

\* What addContingency makes of the elements X on top of base; Distinct says
\* that it makes different contingencies of different elements.
Made(base, stage, X) == {addContingency(base, e, stage) : e \in X}

Distinct(base, stage) ==
    \A d, e \in Nat : addContingency(base, d, stage) = addContingency(base, e, stage)
                        => d = e

\* On no base, or on a single contingency, different elements make different
\* contingencies.
LEMMA DistinctCases ==
    /\ Distinct(Empty, 0)
    /\ \A k \in Nat : Distinct(Single(k), 0) /\ Distinct(Single(k), 1)
<1>1. Distinct(Empty, 0)
    <2> SUFFICES ASSUME NEW d \in Nat, NEW e \in Nat, Single(d) = Single(e)
                 PROVE  d = e
        BY SingleMade DEF Distinct
    <2>1. <<d>> = <<e>>
        BY DEF Single
    <2> QED BY <2>1
<1>2. ASSUME NEW k \in Nat PROVE Distinct(Single(k), 0)
    <2> SUFFICES ASSUME NEW d \in Nat, NEW e \in Nat, Pair(k, d) = Pair(k, e)
                 PROVE  d = e
        BY PairMade DEF Distinct
    <2>1. <<k, d>> = <<k, e>>
        BY DEF Pair
    <2> QED BY <2>1
<1>3. ASSUME NEW k \in Nat PROVE Distinct(Single(k), 1)
    <2> SUFFICES ASSUME NEW d \in Nat, NEW e \in Nat, Staged(k, d) = Staged(k, e)
                 PROVE  d = e
        BY StagedMade DEF Distinct
    <2>1. <<k, d>> = <<k, e>>
        BY DEF Staged
    <2> QED BY <2>1
<1> QED BY <1>1, <1>2, <1>3

\* One builder lists a contingency for each element that it does not skip.
LEMMA BuildLists ==
    ASSUME NEW before \in Nat, NEW n \in Nat, NEW base, NEW stage, NEW skip \in Nat,
           Distinct(base, stage)
    PROVE  LET f == buildContingencies(before, n, base, stage, skip)
           IN  /\ Lists(f, Made(base, stage, (before + skip + 1)..(before + n)))
               /\ Len(f) = IF n >= skip THEN n - skip ELSE 0
<1> DEFINE m == IF n >= skip THEN n - skip ELSE 0
           X == (before + skip + 1)..(before + n)
           C == Made(base, stage, X)
           f == [i \in 1..m |-> addContingency(base, before + skip + i, stage)]
<1>1. Max({n - skip, 0}) = m /\ m \in Nat
    BY MaxOfTwo
<1>2. buildContingencies(before, n, base, stage, skip) = f
    BY <1>1 DEF buildContingencies
<1>3. \A i \in 1..m : before + skip + i \in X /\ before + skip + i \in Nat
    OBVIOUS
<1>4. \A x \in X : x - before - skip \in 1..m /\ before + skip + (x - before - skip) = x
    OBVIOUS
<1>5. m \in Nat
    OBVIOUS
<1>6. \A i, j \in 1..m : before + skip + i = before + skip + j => i = j
    OBVIOUS
<1> HIDE DEF m, X
<1>7. f \in [1..m -> C]
    BY <1>3 DEF Made
<1>8. ASSUME NEW x \in C PROVE \E i \in 1..m : f[i] = x
    <2>1. PICK e \in X : x = addContingency(base, e, stage)
        BY DEF Made
    <2>2. f[e - before - skip] = x
        BY <1>4, <2>1
    <2> QED BY <1>4, <2>2
<1>9. ASSUME NEW i \in 1..m, NEW j \in 1..m, f[i] = f[j] PROVE i = j
    <2>1. addContingency(base, before + skip + i, stage)
            = addContingency(base, before + skip + j, stage)
        BY <1>9
    <2>2. before + skip + i = before + skip + j
        BY <2>1, <1>3 DEF Distinct
    <2> QED BY <2>2, <1>6
<1>10. Len(f) = m
    BY <1>5
<1> HIDE DEF f, C
<1>11. Lists(f, C)
    BY <1>5, <1>7, <1>8, <1>9, CountLists
<1> QED BY <1>2, <1>10, <1>11 DEF C, X, m

\* The contingencies on top of base that buildN1 adds after leaving skip out:
\* none with an element up to skip, all with a later line, and all if skip
\* is 0.
LEMMA N1Lists ==
    ASSUME NEW g \in Grids, NEW base, NEW stage, NEW skip \in Nat, Distinct(base, stage)
    PROVE  \E X \in SUBSET Elements(g) :
                /\ Lists(buildN1(g, base, stage, skip), Made(base, stage, X))
                /\ \A e \in X : e > skip
                /\ (skip + 1)..g.lines \subseteq X
                /\ skip = 0 => X = Elements(g)
<1> DEFINE A  == lineContingencies(g, base, stage, skip)
           gs == Max({skip - Len(A), 0})
           B  == buildContingencies(g.lines, g.gens, base, stage, gs)
           ls == Max({gs - Len(B), 0})
           D  == buildContingencies(g.lines + g.gens, g.loads, base, stage, ls)
           P  == (0 + skip + 1)..(0 + g.lines)
           Q  == (g.lines + gs + 1)..(g.lines + g.gens)
           R  == (g.lines + g.gens + ls + 1)..(g.lines + g.gens + g.loads)
           X  == (P \cup Q) \cup R
<1>1. g.lines \in Nat /\ g.gens \in Nat /\ g.loads \in Nat
    BY DEF Grids
<1>2. Lists(A, Made(base, stage, P)) /\ Len(A) = IF g.lines >= skip THEN g.lines - skip ELSE 0
    BY <1>1, BuildLists DEF lineContingencies
<1> HIDE DEF A
<1>20. Len(A) \in Nat /\ Len(A) <= g.lines
    BY <1>1, <1>2
<1>3. gs = IF skip >= Len(A) THEN skip - Len(A) ELSE 0
    <2>1. skip - Len(A) \in Int
        BY <1>20
    <2>2. gs = IF skip - Len(A) >= 0 THEN skip - Len(A) ELSE 0
        BY <2>1, MaxOfTwo
    <2> QED BY <1>20, <2>2
<1> HIDE DEF gs
<1>4. gs \in Nat /\ gs >= skip - g.lines /\ (skip = 0 => gs = 0)
    BY <1>1, <1>3, <1>20
<1>5. Lists(B, Made(base, stage, Q)) /\ Len(B) = IF g.gens >= gs THEN g.gens - gs ELSE 0
    <2>1. gs \in Nat
        BY <1>4
    <2> QED BY <1>1, <2>1, BuildLists
<1> HIDE DEF B
<1>21. Len(B) \in Nat /\ Len(B) <= g.gens
    BY <1>1, <1>4, <1>5
<1>6. ls = IF gs >= Len(B) THEN gs - Len(B) ELSE 0
    <2>1. gs - Len(B) \in Int
        BY <1>4, <1>21
    <2>2. ls = IF gs - Len(B) >= 0 THEN gs - Len(B) ELSE 0
        BY <2>1, MaxOfTwo
    <2> QED BY <1>4, <1>21, <2>2
<1> HIDE DEF ls
<1>7. ls \in Nat /\ ls >= skip - g.lines - g.gens /\ (skip = 0 => ls = 0)
    BY <1>1, <1>4, <1>6, <1>21
<1>8. Lists(D, Made(base, stage, R))
    <2>1. g.lines + g.gens \in Nat
        BY <1>1
    <2> QED BY <1>1, <1>7, <2>1, BuildLists
<1> HIDE DEF D
<1>9. buildN1(g, base, stage, skip) = (A \o B) \o D
    BY DEF buildN1, A, B, D, gs, ls
<1>10. P \subseteq Nat /\ Q \subseteq Nat /\ R \subseteq Nat
    BY <1>1, <1>4, <1>7
<1>11. P \cap Q = {} /\ (P \cup Q) \cap R = {}
    BY <1>1, <1>4, <1>7
<1>12. X \subseteq Elements(g) /\ \A e \in X : e > skip
    BY <1>1, <1>4, <1>7 DEF Elements
<1>13. (skip + 1)..g.lines \subseteq X
    BY <1>1
<1>14. skip = 0 => X = Elements(g)
    BY <1>1, <1>4, <1>7 DEF Elements
<1> HIDE DEF P, Q, R
<1>15. Made(base, stage, P) \cap Made(base, stage, Q) = {}
    BY <1>10, <1>11 DEF Made, Distinct
<1>16. (Made(base, stage, P) \cup Made(base, stage, Q)) \cap Made(base, stage, R) = {}
    BY <1>10, <1>11 DEF Made, Distinct
<1>17. (Made(base, stage, P) \cup Made(base, stage, Q)) \cup Made(base, stage, R)
            = Made(base, stage, X)
    BY DEF Made
<1>18. Lists(A \o B, Made(base, stage, P) \cup Made(base, stage, Q))
    BY <1>2, <1>5, <1>15, ConcatLists
<1>19. Lists((A \o B) \o D,
             (Made(base, stage, P) \cup Made(base, stage, Q)) \cup Made(base, stage, R))
    BY <1>8, <1>16, <1>18, ConcatLists
<1> HIDE DEF X
<1> QED BY <1>9, <1>12, <1>13, <1>14, <1>17, <1>19

\* The single contingencies are in the list in the order of the elements.
LEMMA LineSingles ==
    ASSUME NEW g \in Grids
    PROVE  lineContingencies(g, Empty, 0, 0) = [i \in 1..g.lines |-> Single(i)]
<1>1. g.lines \in Nat
    BY DEF Grids
<1>2. Max({g.lines - 0, 0}) = g.lines
    BY <1>1, MaxOfTwo
<1>3. \A i \in 1..g.lines : addContingency(Empty, 0 + 0 + i, 0) = Single(i)
    BY <1>1, SingleMade
<1> QED BY <1>2, <1>3 DEF lineContingencies, buildContingencies

\* buildN1 without a base lists all elements in their order.
LEMMA N1Singles ==
    ASSUME NEW g \in Grids
    PROVE  buildN1(g, Empty, 0, 0) = [i \in Elements(g) |-> Single(i)]
<1> DEFINE n == g.lines
           m == g.gens
           l == g.loads
           A == [i \in 1..n |-> Single(i)]
           B == [i \in 1..m |-> Single(n + i)]
           D == [i \in 1..l |-> Single(n + m + i)]
           S == {Single(i) : i \in Elements(g)}
<1>1. n \in Nat /\ m \in Nat /\ l \in Nat
    BY DEF Grids
<1>2. lineContingencies(g, Empty, 0, 0) = A
    BY LineSingles
<1>3. buildContingencies(n, m, Empty, 0, 0) = B
    <2>1. Max({m - 0, 0}) = m
        BY <1>1, MaxOfTwo
    <2>2. \A i \in 1..m : n + 0 + i \in Nat /\ n + 0 + i = n + i
        BY <1>1
    <2>3. \A i \in 1..m : addContingency(Empty, n + 0 + i, 0) = Single(n + i)
        BY <2>2, SingleMade
    <2> QED BY <2>1, <2>3 DEF buildContingencies
<1>4. buildContingencies(n + m, l, Empty, 0, 0) = D
    <2>1. Max({l - 0, 0}) = l
        BY <1>1, MaxOfTwo
    <2>2. \A i \in 1..l : n + m + 0 + i \in Nat /\ n + m + 0 + i = n + m + i
        BY <1>1
    <2>3. \A i \in 1..l : addContingency(Empty, n + m + 0 + i, 0) = Single(n + m + i)
        BY <2>2, SingleMade
    <2> QED BY <2>1, <2>3 DEF buildContingencies
<1>5. Max({0 - n, 0}) = 0 /\ Max({0 - m, 0}) = 0
    <2>1. 0 - n \in Int /\ 0 - m \in Int /\ (0 - n >= 0 => 0 - n = 0)
            /\ (0 - m >= 0 => 0 - m = 0)
        BY <1>1
    <2> QED BY <2>1, MaxOfTwo
<1>6. A \in Seq(S) /\ B \in Seq(S) /\ D \in Seq(S)
    <2>1. \A i \in 1..n : i \in Elements(g)
        BY <1>1 DEF Elements
    <2>2. \A i \in 1..m : n + i \in Elements(g)
        BY <1>1 DEF Elements
    <2>3. \A i \in 1..l : n + m + i \in Elements(g)
        BY <1>1 DEF Elements
    <2> HIDE DEF n, m, l
    <2>4. A \in [1..n -> S] /\ B \in [1..m -> S] /\ D \in [1..l -> S]
        BY <2>1, <2>2, <2>3
    <2> HIDE DEF A, B, D, S
    <2> QED BY <1>1, <2>4
<1>7. Len(A) = n /\ Len(B) = m /\ Len(D) = l
    BY <1>1
<1>8. buildN1(g, Empty, 0, 0) = (A \o B) \o D
    <2> HIDE DEF A, B, D
    <2> QED BY <1>2, <1>3, <1>4, <1>5, <1>7 DEF buildN1
<1>9. (A \o B) \o D = [i \in 1..(n + m + l) |-> Single(i)]
    <2> DEFINE E == A \o B
               F == E \o D
    <2>1. \A i \in 1..n : A[i] = Single(i)
        OBVIOUS
    <2>2. \A i \in (n + 1)..(n + m) : B[i - n] = Single(i)
        BY <1>1
    <2>3. \A i \in (n + m + 1)..(n + m + l) : D[i - (n + m)] = Single(i)
        BY <1>1
    <2> HIDE DEF A, B, D, S, n, m, l
    <2>4. /\ E \in Seq(S) /\ Len(E) = n + m
          /\ \A i \in 1..n : E[i] = A[i]
          /\ \A i \in (n + 1)..(n + m) : E[i] = B[i - n]
        <3>1. Joined(A \o B, A, B, Len(A), Len(B), S)
            BY <1>6, ConcatPlaces
        <3> QED BY <1>7, <3>1 DEF Joined
    <2>5. n + m \in Nat
        BY <1>1
    <2> HIDE DEF E
    <2>6. /\ F \in Seq(S) /\ DOMAIN F = 1..(n + m + l)
          /\ \A i \in 1..(n + m) : F[i] = E[i]
          /\ \A i \in (n + m + 1)..(n + m + l) : F[i] = D[i - (n + m)]
        <3>1. Joined(E \o D, E, D, Len(E), Len(D), S)
            BY <1>6, <2>4, ConcatPlaces
        <3> QED BY <1>7, <2>4, <3>1 DEF Joined
    <2> HIDE DEF F
    <2>7. ASSUME NEW i \in 1..(n + m + l) PROVE F[i] = Single(i)
        <3>1. i \in 1..n \/ i \in (n + 1)..(n + m) \/ i \in (n + m + 1)..(n + m + l)
            BY <1>1
        <3>2. CASE i \in 1..n
            <4>1. i \in 1..(n + m)
                BY <1>1, <3>2
            <4> QED BY <2>1, <2>4, <2>6, <3>2, <4>1
        <3>3. CASE i \in (n + 1)..(n + m)
            <4>1. i \in 1..(n + m)
                BY <1>1, <3>3
            <4> QED BY <2>2, <2>4, <2>6, <3>3, <4>1
        <3>4. CASE i \in (n + m + 1)..(n + m + l)
            BY <2>3, <2>6, <3>4
        <3> QED BY <3>1, <3>2, <3>3, <3>4
    <2>8. F = [i \in DOMAIN F |-> F[i]]
        BY <2>6
    <2>9. F = [i \in 1..(n + m + l) |-> Single(i)]
        BY <2>6, <2>7, <2>8
    <2> QED BY <2>9 DEF F, E
<1> QED BY <1>8, <1>9 DEF Elements

-----------------------------------------------------------------------------
(* The modes                                                               *)

Pairs(Y)   == {Pair(p[1], p[2]) : p \in Y}
Stageds(Y) == {Staged(p[1], p[2]) : p \in Y}
Triples(Y) == {Triple(p[1], p[2], p[3]) : p \in Y}

\* Two lines in the order in which they are met, and a third one.
LinePairs(g) == {p \in (1..g.lines) \X (1..g.lines) : p[1] < p[2]}
LineTriples(g) == {p \in (1..g.lines) \X (1..g.lines) \X (1..g.lines) :
                        p[1] < p[2] /\ p[3] # p[1] /\ p[3] # p[2]}

\* Different pairs of elements make different contingencies.
LEMMA PairInjective ==
    ASSUME NEW a, NEW b, NEW c, NEW d, Pair(a, b) = Pair(c, d)
    PROVE  a = c /\ b = d
<1>1. <<a, b>> = <<c, d>>
    BY DEF Pair
<1> QED BY <1>1

\* The same for two stages.
LEMMA StagedInjective ==
    ASSUME NEW a, NEW b, NEW c, NEW d, Staged(a, b) = Staged(c, d)
    PROVE  a = c /\ b = d
<1>1. <<a, b>> = <<c, d>>
    BY DEF Staged
<1> QED BY <1>1

\* Mode N-1: each element
LEMMA N1Made ==
    ASSUME NEW g \in Grids
    PROVE  Lists(buildN1(g, Empty, 0, 0), {Single(e) : e \in Elements(g)})
<1> DEFINE C == {Single(e) : e \in Elements(g)}
           f == [i \in Elements(g) |-> Single(i)]
           n == g.lines + g.gens + g.loads
<1>1. n \in Nat
    BY DEF Grids
<1>2. Elements(g) = 1..n
    BY DEF Elements
<1>3. f \in [1..n -> C]
    BY <1>2
<1>4. \A x \in C : \E i \in 1..n : f[i] = x
    BY <1>2
<1>5. \A i, j \in 1..n : f[i] = f[j] => i = j
    <2> SUFFICES ASSUME NEW i \in 1..n, NEW j \in 1..n, Single(i) = Single(j)
                 PROVE  i = j
        BY <1>2
    <2>1. <<i>> = <<j>>
        BY DEF Single
    <2> QED BY <2>1
<1> HIDE DEF f, C, n
<1>6. Lists(f, C)
    BY <1>1, <1>3, <1>4, <1>5, CountLists
<1>7. buildN1(g, Empty, 0, 0) = f
    BY N1Singles DEF f
<1> QED BY <1>6, <1>7 DEF C

\* Mode N-1-1: each element after each element
LEMMA N11Made ==
    ASSUME NEW g \in Grids
    PROVE  Lists(buildN11(g), Stageds(Elements(g) \X Elements(g)))
<1> DEFINE n == g.lines + g.gens + g.loads
           C == [k \in 1..n |-> Made(Single(k), 1, Elements(g))]
           f == [k \in 1..n |-> buildN1(g, Single(k), 1, 0)]
<1>1. n \in Nat
    BY DEF Grids
<1>2. Elements(g) = 1..n /\ \A k \in 1..n : k \in Nat
    BY <1>1 DEF Elements
<1> HIDE DEF n
<1>3. \A k \in 1..n : C[k] = {Staged(k, e) : e \in Elements(g)}
    BY <1>2, StagedMade DEF Made
<1>4. \A k \in 1..n : Lists(f[k], C[k])
    <2> SUFFICES ASSUME NEW k \in 1..n
                 PROVE  Lists(buildN1(g, Single(k), 1, 0), Made(Single(k), 1, Elements(g)))
        OBVIOUS
    <2>1. Distinct(Single(k), 1)
        BY <1>2, DistinctCases
    <2> QED BY <2>1, N1Lists
<1>5. \A k, l \in 1..n : k # l => C[k] \cap C[l] = {}
    <2> SUFFICES ASSUME NEW k \in 1..n, NEW l \in 1..n, NEW x \in C[k], x \in C[l]
                 PROVE  k = l
        OBVIOUS
    <2> HIDE DEF C
    <2>1. PICK d : x = Staged(k, d)
        BY <1>3
    <2>2. PICK e : x = Staged(l, e)
        BY <1>3
    <2> QED BY <2>1, <2>2, StagedInjective
<1>6. DOMAIN f = 1..n /\ f = [k \in 1..n |-> f[k]]
    OBVIOUS
<1>7. UNION {C[k] : k \in 1..n} = Stageds(Elements(g) \X Elements(g))
    <2>1. ASSUME NEW k \in 1..n, NEW x \in C[k]
          PROVE  x \in Stageds(Elements(g) \X Elements(g))
        <3>1. PICK e \in Elements(g) : x = Staged(k, e)
            BY <1>3, <2>1
        <3>2. <<k, e>> \in Elements(g) \X Elements(g) /\ <<k, e>>[1] = k /\ <<k, e>>[2] = e
            BY <1>2
        <3> QED BY <3>1, <3>2 DEF Stageds
    <2>2. ASSUME NEW x \in Stageds(Elements(g) \X Elements(g))
          PROVE  \E k \in 1..n : x \in C[k]
        <3>1. PICK p \in Elements(g) \X Elements(g) : x = Staged(p[1], p[2])
            BY DEF Stageds
        <3>2. p[1] \in 1..n /\ p[2] \in Elements(g)
            BY <1>2
        <3> QED BY <1>3, <3>1, <3>2
    <2> QED BY <2>1, <2>2
<1>8. buildN11(g) = FlattenSeq(f)
    <2>1. \A k \in DOMAIN buildN1(g, Empty, 0, 0) : buildN1(g, Empty, 0, 0)[k] = Single(k)
        BY N1Singles
    <2>2. DOMAIN buildN1(g, Empty, 0, 0) = 1..n
        BY <1>2, N1Singles
    <2> QED BY <2>1, <2>2 DEF buildN11
<1> HIDE DEF f, C
<1>9. Lists(FlattenSeq(f), UNION {C[k] : k \in 1..n})
    BY <1>1, <1>4, <1>5, <1>6, FlattenLists
<1> QED BY <1>7, <1>8, <1>9

\* Mode N-2-LINE: each line with each later line
LEMMA N2LineMade ==
    ASSUME NEW g \in Grids
    PROVE  Lists(buildN2Line(g), Pairs(LinePairs(g)))
<1> DEFINE n == g.lines
           C == [k \in 1..n |-> Made(Single(k), 0, (0 + k + 1)..(0 + n))]
           f == [k \in 1..n |-> lineContingencies(g, Single(k), 0, k)]
<1>1. n \in Nat
    BY DEF Grids
<1>2. \A k \in 1..n : k \in Nat
    BY <1>1
<1>3. \A k \in 1..n : Lists(f[k], C[k])
    <2> SUFFICES ASSUME NEW k \in 1..n
                 PROVE  Lists(buildContingencies(0, n, Single(k), 0, k),
                              Made(Single(k), 0, (0 + k + 1)..(0 + n)))
        BY DEF lineContingencies
    <2>1. Distinct(Single(k), 0)
        BY <1>2, DistinctCases
    <2>2. k \in Nat
        BY <1>2
    <2> QED BY <1>1, <2>1, <2>2, BuildLists
<1>4. \A k \in 1..n : C[k] = {Pair(k, e) : e \in (k + 1)..n}
    <2> SUFFICES ASSUME NEW k \in 1..n
                 PROVE  Made(Single(k), 0, (0 + k + 1)..(0 + n)) = {Pair(k, e) : e \in (k + 1)..n}
        OBVIOUS
    <2>1. (0 + k + 1)..(0 + n) = (k + 1)..n /\ \A e \in (k + 1)..n : e \in Nat
        BY <1>1
    <2> HIDE DEF n
    <2> QED BY <1>2, <2>1, PairMade DEF Made
<1>5. \A k, l \in 1..n : k # l => C[k] \cap C[l] = {}
    <2> SUFFICES ASSUME NEW k \in 1..n, NEW l \in 1..n, NEW x \in C[k], x \in C[l]
                 PROVE  k = l
        OBVIOUS
    <2> HIDE DEF C
    <2>1. PICK d : x = Pair(k, d)
        BY <1>4
    <2>2. PICK e : x = Pair(l, e)
        BY <1>4
    <2> QED BY <2>1, <2>2, PairInjective
<1>6. DOMAIN f = 1..n /\ f = [k \in 1..n |-> f[k]]
    OBVIOUS
<1>7. UNION {C[k] : k \in 1..n} = Pairs(LinePairs(g))
    <2>1. ASSUME NEW k \in 1..n, NEW e \in (k + 1)..n
          PROVE  <<k, e>> \in LinePairs(g)
        BY <1>1 DEF LinePairs
    <2>2. ASSUME NEW p \in LinePairs(g)
          PROVE  p[1] \in 1..n /\ p[2] \in (p[1] + 1)..n
        BY <1>1 DEF LinePairs
    <2>3. ASSUME NEW k \in 1..n, NEW x \in C[k] PROVE x \in Pairs(LinePairs(g))
        <3>1. PICK e \in (k + 1)..n : x = Pair(k, e)
            BY <1>4, <2>3
        <3>2. <<k, e>> \in LinePairs(g) /\ <<k, e>>[1] = k /\ <<k, e>>[2] = e
            BY <2>1
        <3> QED BY <3>1, <3>2 DEF Pairs
    <2>4. ASSUME NEW x \in Pairs(LinePairs(g)) PROVE \E k \in 1..n : x \in C[k]
        <3>1. PICK p \in LinePairs(g) : x = Pair(p[1], p[2])
            BY DEF Pairs
        <3> QED BY <1>4, <2>2, <3>1
    <2> QED BY <2>3, <2>4
<1>8. buildN2Line(g) = FlattenSeq(f)
    BY LineSingles DEF buildN2Line
<1> HIDE DEF f, C, n
<1>9. Lists(FlattenSeq(f), UNION {C[k] : k \in 1..n})
    BY <1>1, <1>3, <1>5, <1>6, FlattenLists
<1> QED BY <1>7, <1>8, <1>9

\* Mode N-2: pairs of an element and a later one, all pairs of lines among
\* them
LEMMA N2Made ==
    ASSUME NEW g \in Grids
    PROVE  \E Y \in SUBSET (Elements(g) \X Elements(g)) :
                /\ Lists(buildN2(g), Pairs(Y))
                /\ \A p \in Y : p[1] < p[2]
                /\ LinePairs(g) \subseteq Y
<1> DEFINE n == g.lines + g.gens + g.loads
           Good(k, X) ==
                /\ Lists(buildN1(g, Single(k), 0, k), Made(Single(k), 0, X))
                /\ \A e \in X : e > k
                /\ (k + 1)..g.lines \subseteq X
           X == [k \in 1..n |-> CHOOSE Z \in SUBSET Elements(g) : Good(k, Z)]
           C == [k \in 1..n |-> Made(Single(k), 0, X[k])]
           f == [k \in 1..n |-> buildN1(g, Single(k), 0, k)]
           Y == {p \in Elements(g) \X Elements(g) : p[2] \in X[p[1]]}
<1>1. n \in Nat /\ g.lines \in Nat /\ g.lines <= n
    BY DEF Grids
<1>2. Elements(g) = 1..n /\ \A k \in 1..n : k \in Nat
    BY <1>1 DEF Elements
<1> HIDE DEF n
<1>3. ASSUME NEW k \in 1..n PROVE X[k] \in SUBSET Elements(g) /\ Good(k, X[k])
    <2>1. Distinct(Single(k), 0) /\ k \in Nat
        BY <1>2, DistinctCases
    <2>2. \E Z \in SUBSET Elements(g) : Good(k, Z)
        BY <2>1, N1Lists
    <2> HIDE DEF Good
    <2> QED BY <2>2
<1>4. \A k \in 1..n : C[k] = {Pair(k, e) : e \in X[k]}
    <2> SUFFICES ASSUME NEW k \in 1..n
                 PROVE  Made(Single(k), 0, X[k]) = {Pair(k, e) : e \in X[k]}
        OBVIOUS
    <2>1. \A e \in X[k] : e \in Nat
        BY <1>2, <1>3
    <2> HIDE DEF X
    <2> QED BY <1>2, <2>1, PairMade DEF Made
<1> HIDE DEF X
<1>5. \A k, l \in 1..n : k # l => C[k] \cap C[l] = {}
    <2> SUFFICES ASSUME NEW k \in 1..n, NEW l \in 1..n, NEW x \in C[k], x \in C[l]
                 PROVE  k = l
        OBVIOUS
    <2> HIDE DEF C
    <2>1. PICK d : x = Pair(k, d)
        BY <1>4
    <2>2. PICK e : x = Pair(l, e)
        BY <1>4
    <2> QED BY <2>1, <2>2, PairInjective
<1>6. DOMAIN f = 1..n /\ f = [k \in 1..n |-> f[k]]
    OBVIOUS
<1>7. UNION {C[k] : k \in 1..n} = Pairs(Y)
    <2>1. ASSUME NEW k \in 1..n, NEW x \in C[k] PROVE x \in Pairs(Y)
        <3>1. PICK e \in X[k] : x = Pair(k, e)
            BY <1>4, <2>1
        <3>2. <<k, e>> \in Y /\ <<k, e>>[1] = k /\ <<k, e>>[2] = e
            BY <1>2, <1>3
        <3> QED BY <3>1, <3>2 DEF Pairs
    <2>2. ASSUME NEW x \in Pairs(Y) PROVE \E k \in 1..n : x \in C[k]
        <3>1. PICK p \in Y : x = Pair(p[1], p[2])
            BY DEF Pairs
        <3>2. p[1] \in 1..n /\ p[2] \in X[p[1]]
            BY <1>2
        <3> QED BY <1>4, <3>1, <3>2
    <2> QED BY <2>1, <2>2
<1>8. buildN2(g) = FlattenSeq(f)
    <2>1. \A k \in DOMAIN buildN1(g, Empty, 0, 0) : buildN1(g, Empty, 0, 0)[k] = Single(k)
        BY N1Singles
    <2>2. DOMAIN buildN1(g, Empty, 0, 0) = 1..n
        BY <1>2, N1Singles
    <2> QED BY <2>1, <2>2 DEF buildN2
<1>9. \A k \in 1..n : Lists(f[k], C[k])
    BY <1>3
<1>10. ASSUME NEW p \in Y PROVE p[1] < p[2]
    BY <1>2, <1>3
<1>11. ASSUME NEW p \in LinePairs(g) PROVE p \in Y
    <2>1. p[1] \in 1..n /\ p[2] \in 1..n /\ p = <<p[1], p[2]>> /\ p[2] \in (p[1] + 1)..g.lines
        BY <1>1 DEF LinePairs
    <2> QED BY <1>2, <1>3, <2>1
<1> HIDE DEF f, C, Y
<1>12. Lists(FlattenSeq(f), UNION {C[k] : k \in 1..n})
    BY <1>1, <1>9, <1>5, <1>6, FlattenLists
<1>13. Y \in SUBSET (Elements(g) \X Elements(g))
    BY DEF Y
<1> QED BY <1>7, <1>8, <1>10, <1>11, <1>12, <1>13

\* A third event after two, written out.
LEMMA ConcatThird ==
    ASSUME NEW a, NEW b, NEW c
    PROVE  <<a, b>> \o <<c>> = <<a, b, c>>
<1> DEFINE t == <<a, b>> \o <<c>>
<1>1. <<a, b>> \in Seq({a, b, c}) /\ <<c>> \in Seq({a, b, c})
    OBVIOUS
<1>2. t \in Seq({a, b, c}) /\ Len(t) = 3 /\ t[1] = a /\ t[2] = b /\ t[3] = c
    BY <1>1
<1> HIDE DEF t
<1>3. t = <<a, b, c>>
    BY <1>2
<1> QED BY <1>3 DEF t

\* mergeIfUnique adds the event of a third line, and nothing for one of the two.
LEMMA FlattenOne ==
    ASSUME NEW t
    PROVE  FlattenSeq(<<t>>) = t
<1>1. <<t>> \in Seq({t}) /\ <<t>> # <<>> /\ Len(<<t>>) = 1 /\ <<t>>[1] = t
    OBVIOUS
<1>2. PICK f : IsFlat(f, <<t>>, 1) /\ FlattenSeq(<<t>>) = f[1]
    BY <1>1, FlattenIs
<1>3. f[1] = t
    BY <1>1, <1>2 DEF IsFlat
<1> QED BY <1>2, <1>3

\* A pair with a third line: mergeIfUnique adds the event of the single
\* contingency itself, and nothing if the line is in the pair already.
LEMMA TripleMade ==
    ASSUME NEW k \in Nat, NEW l \in Nat, NEW e \in Nat
    PROVE  addContingencyIfUnique(Pair(k, l), Single(e)) =
                IF e \in {k, l} THEN <<>> ELSE <<Triple(k, l, e)>>
<1> DEFINE id  == <<k, l, e>>
           x   == Ev(k, id)
           y   == Ev(l, id)
           z   == Ev(e, <<e>>)
           old == <<x, y>>
           c   == [id |-> id, stages |-> <<old>>]
           new == IF e \in {k, l} THEN <<>> ELSE <<z>>
<1>1. Pair(k, l).id \o Single(e).id = id
    <2>1. Pair(k, l).id = <<k, l>> /\ Single(e).id = <<e>>
        BY DEF Pair, Single
    <2>2. <<k, l>> \o <<e>> = <<k, l, e>>
        BY ConcatThird
    <2> QED BY <2>1, <2>2
<1>2. clone(Pair(k, l), id) = c
    BY ClonePair
<1>3. c.stages[1] = old /\ DOMAIN old = {1, 2} /\ old[1] = x /\ old[2] = y
    OBVIOUS
<1>4. x.element = k /\ y.element = l /\ z.element = e
    BY DEF Ev
<1>5. Single(e).stages[1] = <<z>>
    BY DEF Single
<1>6. DOMAIN <<z>> = {1} /\ <<z>>[1] = z
    OBVIOUS
<1> HIDE DEF x, y, z, id
<1>7. (\E i \in DOMAIN c.stages[1] : c.stages[1][i].element = z.element) <=> e \in {k, l}
    <2> HIDE DEF c, old
    <2> QED BY <1>3, <1>4
<1>8. [i \in DOMAIN <<z>> |-> IF \E j \in DOMAIN c.stages[1] :
                                    c.stages[1][j].element = <<z>>[i].element
                                THEN <<>> ELSE << <<z>>[i] >>] = <<new>>
    <2>1. (IF \E j \in DOMAIN c.stages[1] : c.stages[1][j].element = z.element
             THEN <<>> ELSE <<z>>) = new
        BY <1>7
    <2> HIDE DEF c, new
    <2>2. \A t : [i \in {1} |-> t] = <<t>>
        OBVIOUS
    <2> QED BY <1>6, <2>1, <2>2
<1>9. FlattenSeq(<<new>>) = new
    BY FlattenOne
<1>10. mergeIfUnique(c, Single(e)) = [c EXCEPT !.stages[1] = @ \o new]
    <2> DEFINE m == [i \in DOMAIN <<z>> |-> IF \E j \in DOMAIN c.stages[1] :
                                    c.stages[1][j].element = <<z>>[i].element
                                THEN <<>> ELSE << <<z>>[i] >>]
    <2>1. m = <<new>>
        BY <1>8
    <2> HIDE DEF c, new
    <2>2. mergeIfUnique(c, Single(e)) = [c EXCEPT !.stages[1] = @ \o FlattenSeq(m)]
        BY <1>5 DEF mergeIfUnique
    <2> HIDE DEF m
    <2> QED BY <1>9, <2>1, <2>2
<1>11. [c EXCEPT !.stages[1] = @ \o new] = [id |-> id, stages |-> <<old \o new>>]
    <2> DEFINE v == old \o new
    <2>1. c.stages = <<old>> /\ c.stages[1] = old
        OBVIOUS
    <2> HIDE DEF v, old, new
    <2>2. [<<old>> EXCEPT ![1] = v] = <<v>>
        OBVIOUS
    <2>3. [c EXCEPT !.stages = <<v>>] = [id |-> id, stages |-> <<v>>]
        OBVIOUS
    <2> HIDE DEF c
    <2>4. [c EXCEPT !.stages[1] = @ \o new] = [c EXCEPT !.stages = [@ EXCEPT ![1] = v]]
        BY <2>1 DEF v
    <2> QED BY <2>1, <2>2, <2>3, <2>4 DEF v
<1>12. CASE e \in {k, l}
    <2>1. old \o new = old
        BY <1>12
    <2>2. mergeIfUnique(c, Single(e)) = c
        BY <1>10, <1>11, <2>1
    <2> HIDE DEF c
    <2> QED BY <1>1, <1>2, <1>12, <2>2 DEF addContingencyIfUnique
<1>13. CASE e \notin {k, l}
    <2> DEFINE m == [id |-> id, stages |-> << <<x, y, z>> >>]
    <2>1. old \o new = <<x, y, z>>
        BY <1>13, ConcatThird
    <2>2. mergeIfUnique(c, Single(e)) = m
        BY <1>10, <1>11, <2>1
    <2>3. m # c
        <3>1. m.stages[1] = <<x, y, z>> /\ c.stages[1] = <<x, y>>
            OBVIOUS
        <3>2. Len(<<x, y, z>>) # Len(<<x, y>>)
            OBVIOUS
        <3> QED BY <3>1, <3>2
    <2>4. m = Triple(k, l, e)
        BY DEF Triple, x, y, z, id
    <2> HIDE DEF c, m
    <2> QED BY <1>1, <1>2, <1>13, <2>2, <2>3, <2>4 DEF addContingencyIfUnique
<1> QED BY <1>12, <1>13

\* Different pairs with different lines make different contingencies.
LEMMA TripleInjective ==
    ASSUME NEW a, NEW b, NEW c, NEW p, NEW q, NEW r, Triple(a, b, c) = Triple(p, q, r)
    PROVE  a = p /\ b = q /\ c = r
<1>1. <<a, b, c>> = <<p, q, r>>
    BY DEF Triple
<1> QED BY <1>1

\* The lines other than the two of a pair, and the triples with them
Others(g, k, l) == (1..g.lines) \ {k, l}

\* One pair of lines gives one triple for each of the other lines.
LEMMA TriplesOfPair ==
    ASSUME NEW g \in Grids, NEW k \in Nat, NEW l \in Nat
    PROVE  Lists(FlattenSeq([e \in 1..g.lines |-> addContingencyIfUnique(Pair(k, l), Single(e))]),
                 {Triple(k, l, e) : e \in Others(g, k, l)})
<1> DEFINE n == g.lines
           f == [e \in 1..n |-> addContingencyIfUnique(Pair(k, l), Single(e))]
           C == [e \in 1..n |-> IF e \in {k, l} THEN {} ELSE {Triple(k, l, e)}]
<1>1. n \in Nat /\ \A e \in 1..n : e \in Nat
    BY DEF Grids
<1> HIDE DEF n
<1>2. ASSUME NEW e \in 1..n PROVE Lists(f[e], C[e])
    <2>1. f[e] = IF e \in {k, l} THEN <<>> ELSE <<Triple(k, l, e)>>
        BY <1>1, TripleMade
    <2>2. Lists(<<>>, {})
        BY DEF Lists
    <2>3. \A x : Lists(<<x>>, {x})
        BY DEF Lists
    <2>4. CASE e \in {k, l}
        <3>1. f[e] = <<>> /\ C[e] = {}
            BY <2>1, <2>4
        <3> QED BY <2>2, <3>1
    <2>5. CASE e \notin {k, l}
        <3>1. f[e] = <<Triple(k, l, e)>> /\ C[e] = {Triple(k, l, e)}
            BY <2>1, <2>5
        <3> QED BY <2>3, <3>1
    <2> QED BY <2>4, <2>5
<1>3. \A d, e \in 1..n : d # e => C[d] \cap C[e] = {}
    <2> SUFFICES ASSUME NEW d \in 1..n, NEW e \in 1..n, NEW x \in C[d], x \in C[e]
                 PROVE  d = e
        OBVIOUS
    <2>1. x = Triple(k, l, d) /\ x = Triple(k, l, e)
        OBVIOUS
    <2> QED BY <2>1, TripleInjective
<1>4. DOMAIN f = 1..n /\ f = [e \in 1..n |-> f[e]]
    OBVIOUS
<1>5. UNION {C[e] : e \in 1..n} = {Triple(k, l, e) : e \in Others(g, k, l)}
    BY DEF Others, n
<1> HIDE DEF f, C
<1>6. Lists(FlattenSeq(f), UNION {C[e] : e \in 1..n})
    BY <1>1, <1>2, <1>3, <1>4, FlattenLists
<1>7. Lists(FlattenSeq(f), {Triple(k, l, e) : e \in Others(g, k, l)})
    BY <1>5, <1>6
<1> QED BY <1>7 DEF f, n

\* Mode N-3-LINE: each pair of lines with each other line
LEMMA N3LineMade ==
    ASSUME NEW g \in Grids
    PROVE  Lists(buildN3Line(g), Triples(LineTriples(g)))
<1> DEFINE n == g.lines
           P == buildN2Line(g)
           k(i) == P[i].id[1]
           l(i) == P[i].id[2]
           m == Len(P)
           f == [i \in 1..m |-> FlattenSeq([e \in 1..n |->
                                    addContingencyIfUnique(P[i], Single(e))])]
           C == [i \in 1..m |-> {Triple(k(i), l(i), e) : e \in Others(g, k(i), l(i))}]
<1>1. n \in Nat
    BY DEF Grids
<1>2. Lists(P, Pairs(LinePairs(g)))
    BY N2LineMade
<1>3. buildN3Line(g) = FlattenSeq(f)
    <2>1. P \in Seq(Pairs(LinePairs(g)))
        BY <1>2 DEF Lists
    <2>2. DOMAIN P = 1..m
        BY <2>1
    <2>3. /\ DOMAIN lineContingencies(g, Empty, 0, 0) = 1..n
          /\ \A e \in 1..n : lineContingencies(g, Empty, 0, 0)[e] = Single(e)
        BY LineSingles
    <2> HIDE DEF P, m, n
    <2> QED BY <2>2, <2>3 DEF buildN3Line, P
<1> HIDE DEF P
<1>4. m \in Nat /\ DOMAIN P = 1..m /\ \A i \in 1..m : P[i] \in Pairs(LinePairs(g))
    BY <1>2 DEF Lists
<1> HIDE DEF m
<1>5. ASSUME NEW i \in 1..m
      PROVE  /\ P[i] = Pair(k(i), l(i)) /\ <<k(i), l(i)>> \in LinePairs(g)
             /\ k(i) \in 1..n /\ l(i) \in 1..n /\ k(i) < l(i)
             /\ k(i) \in Nat /\ l(i) \in Nat
    <2>1. PICK p \in LinePairs(g) : P[i] = Pair(p[1], p[2])
        BY <1>4 DEF Pairs
    <2>2. k(i) = p[1] /\ l(i) = p[2]
        BY <2>1 DEF Pair
    <2>3. p = <<p[1], p[2]>> /\ p[1] \in 1..n /\ p[2] \in 1..n /\ p[1] < p[2]
        BY DEF LinePairs
    <2> QED BY <1>1, <2>1, <2>2, <2>3
<1>6. ASSUME NEW i \in 1..m PROVE Lists(f[i], C[i])
    <2>1. P[i] = Pair(k(i), l(i)) /\ k(i) \in Nat /\ l(i) \in Nat
        BY <1>5
    <2>2. f[i] = FlattenSeq([e \in 1..n |-> addContingencyIfUnique(Pair(k(i), l(i)), Single(e))])
        BY <2>1
    <2>3. C[i] = {Triple(k(i), l(i), e) : e \in Others(g, k(i), l(i))}
        OBVIOUS
    <2> HIDE DEF k, l, f, C
    <2> QED BY <2>1, <2>2, <2>3, TriplesOfPair
<1>7. \A i, j \in 1..m : i # j => C[i] \cap C[j] = {}
    <2> SUFFICES ASSUME NEW i \in 1..m, NEW j \in 1..m, NEW x \in C[i], x \in C[j]
                 PROVE  i = j
        OBVIOUS
    <2>1. PICK d : x = Triple(k(i), l(i), d)
        OBVIOUS
    <2>2. PICK e : x = Triple(k(j), l(j), e)
        OBVIOUS
    <2>3. k(i) = k(j) /\ l(i) = l(j)
        <3> HIDE DEF k, l
        <3> QED BY <2>1, <2>2, TripleInjective
    <2>4. P[i] = P[j]
        <3> HIDE DEF k, l
        <3> QED BY <1>5, <2>3
    <2> QED BY <1>2, <1>4, <2>4 DEF Lists
<1>8. DOMAIN f = 1..m /\ f = [i \in 1..m |-> f[i]]
    OBVIOUS
<1>9. UNION {C[i] : i \in 1..m} = Triples(LineTriples(g))
    <2>1. ASSUME NEW i \in 1..m, NEW x \in C[i] PROVE x \in Triples(LineTriples(g))
        <3>1. PICK e \in Others(g, k(i), l(i)) : x = Triple(k(i), l(i), e)
            BY <2>1
        <3> DEFINE t == <<k(i), l(i), e>>
        <3>2. t \in LineTriples(g) /\ t[1] = k(i) /\ t[2] = l(i) /\ t[3] = e
            <4> HIDE DEF k, l
            <4> QED BY <1>5 DEF LineTriples, Others
        <3> HIDE DEF t, k, l
        <3> QED BY <3>1, <3>2 DEF Triples
    <2>2. ASSUME NEW x \in Triples(LineTriples(g)) PROVE \E i \in 1..m : x \in C[i]
        <3>1. PICK t \in LineTriples(g) : x = Triple(t[1], t[2], t[3])
            BY DEF Triples
        <3>2. <<t[1], t[2]>> \in LinePairs(g) /\ t[3] \in Others(g, t[1], t[2])
            BY DEF LineTriples, LinePairs, Others
        <3>3. Pair(t[1], t[2]) \in Pairs(LinePairs(g))
            <4> DEFINE p == <<t[1], t[2]>>
            <4>1. p \in LinePairs(g) /\ p[1] = t[1] /\ p[2] = t[2]
                BY <3>2
            <4> HIDE DEF p
            <4> QED BY <4>1 DEF Pairs
        <3>4. PICK i \in 1..m : P[i] = Pair(t[1], t[2])
            BY <1>2, <1>4, <3>3 DEF Lists
        <3>5. k(i) = t[1] /\ l(i) = t[2]
            BY <3>4 DEF Pair
        <3> HIDE DEF k, l
        <3>6. x \in C[i]
            BY <3>1, <3>2, <3>5
        <3> QED BY <3>6
    <2> QED BY <2>1, <2>2
<1> HIDE DEF f, C, n
<1>10. Lists(FlattenSeq(f), UNION {C[i] : i \in 1..m})
    BY <1>4, <1>6, <1>7, <1>8, FlattenLists
<1> QED BY <1>3, <1>9, <1>10

-----------------------------------------------------------------------------
(* Outages                                                                 *)

EventsIn(x)  == UNION {{x.stages[s][i] : i \in DOMAIN x.stages[s]} : s \in DOMAIN x.stages}
OutagesIn(x) == {e.element : e \in EventsIn(x)}

\* The events of the contingencies of C belong to the contingency that they
\* are in, and the name of a contingency is its own.
Apart(C) ==
    /\ \A x \in C : \A e \in EventsIn(x) : e.owner = x.id
    /\ \A x, y \in C : x.id = y.id => x = y

\* The events and the outages of each kind of contingency.
LEMMA SingleEvents ==
    ASSUME NEW e
    PROVE  EventsIn(Single(e)) = {Ev(e, <<e>>)} /\ OutagesIn(Single(e)) = {e}
<1> DEFINE x == Ev(e, <<e>>)
<1>1. Single(e).stages = << <<x>> >>
    BY DEF Single
<1>2. x.element = e
    BY DEF Ev
<1> HIDE DEF x
<1>3. EventsIn(Single(e)) = {x}
    BY <1>1 DEF EventsIn
<1> QED BY <1>2, <1>3 DEF OutagesIn, x

\* Those of a pair in one stage.
LEMMA PairEvents ==
    ASSUME NEW k, NEW e
    PROVE  /\ EventsIn(Pair(k, e)) = {Ev(k, <<k, e>>), Ev(e, <<k, e>>)}
           /\ OutagesIn(Pair(k, e)) = {k, e}
<1> DEFINE x == Ev(k, <<k, e>>)
           y == Ev(e, <<k, e>>)
           t == <<x, y>>
<1>1. Pair(k, e).stages = <<t>>
    BY DEF Pair
<1>2. x.element = k /\ y.element = e
    BY DEF Ev
<1> HIDE DEF x, y
<1>3. DOMAIN t = {1, 2} /\ t[1] = x /\ t[2] = y
    OBVIOUS
<1> HIDE DEF t
<1>4. DOMAIN <<t>> = {1} /\ <<t>>[1] = t
    OBVIOUS
<1>5. {t[i] : i \in DOMAIN t} = {x, y}
    BY <1>3
<1>6. EventsIn(Pair(k, e)) = {x, y}
    BY <1>1, <1>4, <1>5 DEF EventsIn
<1> QED BY <1>2, <1>6 DEF OutagesIn, x, y

\* Those of a pair in two stages.
LEMMA StagedEvents ==
    ASSUME NEW k, NEW e
    PROVE  /\ EventsIn(Staged(k, e)) = {Ev(k, <<k, e>>), Ev(e, <<k, e>>)}
           /\ OutagesIn(Staged(k, e)) = {k, e}
<1> DEFINE x == Ev(k, <<k, e>>)
           y == Ev(e, <<k, e>>)
           t == << <<x>>, <<y>> >>
<1>1. Staged(k, e).stages = t
    BY DEF Staged
<1>2. x.element = k /\ y.element = e
    BY DEF Ev
<1> HIDE DEF x, y
<1>3. DOMAIN t = {1, 2} /\ t[1] = <<x>> /\ t[2] = <<y>>
    OBVIOUS
<1> HIDE DEF t
<1>4. {<<x>>[i] : i \in DOMAIN <<x>>} = {x} /\ {<<y>>[i] : i \in DOMAIN <<y>>} = {y}
    <2>1. DOMAIN <<x>> = {1} /\ <<x>>[1] = x /\ DOMAIN <<y>> = {1} /\ <<y>>[1] = y
        OBVIOUS
    <2> QED BY <2>1
<1>5. EventsIn(Staged(k, e)) = {x, y}
    BY <1>1, <1>3, <1>4 DEF EventsIn
<1> QED BY <1>2, <1>5 DEF OutagesIn, x, y

\* Those of a triple, one of whose events belongs to a single contingency.
LEMMA TripleEvents ==
    ASSUME NEW k, NEW l, NEW e
    PROVE  OutagesIn(Triple(k, l, e)) = {k, l, e}
<1> DEFINE x == Ev(k, <<k, l, e>>)
           y == Ev(l, <<k, l, e>>)
           z == Ev(e, <<e>>)
           t == <<x, y, z>>
<1>1. Triple(k, l, e).stages = <<t>>
    BY DEF Triple
<1>2. x.element = k /\ y.element = l /\ z.element = e
    BY DEF Ev
<1> HIDE DEF x, y, z
<1>3. DOMAIN t = {1, 2, 3} /\ t[1] = x /\ t[2] = y /\ t[3] = z
    OBVIOUS
<1> HIDE DEF t
<1>4. DOMAIN <<t>> = {1} /\ <<t>>[1] = t
    OBVIOUS
<1>5. {t[i] : i \in DOMAIN t} = {x, y, z}
    BY <1>3
<1>6. EventsIn(Triple(k, l, e)) = {x, y, z}
    BY <1>1, <1>4, <1>5 DEF EventsIn
<1> QED BY <1>2, <1>6 DEF OutagesIn

\* Single contingencies share no event.
LEMMA SinglesApart ==
    ASSUME NEW S
    PROVE  Apart({Single(e) : e \in S})
<1>1. \A e : \A v \in EventsIn(Single(e)) : v.owner = Single(e).id
    <2> SUFFICES ASSUME NEW e PROVE Ev(e, <<e>>).owner = Single(e).id
        BY SingleEvents
    <2> QED BY DEF Ev, Single
<1>2. \A d, e : Single(d).id = Single(e).id => d = e
    <2> SUFFICES ASSUME NEW d, NEW e, <<d>> = <<e>> PROVE d = e
        BY DEF Single
    <2> QED OBVIOUS
<1> QED BY <1>1, <1>2 DEF Apart

\* Pairs share no event, though they are made from the same singles.
LEMMA PairsApart ==
    ASSUME NEW Y
    PROVE  Apart(Pairs(Y)) /\ Apart(Stageds(Y))
<1>1. ASSUME NEW k, NEW e
      PROVE  /\ \A v \in EventsIn(Pair(k, e)) : v.owner = Pair(k, e).id
             /\ \A v \in EventsIn(Staged(k, e)) : v.owner = Staged(k, e).id
    <2>1. Pair(k, e).id = <<k, e>> /\ Staged(k, e).id = <<k, e>>
        BY DEF Pair, Staged
    <2>2. \A v \in {Ev(k, <<k, e>>), Ev(e, <<k, e>>)} : v.owner = <<k, e>>
        BY DEF Ev
    <2> QED BY <2>1, <2>2, PairEvents, StagedEvents
<1>2. ASSUME NEW a, NEW b, NEW c, NEW d, Pair(a, b).id = Pair(c, d).id
      PROVE  Pair(a, b) = Pair(c, d)
    <2>1. <<a, b>> = <<c, d>>
        BY <1>2 DEF Pair
    <2>2. a = c /\ b = d
        BY <2>1
    <2> QED BY <2>2
<1>3. ASSUME NEW a, NEW b, NEW c, NEW d, Staged(a, b).id = Staged(c, d).id
      PROVE  Staged(a, b) = Staged(c, d)
    <2>1. <<a, b>> = <<c, d>>
        BY <1>3 DEF Staged
    <2>2. a = c /\ b = d
        BY <2>1
    <2> QED BY <2>2
<1> QED BY <1>1, <1>2, <1>3 DEF Apart, Pairs, Stageds

-----------------------------------------------------------------------------
(* Combinations                                                            *)

\* The combinations of one element of 1..n.
LEMMA OneOf ==
    ASSUME NEW n \in Nat
    PROVE  kSubset(1, 1..n) = {{e} : e \in 1..n}
<1>1. IsFiniteSet(1..n)
    BY FS_Interval
<1>2. \A s \in SUBSET (1..n) : IsFiniteSet(s)
    BY <1>1, FS_Subset
<1>3. \A s \in SUBSET (1..n) : Cardinality(s) = 1 <=> \E x : s = {x}
    BY <1>2, FS_Singleton
<1>4. kSubset(1, 1..n) \subseteq {{e} : e \in 1..n}
    BY <1>3 DEF kSubset
<1>5. {{e} : e \in 1..n} \subseteq kSubset(1, 1..n)
    BY <1>3 DEF kSubset
<1> QED BY <1>4, <1>5

\* The combinations of two, each with its smaller element first.
LEMMA TwoOf ==
    ASSUME NEW n \in Nat
    PROVE  \A s : s \in kSubset(2, 1..n) <=>
                    \E a, b \in 1..n : a < b /\ s = {a, b}
<1>1. IsFiniteSet(1..n)
    BY FS_Interval
<1>2. ASSUME NEW s \in kSubset(2, 1..n) PROVE \E a, b \in 1..n : a < b /\ s = {a, b}
    <2>1. s \subseteq 1..n /\ Cardinality(s) = 2
        BY DEF kSubset
    <2>2. IsFiniteSet(s)
        BY <1>1, <2>1, FS_Subset
    <2>3. s # {}
        BY <2>1, FS_EmptySet
    <2>4. PICK a : a \in s
        BY <2>3
    <2>5. IsFiniteSet(s \ {a}) /\ Cardinality(s \ {a}) = 1
        BY <2>1, <2>2, <2>4, FS_RemoveElement
    <2>6. PICK b : s \ {a} = {b}
        BY <2>5, FS_Singleton
    <2>7. s = {a, b} /\ s = {b, a} /\ a # b /\ a \in 1..n /\ b \in 1..n
        BY <2>1, <2>4, <2>6
    <2>8. a < b \/ b < a
        BY <2>7
    <2> QED BY <2>7, <2>8
<1>3. ASSUME NEW a \in 1..n, NEW b \in 1..n, a # b
      PROVE  {a, b} \in kSubset(2, 1..n)
    <2>1. IsFiniteSet({a}) /\ Cardinality({a}) = 1
        BY FS_Singleton
    <2>2. b \notin {a}
        BY <1>3
    <2>3. Cardinality({a} \cup {b}) = 2
        BY <2>1, <2>2, FS_AddElement
    <2>4. {a} \cup {b} = {a, b}
        OBVIOUS
    <2> QED BY <2>3, <2>4 DEF kSubset
<1>4. \A a, b \in 1..n : a < b => a # b
    OBVIOUS
<1> QED BY <1>2, <1>3, <1>4

\* The combinations of three: a pair and an element that is not in it.
LEMMA ThreeOf ==
    ASSUME NEW n \in Nat
    PROVE  \A s : s \in kSubset(3, 1..n) <=>
                    \E a, b, c \in 1..n : a < b /\ c # a /\ c # b /\ s = {a, b, c}
<1>1. IsFiniteSet(1..n)
    BY FS_Interval
<1>2. ASSUME NEW s \in kSubset(3, 1..n)
      PROVE  \E a, b, c \in 1..n : a < b /\ c # a /\ c # b /\ s = {a, b, c}
    <2>1. s \subseteq 1..n /\ Cardinality(s) = 3
        BY DEF kSubset
    <2>2. IsFiniteSet(s)
        BY <1>1, <2>1, FS_Subset
    <2>3. s # {}
        BY <2>1, FS_EmptySet
    <2>4. PICK c : c \in s
        BY <2>3
    <2> DEFINE t == s \ {c}
    <2>5. Cardinality(t) = 2
        BY <2>1, <2>2, <2>4, FS_RemoveElement
    <2>6. t \in kSubset(2, 1..n)
        <3>1. t \in SUBSET (1..n)
            BY <2>1
        <3> HIDE DEF t
        <3> QED BY <2>5, <3>1 DEF kSubset
    <2>7. PICK a \in 1..n, b \in 1..n : a < b /\ t = {a, b}
        <3> HIDE DEF t
        <3> QED BY <2>6, TwoOf
    <2>8. c # a /\ c # b /\ s = {a, b, c} /\ c \in 1..n
        BY <2>1, <2>4, <2>7
    <2> QED BY <2>7, <2>8
<1>3. ASSUME NEW a \in 1..n, NEW b \in 1..n, NEW c \in 1..n, a < b, c # a, c # b
      PROVE  {a, b, c} \in kSubset(3, 1..n)
    <2>1. {a, b} \in kSubset(2, 1..n)
        BY <1>3, TwoOf
    <2>2. {a, b} \in SUBSET (1..n) /\ Cardinality({a, b}) = 2
        BY <2>1 DEF kSubset
    <2>3. IsFiniteSet({a, b})
        BY <1>1, <2>2, FS_Subset
    <2>4. c \notin {a, b}
        BY <1>3
    <2>5. Cardinality({a, b} \cup {c}) = 3
        BY <2>2, <2>3, <2>4, FS_AddElement
    <2>6. {a, b} \cup {c} = {a, b, c}
        OBVIOUS
    <2>7. Cardinality({a, b, c}) = 3
        BY <2>5, <2>6
    <2> QED BY <2>7 DEF kSubset
<1> QED BY <1>2, <1>3

-----------------------------------------------------------------------------
(* The list of an analysis                                                 *)

\* Covered, from the set of contingencies in the list.
LEMMA CoveredIs ==
    ASSUME NEW C, Lists(job.list, C)
    PROVE  Covered = {OutagesIn(x) : x \in C}
<1>1. Conts = DOMAIN job.list /\ \A c \in Conts : job.list[c] \in C
    BY DEF Conts, Lists
<1>2. \A c \in Conts : Outages(c) = OutagesIn(job.list[c])
    BY DEF Outages, OutagesIn, EventsOf, EventsIn, Stages
<1>3. \A x \in C : \E c \in Conts : job.list[c] = x
    BY <1>1 DEF Lists
<1> QED BY <1>1, <1>2, <1>3 DEF Covered

\* The threads share no event if the contingencies of the list share none.
LEMMA ApartIs ==
    ASSUME NEW C, Lists(job.list, C), Apart(C)
    PROVE  ~Shared
<1> SUFFICES ASSUME NEW c \in Conts, NEW d \in Conts, c # d,
                    NEW e \in EventsOf(c), e \in EventsOf(d)
             PROVE  FALSE
    BY DEF Shared
<1>1. c \in DOMAIN job.list /\ d \in DOMAIN job.list
        /\ job.list[c] \in C /\ job.list[d] \in C
    BY DEF Conts, Lists
<1>2. e \in EventsIn(job.list[c]) /\ e \in EventsIn(job.list[d])
    BY DEF EventsOf, EventsIn, Stages
<1>3. job.list[c].id = job.list[d].id
    BY <1>1, <1>2 DEF Apart
<1>4. job.list[c] = job.list[d]
    BY <1>1, <1>3 DEF Apart
<1> QED BY <1>1, <1>4 DEF Lists

\* What the list of each mode covers: one outage,
LEMMA N1Covers ==
    ASSUME job.grid \in Grids, job.list = buildN1(job.grid, Empty, 0, 0)
    PROVE  Covered = kSubset(1, Elements(job.grid)) /\ ~Shared
<1> DEFINE g == job.grid
           n == g.lines + g.gens + g.loads
           C == {Single(e) : e \in Elements(g)}
<1>1. Lists(job.list, C)
    BY N1Made
<1>2. ~Shared
    <2>1. Apart(C)
        BY SinglesApart
    <2> HIDE DEF C
    <2> QED BY <1>1, <2>1, ApartIs
<1>3. Covered = {OutagesIn(x) : x \in C}
    <2> HIDE DEF C
    <2> QED BY <1>1, CoveredIs
<1>4. n \in Nat /\ Elements(g) = 1..n
    BY DEF Grids, Elements
<1>5. {OutagesIn(x) : x \in C} = {{e} : e \in Elements(g)}
    <2>1. \A e \in Elements(g) : OutagesIn(Single(e)) = {e}
        BY SingleEvents
    <2> QED BY <2>1
<1> HIDE DEF n
<1> QED BY <1>2, <1>3, <1>4, <1>5, OneOf

\* an outage after an outage, of which the same twice is one,
LEMMA N11Covers ==
    ASSUME job.grid \in Grids, job.list = buildN11(job.grid)
    PROVE  /\ Covered = kSubset(1, Elements(job.grid)) \cup kSubset(2, Elements(job.grid))
           /\ ~Shared
<1> DEFINE g == job.grid
           n == g.lines + g.gens + g.loads
           Y == Elements(g) \X Elements(g)
           C == Stageds(Y)
<1>1. Lists(job.list, C)
    BY N11Made
<1>2. ~Shared
    <2>1. Apart(C)
        BY PairsApart
    <2> HIDE DEF C
    <2> QED BY <1>1, <2>1, ApartIs
<1>3. Covered = {OutagesIn(x) : x \in C}
    <2> HIDE DEF C
    <2> QED BY <1>1, CoveredIs
<1>4. n \in Nat /\ Elements(g) = 1..n
    BY DEF Grids, Elements
<1> HIDE DEF n
<1>5. ASSUME NEW s \in Covered PROVE s \in kSubset(1, 1..n) \cup kSubset(2, 1..n)
    <2>1. PICK p \in Y : s = {p[1], p[2]}
        BY <1>3, StagedEvents DEF Stageds
    <2>2. p[1] \in 1..n /\ p[2] \in 1..n
        BY <1>4
    <2>3. CASE p[1] = p[2]
        BY <2>1, <2>2, <2>3, OneOf, <1>4
    <2>4. CASE p[1] < p[2]
        BY <2>1, <2>2, <2>4, TwoOf, <1>4
    <2>5. CASE p[2] < p[1]
        <3>1. s = {p[2], p[1]}
            BY <2>1
        <3> QED BY <3>1, <2>2, <2>5, TwoOf, <1>4
    <2> QED BY <2>2, <2>3, <2>4, <2>5
<1>6. ASSUME NEW a \in 1..n, NEW b \in 1..n PROVE {a, b} \in Covered
    <2> DEFINE p == <<a, b>>
    <2>1. p \in Y /\ p[1] = a /\ p[2] = b
        BY <1>4
    <2> HIDE DEF p, Y
    <2>2. Staged(a, b) \in C
        BY <2>1 DEF Stageds
    <2>3. OutagesIn(Staged(a, b)) = {a, b}
        BY StagedEvents
    <2> QED BY <1>3, <2>2, <2>3
<1>7. ASSUME NEW s \in kSubset(1, 1..n) PROVE s \in Covered
    <2>1. PICK a \in 1..n : s = {a}
        BY <1>4, OneOf
    <2>2. {a} = {a, a}
        OBVIOUS
    <2> QED BY <1>6, <2>1, <2>2
<1>8. ASSUME NEW s \in kSubset(2, 1..n) PROVE s \in Covered
    <2>1. PICK a \in 1..n, b \in 1..n : s = {a, b}
        BY <1>4, TwoOf
    <2> QED BY <1>6, <2>1
<1> QED BY <1>2, <1>4, <1>5, <1>7, <1>8

\* What a list of pairs covers
CoversPairs(Y) == \A s : s \in Covered <=> \E a, b : <<a, b>> \in Y /\ s = {a, b}

\* two outages at once, for any builder that lists pairs of elements,
LEMMA PairsCover ==
    ASSUME NEW S, NEW Y \in SUBSET (S \X S), Lists(job.list, Pairs(Y))
    PROVE  CoversPairs(Y) /\ ~Shared
<1>0. \A p \in Y : p = <<p[1], p[2]>>
    OBVIOUS
<1>1. ~Shared
    BY PairsApart, ApartIs
<1>2. Covered = {OutagesIn(x) : x \in Pairs(Y)}
    BY CoveredIs
<1>3. ASSUME NEW s \in Covered PROVE \E a, b : <<a, b>> \in Y /\ s = {a, b}
    <2>1. PICK p \in Y : s = OutagesIn(Pair(p[1], p[2]))
        BY <1>2 DEF Pairs
    <2>2. s = {p[1], p[2]} /\ <<p[1], p[2]>> \in Y
        BY <1>0, <2>1, PairEvents
    <2> QED BY <2>2
<1>4. ASSUME NEW a, NEW b, <<a, b>> \in Y PROVE {a, b} \in Covered
    <2> DEFINE p == <<a, b>>
    <2>1. p \in Y /\ p[1] = a /\ p[2] = b
        BY <1>4
    <2> HIDE DEF p
    <2>2. Pair(a, b) \in Pairs(Y)
        BY <2>1 DEF Pairs
    <2>3. OutagesIn(Pair(a, b)) = {a, b}
        BY PairEvents
    <2> QED BY <1>2, <2>2, <2>3
<1>5. ASSUME NEW s, \E a, b : <<a, b>> \in Y /\ s = {a, b} PROVE s \in Covered
    <2>1. PICK a, b : <<a, b>> \in Y /\ s = {a, b}
        BY <1>5
    <2>2. {a, b} \in Covered
        BY <1>4, <2>1
    <2> QED BY <2>1, <2>2
<1>6. CoversPairs(Y)
    BY <1>3, <1>5, Zenon DEF CoversPairs
<1> QED BY <1>1, <1>6

\* two lines,
LEMMA N2LineCovers ==
    ASSUME job.grid \in Grids, job.list = buildN2Line(job.grid)
    PROVE  Covered = kSubset(2, 1..job.grid.lines) /\ ~Shared
<1> DEFINE g == job.grid
           Y == LinePairs(g)
           S == 1..g.lines
<1>1. Lists(job.list, Pairs(Y))
    BY N2LineMade
<1>2. Y \in SUBSET (S \X S)
    BY DEF LinePairs
<1>3. CoversPairs(Y) /\ ~Shared
    <2> HIDE DEF Y, S
    <2> QED BY <1>1, <1>2, PairsCover
<1>4. \A a, b : <<a, b>> \in Y <=> a \in 1..g.lines /\ b \in 1..g.lines /\ a < b
    BY DEF LinePairs
<1>5. g.lines \in Nat
    BY DEF Grids
<1>6. \A s : s \in Covered <=> s \in kSubset(2, 1..g.lines)
    <2> HIDE DEF Y
    <2>1. ASSUME NEW s \in Covered PROVE s \in kSubset(2, 1..g.lines)
        <3>1. PICK a, b : <<a, b>> \in Y /\ s = {a, b}
            BY <1>3 DEF CoversPairs
        <3>2. a \in 1..g.lines /\ b \in 1..g.lines /\ a < b
            BY <1>4, <3>1
        <3> QED BY <1>5, <3>1, <3>2, TwoOf
    <2>2. ASSUME NEW s \in kSubset(2, 1..g.lines) PROVE s \in Covered
        <3>1. PICK a \in 1..g.lines, b \in 1..g.lines : a < b /\ s = {a, b}
            BY <1>5, TwoOf
        <3>2. <<a, b>> \in Y
            BY <1>4, <3>1
        <3> QED BY <1>3, <3>1, <3>2 DEF CoversPairs
    <2> QED BY <2>1, <2>2
<1> QED BY <1>3, <1>6

\* two elements, where only the pairs of lines are sure to be listed,
LEMMA N2Covers ==
    ASSUME job.grid \in Grids, job.list = buildN2(job.grid)
    PROVE  /\ Covered \subseteq kSubset(2, Elements(job.grid))
           /\ kSubset(2, 1..job.grid.lines) \subseteq Covered
           /\ ~Shared
<1> DEFINE g == job.grid
           n == g.lines + g.gens + g.loads
<1>1. PICK Y \in SUBSET (Elements(g) \X Elements(g)) :
            /\ Lists(job.list, Pairs(Y))
            /\ \A p \in Y : p[1] < p[2]
            /\ LinePairs(g) \subseteq Y
    BY N2Made
<1>3. CoversPairs(Y) /\ ~Shared
    BY <1>1, PairsCover
<1>4. n \in Nat /\ Elements(g) = 1..n /\ g.lines \in Nat
    BY DEF Grids, Elements
<1> HIDE DEF n
<1>5. ASSUME NEW a, NEW b, <<a, b>> \in Y PROVE a \in 1..n /\ b \in 1..n /\ a < b
    <2>1. <<a, b>>[1] < <<a, b>>[2]
        BY <1>1, <1>5
    <2> QED BY <1>4, <1>5, <2>1
<1>6. ASSUME NEW s \in Covered PROVE s \in kSubset(2, 1..n)
    <2>1. PICK a, b : <<a, b>> \in Y /\ s = {a, b}
        BY <1>3 DEF CoversPairs
    <2>2. a \in 1..n /\ b \in 1..n /\ a < b
        BY <1>5, <2>1
    <2> QED BY <1>4, <2>1, <2>2, TwoOf
<1>7. \A s \in kSubset(2, 1..g.lines) : s \in Covered
    <2> SUFFICES ASSUME NEW s \in kSubset(2, 1..g.lines) PROVE s \in Covered
        OBVIOUS
    <2>1. PICK a \in 1..g.lines, b \in 1..g.lines : a < b /\ s = {a, b}
        BY <1>4, TwoOf
    <2>2. <<a, b>> \in LinePairs(g)
        BY <2>1 DEF LinePairs
    <2> QED BY <1>1, <1>3, <2>1, <2>2 DEF CoversPairs
<1> QED BY <1>3, <1>4, <1>6, <1>7

\* and three lines, which share their events.
LEMMA N3LineCovers ==
    ASSUME job.grid \in Grids, job.list = buildN3Line(job.grid)
    PROVE  Covered = kSubset(3, 1..job.grid.lines)
<1> DEFINE g == job.grid
           n == g.lines
           C == Triples(LineTriples(g))
<1>1. Lists(job.list, C)
    BY N3LineMade
<1>2. Covered = {OutagesIn(x) : x \in C}
    <2> HIDE DEF C
    <2> QED BY <1>1, CoveredIs
<1>3. n \in Nat
    BY DEF Grids
<1>4. ASSUME NEW s \in Covered PROVE s \in kSubset(3, 1..n)
    <2>1. PICK t \in LineTriples(g) : s = OutagesIn(Triple(t[1], t[2], t[3]))
        BY <1>2 DEF Triples
    <2>2. s = {t[1], t[2], t[3]}
        BY <2>1, TripleEvents
    <2>3. t[1] \in 1..n /\ t[2] \in 1..n /\ t[3] \in 1..n /\ t[1] < t[2]
            /\ t[3] # t[1] /\ t[3] # t[2]
        BY DEF LineTriples
    <2> QED BY <1>3, <2>2, <2>3, ThreeOf
<1>5. ASSUME NEW s \in kSubset(3, 1..n) PROVE s \in Covered
    <2>1. PICK a \in 1..n, b \in 1..n, c \in 1..n :
                a < b /\ c # a /\ c # b /\ s = {a, b, c}
        BY <1>3, ThreeOf
    <2> DEFINE t == <<a, b, c>>
    <2>2. t \in LineTriples(g) /\ t[1] = a /\ t[2] = b /\ t[3] = c
        BY <2>1 DEF LineTriples
    <2> HIDE DEF t
    <2>3. Triple(a, b, c) \in C
        BY <2>2 DEF Triples
    <2>4. OutagesIn(Triple(a, b, c)) = s
        BY <2>1, TripleEvents
    <2> QED BY <1>2, <2>3, <2>4
<1> QED BY <1>4, <1>5

\* A list of an analysis, in any mode
LEMMA AnalysisCovers ==
    ASSUME job \in Jobs
    PROVE  ListCovers
<1>1. job.grid \in Grids /\ job.mode \in Modes
        /\ job.list = buildContingencyList(job.grid, job.mode)
    BY ListAssumption
<1>2. CASE job.mode = "N-1"
    <2>1. job.list = buildN1(job.grid, Empty, 0, 0)
        BY <1>1, <1>2 DEF buildContingencyList
    <2>2. Promised(job.grid, job.mode) = kSubset(1, Elements(job.grid))
        BY <1>2 DEF Promised
    <2>3. Covered = kSubset(1, Elements(job.grid)) /\ ~Shared
        BY <1>1, <2>1, N1Covers
    <2> QED BY <1>2, <2>2, <2>3 DEF ListCovers
<1>3. CASE job.mode = "N-1-1"
    <2>1. job.list = buildN11(job.grid)
        BY <1>1, <1>3 DEF buildContingencyList
    <2>2. Promised(job.grid, job.mode)
            = kSubset(1, Elements(job.grid)) \cup kSubset(2, Elements(job.grid))
        BY <1>3 DEF Promised
    <2>3. /\ Covered = kSubset(1, Elements(job.grid)) \cup kSubset(2, Elements(job.grid))
          /\ ~Shared
        BY <1>1, <2>1, N11Covers
    <2> QED BY <1>3, <2>2, <2>3 DEF ListCovers
<1>4. CASE job.mode = "N-2"
    <2>1. job.list = buildN2(job.grid)
        BY <1>1, <1>4 DEF buildContingencyList
    <2>2. /\ Promised(job.grid, job.mode) = kSubset(2, Elements(job.grid))
          /\ Promised(job.grid, "N-2-LINE") = kSubset(2, 1..job.grid.lines)
        BY <1>4 DEF Promised
    <2>3. /\ Covered \subseteq kSubset(2, Elements(job.grid))
          /\ kSubset(2, 1..job.grid.lines) \subseteq Covered
          /\ ~Shared
        BY <1>1, <2>1, N2Covers
    <2> QED BY <1>4, <2>2, <2>3 DEF ListCovers
<1>5. CASE job.mode = "N-2-LINE"
    <2>1. job.list = buildN2Line(job.grid)
        BY <1>1, <1>5 DEF buildContingencyList
    <2>2. Promised(job.grid, job.mode) = kSubset(2, 1..job.grid.lines)
        BY <1>5 DEF Promised
    <2>3. Covered = kSubset(2, 1..job.grid.lines) /\ ~Shared
        BY <1>1, <2>1, N2LineCovers
    <2> QED BY <1>5, <2>2, <2>3 DEF ListCovers
<1>6. CASE job.mode = "N-3-LINE"
    <2>1. job.list = buildN3Line(job.grid)
        BY <1>1, <1>6 DEF buildContingencyList
    <2>2. Promised(job.grid, job.mode) = kSubset(3, 1..job.grid.lines)
        BY <1>6 DEF Promised
    <2>3. Covered = kSubset(3, 1..job.grid.lines)
        BY <1>1, <2>1, N3LineCovers
    <2> QED BY <1>6, <2>2, <2>3 DEF ListCovers
<1> QED BY <1>1, <1>2, <1>3, <1>4, <1>5, <1>6 DEF Modes

\* The analysis stays the same.
LEMMA JobKept == Spec => [](job \in Jobs)
<1>1. Init => job \in Jobs
    BY DEF Init
<1>2. job \in Jobs /\ [Next]_vars => (job \in Jobs)'
    <2> SUFFICES ASSUME job \in Jobs, [Next]_vars PROVE job' = job
        OBVIOUS
    <2>1. CASE UNCHANGED vars
        BY <2>1 DEF vars
    <2>2. CASE Analysis
        BY <2>2 DEF Analysis, addWorkBlock, startReport, writeHeader, writeLine, timeout,
            afterTimeout, endLoop, retry, writeLate, endWaiting, execution
    <2>3. ASSUME NEW w \in job.pool, Execute(w) PROVE job' = job
        BY <2>3 DEF Execute, cloneSim, updateObject, trigger, mapBack, powerflow, finish, leave
    <2> QED BY <2>1, <2>2, <2>3 DEF Next
<1> QED BY <1>1, <1>2, PTL DEF Spec

\* For every grid and every mode, the list that buildContingencyList makes has
\* the outages that the mode promises and no others (in mode N-2, pairs and
\* at least all pairs of lines), and only in mode N-3-LINE do threads share an
\* Event.
THEOREM CompleteLists == Spec => []ListCovers
<1>1. job \in Jobs => ListCovers
    BY AnalysisCovers
<1> QED BY <1>1, JobKept, PTL

\* From the list to the report: if all contingencies are run and no wait times
\* out, saveContingencyOutput has written the outages that the mode promises,
\* all of them and no others, for every grid and any number of threads that
\* share no Event.
THEOREM PromisedReport == Spec => []ReportComplete
<1>1. OwnOutages /\ LinesFinal /\ NoneMissed /\ ListCovers /\ TypeOK /\ job \in Jobs
        => ReportComplete
    <2> SUFFICES ASSUME OwnOutages, LinesFinal, NoneMissed, ListCovers, TypeOK, job \in Jobs,
                        main = "done", job.output = "file", timedOut = <<>>, start = 0, numContingencies = 0,
                        job.mode # "N-2", ~Shared
                 PROVE  {lines[k].outages : k \in DOMAIN lines}
                            = Promised(job.grid, job.mode)
        BY DEF ReportComplete
    <2>1. Covered = Promised(job.grid, job.mode)
        BY DEF ListCovers
    <2>3. \A c \in completed : result[c] = Outages(c) /\ c \in Conts
        BY DEF OwnOutages, TypeOK
    <2>4. ASSUME NEW k \in DOMAIN lines
          PROVE  lines[k].cont \in Conts /\ lines[k].outages = Outages(lines[k].cont)
        BY <2>3 DEF LinesFinal
    <2>5. ASSUME NEW c \in Conts PROVE \E k \in DOMAIN lines : lines[k].cont = c
        <3>1. c \in (start + 1)..Len(job.list)
            BY DEF Conts
        <3>2. DOMAIN timedOut = {}
            OBVIOUS
        <3>3. c \in Asked /\ ~Late(c)
            BY <3>1, <3>2 DEF Asked, Late
        <3> QED BY <3>3 DEF NoneMissed, Seen
    <2>6. {lines[k].outages : k \in DOMAIN lines} \subseteq Covered
        BY <2>4 DEF Covered
    <2>7. ASSUME NEW c \in Conts PROVE \E k \in DOMAIN lines : lines[k].outages = Outages(c)
        BY <2>4, <2>5
    <2>8. Covered \subseteq {lines[k].outages : k \in DOMAIN lines}
        BY <2>7 DEF Covered
    <2> QED BY <2>1, <2>6, <2>8
<1> QED BY <1>1, Isolation, FinalReport, CompleteReport, CompleteLists, TypeCorrect,
        JobKept, PTL
=============================================================================
