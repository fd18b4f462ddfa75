---------------------------- MODULE RelayProofs ----------------------------
(***************************************************************************)
(* Proofs about Relay.                                                     *)
(*                                                                         *)
(* The handlers are folds over conditions and checks.  The first part      *)
(* proves, once, that a fold is well defined and runs through a sequence   *)
(* of states: with the step of the fold as a function, so that the lemma   *)
(* is first-order and every fold of Relay is an instance of it.            *)
(*                                                                         *)
(* The parts that follow take one notion each through the handlers, from   *)
(* the innermost operator to Next; a lemma is named for the operator and   *)
(* ends in the notion:                                                     *)
(*   Handled     the types, and nothing of a DISABLED condition waits;     *)
(*   Timely, OnTime   the event queue has the relay for its first check;   *)
(*   Acted       which checks and actions a condition adds;                *)
(*   Exact, Turned    withRoots are the conditions that have roots, and    *)
(*               the loop of rootTrigger turns those at the roots found;   *)
(*   Consistent, Calm, Held   every check was added when its condition     *)
(*               became true, which has been true since.                   *)
(* The invariants are IInv, TimelyInv, ExactInv, HeldInv and FreeInv.      *)
(***************************************************************************)
EXTENDS Relay, NaturalsInduction, WellFoundedInduction, TLAPS

-----------------------------------------------------------------------------
(* Folds                                                                   *)

\* A set of numbers that is not empty has a smallest one.
LEMMA LeastElement ==
    ASSUME NEW T \in SUBSET Nat, T # {}
    PROVE  \E x \in T : \A y \in T : x <= y
<1>1. PICK x \in T : \A y \in T : ~(<<y, x>> \in OpToRel(<, Nat))
    BY NatLessThanWellFounded, WFMin
<1>2. ASSUME NEW y \in T PROVE x <= y
    <2>1. x \in Nat /\ y \in Nat
        OBVIOUS
    <2>2. ~(y < x)
        BY <1>1, <2>1 DEF OpToRel
    <2> QED BY <2>1, <2>2
<1> QED BY <1>2

\* Induction over 0..n with the predicate as a set
LEMMA SetInduction ==
    ASSUME NEW n \in Nat, NEW Z,
           0 \in Z, \A i \in 1..n : i - 1 \in Z => i \in Z
    PROVE  \A i \in 0..n : i \in Z
<1> DEFINE Bad == {i \in 0..n : i \notin Z}
<1>1. SUFFICES ASSUME Bad # {} PROVE FALSE
    OBVIOUS
<1>2. PICK m \in Bad : \A i \in Bad : m <= i
    <2>1. Bad \in SUBSET Nat
        OBVIOUS
    <2> HIDE DEF Bad
    <2> QED BY <1>1, <2>1, LeastElement
<1>3. m \in 1..n
    OBVIOUS
<1>4. m - 1 \in 0..n /\ m - 1 \notin Bad
    BY <1>2, <1>3
<1>5. m - 1 \in Z
    BY <1>4
<1> QED BY <1>3, <1>5

\* The largest element of a set of numbers up to m that contains m
LEMMA MaxTop ==
    ASSUME NEW m \in Nat \ {0}, NEW z \in SUBSET (1..m), m \in z
    PROVE  Max(z) = m
<1>1. \A y \in z : m >= y
    OBVIOUS
<1>2. \A x \in z : (\A y \in z : x >= y) => x = m
    OBVIOUS
<1> QED BY <1>1, <1>2 DEF Max

\* g is the recursive function that a fold of F over 1..n evaluates.
IsFold(g, n, b, F) ==
    \A z \in SUBSET (1..n) :
        g[z] = IF z = {} THEN b ELSE F[<<g[z \ {Max(z)}], Max(z)>>]

\* The same, as long as it stays in the states S
IsFoldIn(g, S, n, b, F) ==
    /\ g[{}] = b
    /\ \A z \in SUBSET (1..n) : z # {} /\ g[z \ {Max(z)}] \in S
            => g[z] = F[<<g[z \ {Max(z)}], Max(z)>>]

\* p is the sequence of the states that the fold runs through.
IsRun(p, n, b, F) ==
    p[0] = b /\ \A i \in 1..n : p[i] = F[<<p[i - 1], i>>]

\* The recursive function that a fold evaluates exists.
LEMMA FoldExists ==
    ASSUME NEW S, NEW n \in Nat, NEW b \in S, NEW F \in [S \X (1..n) -> S]
    PROVE  \E g \in [SUBSET (1..n) -> S] : IsFold(g, n, b, F)
<1> USE DEF IsFold
<1> DEFINE Def(g, m) == IsFold(g, m, b, F)
           Defined(m) == \E g \in [SUBSET (1..m) -> S] : Def(g, m)
           Z == {m \in 0..n : Defined(m)}
<1>1. 0 \in Z
    <2> DEFINE g == [z \in SUBSET (1..0) |-> b]
    <2>1. g \in [SUBSET (1..0) -> S] /\ \A z \in SUBSET (1..0) : z = {}
        OBVIOUS
    <2>2. Def(g, 0)
        BY <2>1
    <2>3. Defined(0)
        <3> HIDE DEF g, Def
        <3> QED BY <2>1, <2>2
    <2> HIDE DEF Defined
    <2> QED BY <2>3
<1>2. ASSUME NEW m \in 1..n, m - 1 \in Z PROVE m \in Z
    <2>1. PICK h \in [SUBSET (1..(m - 1)) -> S] : Def(h, m - 1)
        BY <1>2
    <2> DEFINE g == [z \in SUBSET (1..m) |->
                        IF m \in z THEN F[<<h[z \ {m}], m>>] ELSE h[z]]
    <2>2. \A z \in SUBSET (1..m) : m \notin z => z \in SUBSET (1..(m - 1))
        BY <1>2
    <2>3. \A z \in SUBSET (1..m) : z \ {m} \in SUBSET (1..(m - 1)) /\ m \notin z \ {m}
        BY <1>2
    <2>4. g \in [SUBSET (1..m) -> S]
        <3>1. ASSUME NEW z \in SUBSET (1..m), m \in z
              PROVE  F[<<h[z \ {m}], m>>] \in S
            BY <2>1, <2>3, <1>2
        <3> QED BY <3>1, <2>1, <2>2
    <2>5. ASSUME NEW z \in SUBSET (1..m), z # {}
          PROVE  g[z] = F[<<g[z \ {Max(z)}], Max(z)>>]
        <3>1. CASE m \in z
            <4>1. Max(z) = m
                BY <3>1, MaxTop, <1>2
            <4>2. z \ {m} \in SUBSET (1..m) /\ m \notin z \ {m}
                OBVIOUS
            <4>3. g[z \ {m}] = h[z \ {m}]
                BY <4>2
            <4> QED BY <3>1, <4>1, <4>3
        <3>2. CASE m \notin z
            <4>1. z \in SUBSET (1..(m - 1))
                BY <3>2, <2>2
            <4>2. h[z] = F[<<h[z \ {Max(z)}], Max(z)>>]
                BY <2>1, <4>1, <2>5
            <4>3. g[z] = h[z] /\ g[z \ {Max(z)}] = h[z \ {Max(z)}]
                BY <3>2
            <4> QED BY <4>2, <4>3
        <3> QED BY <3>1, <3>2
    <2>6. g[{}] = b
        BY <2>1
    <2>7. Def(g, m)
        <3> HIDE DEF g
        <3> QED BY <2>5, <2>6
    <2>8. Defined(m)
        <3> HIDE DEF g, Def
        <3> QED BY <2>4, <2>7
    <2> HIDE DEF Defined
    <2> QED BY <2>8
<1>3. n \in Z
    <2> HIDE DEF Z
    <2> QED BY <1>1, <1>2, SetInduction
<1> QED BY <1>3

\* Every such function runs through states of S, one for each
\* element of the sequence.
LEMMA FoldSteps ==
    ASSUME NEW S, NEW n \in Nat, NEW b \in S, NEW F \in [S \X (1..n) -> S],
           NEW g, IsFoldIn(g, S, n, b, F)
    PROVE  \E p \in [0..n -> S] : p[n] = g[1..n] /\ IsRun(p, n, b, F)
<1> DEFINE p == [i \in 0..n |-> g[1..i]]
           Z == {i \in 0..n : g[1..i] \in S}
<1>1. ASSUME NEW i \in 1..n
      PROVE  /\ 1..i \in SUBSET (1..n) /\ 1..i # {}
             /\ Max(1..i) = i /\ (1..i) \ {i} = 1..(i - 1)
    <2>1. Max(1..i) = i
        BY MaxTop
    <2>2. 1..i \in SUBSET (1..n) /\ i \in 1..i
        OBVIOUS
    <2>3. (1..i) \ {i} = 1..(i - 1)
        OBVIOUS
    <2> QED BY <2>1, <2>2, <2>3
<1>2. 1..0 = {}
    OBVIOUS
<1>3. ASSUME NEW i \in 1..n, g[1..(i - 1)] \in S
      PROVE  g[1..i] = F[<<g[1..(i - 1)], i>>]
    BY <1>1, <1>3 DEF IsFoldIn
<1>4. 0 \in Z
    BY <1>2 DEF IsFoldIn
<1>5. ASSUME NEW i \in 1..n, i - 1 \in Z PROVE i \in Z
    <2>1. g[1..(i - 1)] \in S
        BY <1>5
    <2>2. g[1..i] = F[<<g[1..(i - 1)], i>>]
        BY <1>3, <2>1
    <2> QED BY <2>1, <2>2
<1>6. \A i \in 0..n : i \in Z
    <2> HIDE DEF Z
    <2> QED BY <1>4, <1>5, SetInduction
<1>7. p \in [0..n -> S]
    BY <1>6
<1>8. \A i \in 1..n : p[i] = F[<<p[i - 1], i>>]
    BY <1>3, <1>6
<1>9. p[0] = b /\ p[n] = g[1..n]
    BY <1>2 DEF IsFoldIn
<1> HIDE DEF p
<1> QED BY <1>7, <1>8, <1>9 DEF IsRun

\* The largest element of a finite set of numbers is one of its elements.
LEMMA MaxIn ==
    ASSUME NEW n \in Nat, NEW z \in SUBSET (1..n), z # {}
    PROVE  Max(z) \in 1..n
<1> DEFINE T == {u \in Nat : \A x \in z : u >= x}
<1>1. T \in SUBSET Nat /\ n \in T
    OBVIOUS
<1>2. PICK u \in T : \A v \in T : u <= v
    <2> HIDE DEF T
    <2> QED BY <1>1, LeastElement
<1>3. u \in z
    <2>1. SUFFICES ASSUME u \notin z PROVE FALSE
        OBVIOUS
    <2>2. PICK x \in z : x \in 1..n
        OBVIOUS
    <2>3. u >= 1 /\ u - 1 \in Nat
        BY <2>2, <1>2
    <2>4. \A y \in z : u - 1 >= y
        BY <2>1, <1>2
    <2>5. u - 1 \in T
        BY <2>3, <2>4
    <2> QED BY <1>2, <2>5
<1> QED BY <1>3 DEF Max

\* triggerActions takes the triggers of a condition one by one.
TriggerActionsClosed(S, n, c, t, d) ==
    \A s \in S : \A i \in 1..n : triggerAction(s, c, i, t, d) \in S

TriggerActionsRun(p, S, n, r, c, t, d) ==
    /\ p \in [0..n -> S] /\ p[0] = r /\ p[n] = triggerActions(r, c, t, d)
    /\ \A i \in 1..n : p[i] = triggerAction(p[i - 1], c, i, t, d)

LEMMA TriggerActionsFold ==
    ASSUME NEW S, NEW n \in Nat, NEW r, NEW c, NEW t, NEW d,
           r \in S, DOMAIN Triggers[c] = 1..n,
           TriggerActionsClosed(S, n, c, t, d)
    PROVE  \E p : TriggerActionsRun(p, S, n, r, c, t, d)
<1> USE DEF TriggerActionsClosed
<1> DEFINE b == r
           F == [x \in S \X (1..n) |-> triggerAction(x[1], c, x[2], t, d)]
           Solves(g) == g = [z \in SUBSET (1..n) |-> IF z = {} THEN r
                                ELSE triggerAction(g[z \ {Max(z)}], c, Max(z), t, d)]
<1>1. F \in [S \X (1..n) -> S]
    OBVIOUS
<1>2. \A s \in S : \A i \in 1..n : F[<<s, i>>] = triggerAction(s, c, i, t, d)
    OBVIOUS
<1>3. \A z \in SUBSET (1..n) : z # {} => Max(z) \in 1..n
    BY MaxIn
<1>4. PICK g \in [SUBSET (1..n) -> S] : IsFold(g, n, b, F)
    <2>1. b \in S
        OBVIOUS
    <2> HIDE DEF F, b
    <2> QED BY <1>1, <2>1, FoldExists
<1>5. Solves(g)
    <2>1. \A z \in SUBSET (1..n) : z \ {Max(z)} \in SUBSET (1..n)
        OBVIOUS
    <2>2. \A z \in SUBSET (1..n) : z # {} =>
                F[<<g[z \ {Max(z)}], Max(z)>>] = triggerAction(g[z \ {Max(z)}], c, Max(z), t, d)
        <3> HIDE DEF F
        <3> QED BY <1>2, <1>3, <1>4, <2>1
    <2> HIDE DEF F
    <2> QED BY <1>4, <2>2 DEF IsFold
<1> DEFINE Index == [i \in DOMAIN Triggers[c] |-> i]
           Raw(fn) == fn = [z \in SUBSET DOMAIN Index |-> IF z = {} THEN r
                                ELSE triggerAction(fn[z \ {Max(z)}], c, Index[Max(z)], t, d)]
<1>6. Raw(g)
    BY <1>3, <1>5
<1>7. \E h : Raw(h) /\ triggerActions(r, c, t, d) = h[DOMAIN Index]
    BY <1>6 DEF triggerActions, FoldLeftDomain, FoldLeft, MapThenFoldSet
<1>8. PICK h : Raw(h) /\ triggerActions(r, c, t, d) = h[DOMAIN Index]
    <2> HIDE DEF Raw
    <2> QED BY <1>7
<1>9. Solves(h) /\ triggerActions(r, c, t, d) = h[1..n]
    BY <1>3, <1>8
<1>10. IsFoldIn(h, S, n, b, F)
    <2>1. \A z \in SUBSET (1..n) : z # {} =>
                h[z] = triggerAction(h[z \ {Max(z)}], c, Max(z), t, d)
        BY <1>9
    <2>2. h[{}] = b
        BY <1>9
    <2> HIDE DEF F, Solves, b
    <2> QED BY <1>2, <1>3, <2>1, <2>2 DEF IsFoldIn
<1>11. PICK p \in [0..n -> S] : p[n] = h[1..n] /\ IsRun(p, n, b, F)
    <2>1. b \in S
        OBVIOUS
    <2> HIDE DEF F, Solves, b
    <2> QED BY <1>1, <1>10, <2>1, FoldSteps
<1>12. \A i \in 1..n : p[i] = triggerAction(p[i - 1], c, i, t, d)
    <2> HIDE DEF F
    <2>1. \A i \in 1..n : i - 1 \in 0..n
        OBVIOUS
    <2> QED BY <1>2, <1>11, <2>1 DEF IsRun
<1> HIDE DEF F, Solves
<1> QED BY <1>9, <1>11, <1>12 DEF IsRun, TriggerActionsRun

\* multiConditionCheckExecute takes the triggers of several conditions one
\* by one.
MultiConditionClosed(S, n, c, t, d) ==
    \A s \in S : \A i \in 1..n : multiConditionCheck(s, c, i, t, d) \in S

MultiConditionRun(p, S, n, r, c, t, d) ==
    /\ p \in [0..n -> S] /\ p[0] = r /\ p[n] = multiConditionCheckExecute(r, c, t, d)
    /\ \A i \in 1..n : p[i] = multiConditionCheck(p[i - 1], c, i, t, d)

LEMMA MultiConditionFold ==
    ASSUME NEW S, NEW n \in Nat, NEW r, NEW c, NEW t, NEW d,
           r \in S, DOMAIN Multi[c] = 1..n,
           MultiConditionClosed(S, n, c, t, d)
    PROVE  \E p : MultiConditionRun(p, S, n, r, c, t, d)
<1> USE DEF MultiConditionClosed
<1> DEFINE b == r
           F == [x \in S \X (1..n) |-> multiConditionCheck(x[1], c, x[2], t, d)]
           Solves(g) == g = [z \in SUBSET (1..n) |-> IF z = {} THEN r
                                ELSE multiConditionCheck(g[z \ {Max(z)}], c, Max(z), t, d)]
<1>1. F \in [S \X (1..n) -> S]
    OBVIOUS
<1>2. \A s \in S : \A i \in 1..n : F[<<s, i>>] = multiConditionCheck(s, c, i, t, d)
    OBVIOUS
<1>3. \A z \in SUBSET (1..n) : z # {} => Max(z) \in 1..n
    BY MaxIn
<1>4. PICK g \in [SUBSET (1..n) -> S] : IsFold(g, n, b, F)
    <2>1. b \in S
        OBVIOUS
    <2> HIDE DEF F, b
    <2> QED BY <1>1, <2>1, FoldExists
<1>5. Solves(g)
    <2>1. \A z \in SUBSET (1..n) : z \ {Max(z)} \in SUBSET (1..n)
        OBVIOUS
    <2>2. \A z \in SUBSET (1..n) : z # {} =>
                F[<<g[z \ {Max(z)}], Max(z)>>] = multiConditionCheck(g[z \ {Max(z)}], c, Max(z), t, d)
        <3> HIDE DEF F
        <3> QED BY <1>2, <1>3, <1>4, <2>1
    <2> HIDE DEF F
    <2> QED BY <1>4, <2>2 DEF IsFold
<1> DEFINE Index == [i \in DOMAIN Multi[c] |-> i]
           Raw(fn) == fn = [z \in SUBSET DOMAIN Index |-> IF z = {} THEN r
                                ELSE multiConditionCheck(fn[z \ {Max(z)}], c, Index[Max(z)], t, d)]
<1>6. Raw(g)
    BY <1>3, <1>5
<1>7. \E h : Raw(h) /\ multiConditionCheckExecute(r, c, t, d) = h[DOMAIN Index]
    BY <1>6 DEF multiConditionCheckExecute, FoldLeftDomain, FoldLeft, MapThenFoldSet
<1>8. PICK h : Raw(h) /\ multiConditionCheckExecute(r, c, t, d) = h[DOMAIN Index]
    <2> HIDE DEF Raw
    <2> QED BY <1>7
<1>9. Solves(h) /\ multiConditionCheckExecute(r, c, t, d) = h[1..n]
    BY <1>3, <1>8
<1>10. IsFoldIn(h, S, n, b, F)
    <2>1. \A z \in SUBSET (1..n) : z # {} =>
                h[z] = multiConditionCheck(h[z \ {Max(z)}], c, Max(z), t, d)
        BY <1>9
    <2>2. h[{}] = b
        BY <1>9
    <2> HIDE DEF F, Solves, b
    <2> QED BY <1>2, <1>3, <2>1, <2>2 DEF IsFoldIn
<1>11. PICK p \in [0..n -> S] : p[n] = h[1..n] /\ IsRun(p, n, b, F)
    <2>1. b \in S
        OBVIOUS
    <2> HIDE DEF F, Solves, b
    <2> QED BY <1>1, <1>10, <2>1, FoldSteps
<1>12. \A i \in 1..n : p[i] = multiConditionCheck(p[i - 1], c, i, t, d)
    <2> HIDE DEF F
    <2>1. \A i \in 1..n : i - 1 \in 0..n
        OBVIOUS
    <2> QED BY <1>2, <1>11, <2>1 DEF IsRun
<1> HIDE DEF F, Solves
<1> QED BY <1>9, <1>11, <1>12 DEF IsRun, MultiConditionRun

\* sample looks at the conditions one by one.
SampleClosed(S, n, l, t, d) ==
    \A s \in S : \A i \in 1..n : sampleOne(s, i, l, t, d) \in S

SampleRun(p, S, n, r, l, t, d) ==
    /\ p \in [0..n -> S] /\ p[0] = r /\ p[n] = sample(r, l, t, d)
    /\ \A i \in 1..n : p[i] = sampleOne(p[i - 1], i, l, t, d)

LEMMA SampleFold ==
    ASSUME NEW S, NEW n \in Nat, NEW r, NEW l, NEW t, NEW d,
           r \in S, DOMAIN Triggers = 1..n,
           SampleClosed(S, n, l, t, d)
    PROVE  \E p : SampleRun(p, S, n, r, l, t, d)
<1> USE DEF SampleClosed
<1> DEFINE b == r
           F == [x \in S \X (1..n) |-> sampleOne(x[1], x[2], l, t, d)]
           Solves(g) == g = [z \in SUBSET (1..n) |-> IF z = {} THEN r
                                ELSE sampleOne(g[z \ {Max(z)}], Max(z), l, t, d)]
<1>1. F \in [S \X (1..n) -> S]
    OBVIOUS
<1>2. \A s \in S : \A i \in 1..n : F[<<s, i>>] = sampleOne(s, i, l, t, d)
    OBVIOUS
<1>3. \A z \in SUBSET (1..n) : z # {} => Max(z) \in 1..n
    BY MaxIn
<1>4. PICK g \in [SUBSET (1..n) -> S] : IsFold(g, n, b, F)
    <2>1. b \in S
        OBVIOUS
    <2> HIDE DEF F, b
    <2> QED BY <1>1, <2>1, FoldExists
<1>5. Solves(g)
    <2>1. \A z \in SUBSET (1..n) : z \ {Max(z)} \in SUBSET (1..n)
        OBVIOUS
    <2>2. \A z \in SUBSET (1..n) : z # {} =>
                F[<<g[z \ {Max(z)}], Max(z)>>] = sampleOne(g[z \ {Max(z)}], Max(z), l, t, d)
        <3> HIDE DEF F
        <3> QED BY <1>2, <1>3, <1>4, <2>1
    <2> HIDE DEF F
    <2> QED BY <1>4, <2>2 DEF IsFold
<1> DEFINE Index == [i \in DOMAIN Triggers |-> i]
           Raw(fn) == fn = [z \in SUBSET DOMAIN Index |-> IF z = {} THEN r
                                ELSE sampleOne(fn[z \ {Max(z)}], Index[Max(z)], l, t, d)]
<1>6. Raw(g)
    BY <1>3, <1>5
<1>7. \E h : Raw(h) /\ sample(r, l, t, d) = h[DOMAIN Index]
    BY <1>6 DEF sample, FoldLeftDomain, FoldLeft, MapThenFoldSet
<1>8. PICK h : Raw(h) /\ sample(r, l, t, d) = h[DOMAIN Index]
    <2> HIDE DEF Raw
    <2> QED BY <1>7
<1>9. Solves(h) /\ sample(r, l, t, d) = h[1..n]
    BY <1>3, <1>8
<1>10. IsFoldIn(h, S, n, b, F)
    <2>1. \A z \in SUBSET (1..n) : z # {} =>
                h[z] = sampleOne(h[z \ {Max(z)}], Max(z), l, t, d)
        BY <1>9
    <2>2. h[{}] = b
        BY <1>9
    <2> HIDE DEF F, Solves, b
    <2> QED BY <1>2, <1>3, <2>1, <2>2 DEF IsFoldIn
<1>11. PICK p \in [0..n -> S] : p[n] = h[1..n] /\ IsRun(p, n, b, F)
    <2>1. b \in S
        OBVIOUS
    <2> HIDE DEF F, Solves, b
    <2> QED BY <1>1, <1>10, <2>1, FoldSteps
<1>12. \A i \in 1..n : p[i] = sampleOne(p[i - 1], i, l, t, d)
    <2> HIDE DEF F
    <2>1. \A i \in 1..n : i - 1 \in 0..n
        OBVIOUS
    <2> QED BY <1>2, <1>11, <2>1 DEF IsRun
<1> HIDE DEF F, Solves
<1> QED BY <1>9, <1>11, <1>12 DEF IsRun, SampleRun

\* RootsOf takes the conditions one by one.
RootsClosed(S, n, cs) ==
    \A s \in S : \A i \in 1..n : (IF HasRoot(cs[i]) THEN Append(s, i) ELSE s) \in S

RootsRun(p, S, n, cs) ==
    /\ p \in [0..n -> S] /\ p[0] = <<>> /\ p[n] = RootsOf(cs)
    /\ \A i \in 1..n : p[i] = (IF HasRoot(cs[i]) THEN Append(p[i - 1], i) ELSE p[i - 1])

LEMMA RootsFold ==
    ASSUME NEW S, NEW n \in Nat, NEW cs,
           <<>> \in S, DOMAIN Triggers = 1..n,
           RootsClosed(S, n, cs)
    PROVE  \E p : RootsRun(p, S, n, cs)
<1> USE DEF RootsClosed
<1> DEFINE b == <<>>
           F == [x \in S \X (1..n) |-> (IF HasRoot(cs[x[2]]) THEN Append(x[1], x[2]) ELSE x[1])]
           Solves(g) == g = [z \in SUBSET (1..n) |-> IF z = {} THEN <<>>
                                ELSE (IF HasRoot(cs[Max(z)]) THEN Append(g[z \ {Max(z)}], Max(z)) ELSE g[z \ {Max(z)}])]
<1>1. F \in [S \X (1..n) -> S]
    OBVIOUS
<1>2. \A s \in S : \A i \in 1..n : F[<<s, i>>] = (IF HasRoot(cs[i]) THEN Append(s, i) ELSE s)
    OBVIOUS
<1>3. \A z \in SUBSET (1..n) : z # {} => Max(z) \in 1..n
    BY MaxIn
<1>4. PICK g \in [SUBSET (1..n) -> S] : IsFold(g, n, b, F)
    <2>1. b \in S
        OBVIOUS
    <2> HIDE DEF F, b
    <2> QED BY <1>1, <2>1, FoldExists
<1>5. Solves(g)
    <2>1. \A z \in SUBSET (1..n) : z \ {Max(z)} \in SUBSET (1..n)
        OBVIOUS
    <2>2. \A z \in SUBSET (1..n) : z # {} =>
                F[<<g[z \ {Max(z)}], Max(z)>>] = (IF HasRoot(cs[Max(z)]) THEN Append(g[z \ {Max(z)}], Max(z)) ELSE g[z \ {Max(z)}])
        <3> HIDE DEF F
        <3> QED BY <1>2, <1>3, <1>4, <2>1
    <2> HIDE DEF F
    <2> QED BY <1>4, <2>2 DEF IsFold
<1> DEFINE Index == [i \in DOMAIN Triggers |-> i]
           Raw(fn) == fn = [z \in SUBSET DOMAIN Index |-> IF z = {} THEN <<>>
                                ELSE (IF HasRoot(cs[Index[Max(z)]]) THEN Append(fn[z \ {Max(z)}], Index[Max(z)]) ELSE fn[z \ {Max(z)}])]
<1>6. Raw(g)
    BY <1>3, <1>5
<1>7. \E h : Raw(h) /\ RootsOf(cs) = h[DOMAIN Index]
    BY <1>6 DEF RootsOf, FoldLeftDomain, FoldLeft, MapThenFoldSet
<1>8. PICK h : Raw(h) /\ RootsOf(cs) = h[DOMAIN Index]
    <2> HIDE DEF Raw
    <2> QED BY <1>7
<1>9. Solves(h) /\ RootsOf(cs) = h[1..n]
    BY <1>3, <1>8
<1>10. IsFoldIn(h, S, n, b, F)
    <2>1. \A z \in SUBSET (1..n) : z # {} =>
                h[z] = (IF HasRoot(cs[Max(z)]) THEN Append(h[z \ {Max(z)}], Max(z)) ELSE h[z \ {Max(z)}])
        BY <1>9
    <2>2. h[{}] = b
        BY <1>9
    <2> HIDE DEF F, Solves, b
    <2> QED BY <1>2, <1>3, <2>1, <2>2 DEF IsFoldIn
<1>11. PICK p \in [0..n -> S] : p[n] = h[1..n] /\ IsRun(p, n, b, F)
    <2>1. b \in S
        OBVIOUS
    <2> HIDE DEF F, Solves, b
    <2> QED BY <1>1, <1>10, <2>1, FoldSteps
<1>12. \A i \in 1..n : p[i] = (IF HasRoot(cs[i]) THEN Append(p[i - 1], i) ELSE p[i - 1])
    <2> HIDE DEF F
    <2>1. \A i \in 1..n : i - 1 \in 0..n
        OBVIOUS
    <2> QED BY <1>2, <1>11, <2>1 DEF IsRun
<1> HIDE DEF F, Solves
<1> QED BY <1>9, <1>11, <1>12 DEF IsRun, RootsRun

\* evaluateCondChecks takes the checks one by one.
EvaluateClosed(S, n, checks, t, l) ==
    \A s \in S : \A i \in 1..n : evaluateCondCheck(s, checks[i], t, l) \in S

EvaluateRun(p, S, n, r, checks, t, l) ==
    /\ p \in [0..n -> S] /\ p[0] = r /\ p[n] = evaluateCondChecks(r, checks, t, l)
    /\ \A i \in 1..n : p[i] = evaluateCondCheck(p[i - 1], checks[i], t, l)

LEMMA EvaluateFold ==
    ASSUME NEW S, NEW n \in Nat, NEW r, NEW checks, NEW t, NEW l,
           r \in S, DOMAIN checks = 1..n,
           EvaluateClosed(S, n, checks, t, l)
    PROVE  \E p : EvaluateRun(p, S, n, r, checks, t, l)
<1> USE DEF EvaluateClosed
<1> DEFINE b == r
           F == [x \in S \X (1..n) |-> evaluateCondCheck(x[1], checks[x[2]], t, l)]
           Solves(g) == g = [z \in SUBSET (1..n) |-> IF z = {} THEN r
                                ELSE evaluateCondCheck(g[z \ {Max(z)}], checks[Max(z)], t, l)]
<1>1. F \in [S \X (1..n) -> S]
    OBVIOUS
<1>2. \A s \in S : \A i \in 1..n : F[<<s, i>>] = evaluateCondCheck(s, checks[i], t, l)
    OBVIOUS
<1>3. \A z \in SUBSET (1..n) : z # {} => Max(z) \in 1..n
    BY MaxIn
<1>4. PICK g \in [SUBSET (1..n) -> S] : IsFold(g, n, b, F)
    <2>1. b \in S
        OBVIOUS
    <2> HIDE DEF F, b
    <2> QED BY <1>1, <2>1, FoldExists
<1>5. Solves(g)
    <2>1. \A z \in SUBSET (1..n) : z \ {Max(z)} \in SUBSET (1..n)
        OBVIOUS
    <2>2. \A z \in SUBSET (1..n) : z # {} =>
                F[<<g[z \ {Max(z)}], Max(z)>>] = evaluateCondCheck(g[z \ {Max(z)}], checks[Max(z)], t, l)
        <3> HIDE DEF F
        <3> QED BY <1>2, <1>3, <1>4, <2>1
    <2> HIDE DEF F
    <2> QED BY <1>4, <2>2 DEF IsFold
<1>8. \E h : Solves(h) /\ evaluateCondChecks(r, checks, t, l) = h[1..n]
    BY <1>3, <1>5 DEF evaluateCondChecks, FoldLeft, MapThenFoldSet
<1>9. PICK h : Solves(h) /\ evaluateCondChecks(r, checks, t, l) = h[1..n]
    <2> HIDE DEF Solves
    <2> QED BY <1>8
<1>10. IsFoldIn(h, S, n, b, F)
    <2>1. \A z \in SUBSET (1..n) : z # {} =>
                h[z] = evaluateCondCheck(h[z \ {Max(z)}], checks[Max(z)], t, l)
        BY <1>9
    <2>2. h[{}] = b
        BY <1>9
    <2> HIDE DEF F, Solves, b
    <2> QED BY <1>2, <1>3, <2>1, <2>2 DEF IsFoldIn
<1>11. PICK p \in [0..n -> S] : p[n] = h[1..n] /\ IsRun(p, n, b, F)
    <2>1. b \in S
        OBVIOUS
    <2> HIDE DEF F, Solves, b
    <2> QED BY <1>1, <1>10, <2>1, FoldSteps
<1>12. \A i \in 1..n : p[i] = evaluateCondCheck(p[i - 1], checks[i], t, l)
    <2> HIDE DEF F
    <2>1. \A i \in 1..n : i - 1 \in 0..n
        OBVIOUS
    <2> QED BY <1>2, <1>11, <2>1 DEF IsRun
<1> HIDE DEF F, Solves
<1> QED BY <1>9, <1>11, <1>12 DEF IsRun, EvaluateRun

\* earliestCheck takes the checks one by one.
EarliestClosed(S, n, r) ==
    \A s \in S : \A i \in 1..n : Lesser(s, r.condChecks[i].testTime) \in S

EarliestRun(p, S, n, r) ==
    /\ p \in [0..n -> S] /\ p[0] = r.nextUpdateTime /\ p[n] = earliestCheck(r)
    /\ \A i \in 1..n : p[i] = Lesser(p[i - 1], r.condChecks[i].testTime)

LEMMA EarliestFold ==
    ASSUME NEW S, NEW n \in Nat, NEW r,
           r.nextUpdateTime \in S, DOMAIN r.condChecks = 1..n,
           EarliestClosed(S, n, r)
    PROVE  \E p : EarliestRun(p, S, n, r)
<1> USE DEF EarliestClosed
<1> DEFINE b == r.nextUpdateTime
           F == [x \in S \X (1..n) |-> Lesser(x[1], r.condChecks[x[2]].testTime)]
           Solves(g) == g = [z \in SUBSET (1..n) |-> IF z = {} THEN r.nextUpdateTime
                                ELSE Lesser(g[z \ {Max(z)}], r.condChecks[Max(z)].testTime)]
<1>1. F \in [S \X (1..n) -> S]
    OBVIOUS
<1>2. \A s \in S : \A i \in 1..n : F[<<s, i>>] = Lesser(s, r.condChecks[i].testTime)
    OBVIOUS
<1>3. \A z \in SUBSET (1..n) : z # {} => Max(z) \in 1..n
    BY MaxIn
<1>4. PICK g \in [SUBSET (1..n) -> S] : IsFold(g, n, b, F)
    <2>1. b \in S
        OBVIOUS
    <2> HIDE DEF F, b
    <2> QED BY <1>1, <2>1, FoldExists
<1>5. Solves(g)
    <2>1. \A z \in SUBSET (1..n) : z \ {Max(z)} \in SUBSET (1..n)
        OBVIOUS
    <2>2. \A z \in SUBSET (1..n) : z # {} =>
                F[<<g[z \ {Max(z)}], Max(z)>>] = Lesser(g[z \ {Max(z)}], r.condChecks[Max(z)].testTime)
        <3> HIDE DEF F
        <3> QED BY <1>2, <1>3, <1>4, <2>1
    <2> HIDE DEF F
    <2> QED BY <1>4, <2>2 DEF IsFold
<1>8. \E h : Solves(h) /\ earliestCheck(r) = h[1..n]
    BY <1>3, <1>5 DEF earliestCheck, FoldLeft, MapThenFoldSet
<1>9. PICK h : Solves(h) /\ earliestCheck(r) = h[1..n]
    <2> HIDE DEF Solves
    <2> QED BY <1>8
<1>10. IsFoldIn(h, S, n, b, F)
    <2>1. \A z \in SUBSET (1..n) : z # {} =>
                h[z] = Lesser(h[z \ {Max(z)}], r.condChecks[Max(z)].testTime)
        BY <1>9
    <2>2. h[{}] = b
        BY <1>9
    <2> HIDE DEF F, Solves, b
    <2> QED BY <1>2, <1>3, <2>1, <2>2 DEF IsFoldIn
<1>11. PICK p \in [0..n -> S] : p[n] = h[1..n] /\ IsRun(p, n, b, F)
    <2>1. b \in S
        OBVIOUS
    <2> HIDE DEF F, Solves, b
    <2> QED BY <1>1, <1>10, <2>1, FoldSteps
<1>12. \A i \in 1..n : p[i] = Lesser(p[i - 1], r.condChecks[i].testTime)
    <2> HIDE DEF F
    <2>1. \A i \in 1..n : i - 1 \in 0..n
        OBVIOUS
    <2> QED BY <1>2, <1>11, <2>1 DEF IsRun
<1> HIDE DEF F, Solves
<1> QED BY <1>9, <1>11, <1>12 DEF IsRun, EarliestRun

\* checksWithout takes the checks one by one.
WithoutClosed(S, n, checks, c) ==
    \A s \in S : \A i \in 1..n : (IF checks[i].cond # c THEN Append(s, checks[i]) ELSE s) \in S

WithoutRun(p, S, n, checks, c) ==
    /\ p \in [0..n -> S] /\ p[0] = <<>> /\ p[n] = checksWithout(checks, c)
    /\ \A i \in 1..n : p[i] = (IF checks[i].cond # c THEN Append(p[i - 1], checks[i]) ELSE p[i - 1])

LEMMA WithoutFold ==
    ASSUME NEW S, NEW n \in Nat, NEW checks, NEW c,
           <<>> \in S, DOMAIN checks = 1..n,
           WithoutClosed(S, n, checks, c)
    PROVE  \E p : WithoutRun(p, S, n, checks, c)
<1> USE DEF WithoutClosed
<1> DEFINE b == <<>>
           F == [x \in S \X (1..n) |-> (IF checks[x[2]].cond # c THEN Append(x[1], checks[x[2]]) ELSE x[1])]
           Solves(g) == g = [z \in SUBSET (1..n) |-> IF z = {} THEN <<>>
                                ELSE (IF checks[Max(z)].cond # c THEN Append(g[z \ {Max(z)}], checks[Max(z)]) ELSE g[z \ {Max(z)}])]
<1>1. F \in [S \X (1..n) -> S]
    OBVIOUS
<1>2. \A s \in S : \A i \in 1..n : F[<<s, i>>] = (IF checks[i].cond # c THEN Append(s, checks[i]) ELSE s)
    OBVIOUS
<1>3. \A z \in SUBSET (1..n) : z # {} => Max(z) \in 1..n
    BY MaxIn
<1>4. PICK g \in [SUBSET (1..n) -> S] : IsFold(g, n, b, F)
    <2>1. b \in S
        OBVIOUS
    <2> HIDE DEF F, b
    <2> QED BY <1>1, <2>1, FoldExists
<1>5. Solves(g)
    <2>1. \A z \in SUBSET (1..n) : z \ {Max(z)} \in SUBSET (1..n)
        OBVIOUS
    <2>2. \A z \in SUBSET (1..n) : z # {} =>
                F[<<g[z \ {Max(z)}], Max(z)>>] = (IF checks[Max(z)].cond # c THEN Append(g[z \ {Max(z)}], checks[Max(z)]) ELSE g[z \ {Max(z)}])
        <3> HIDE DEF F
        <3> QED BY <1>2, <1>3, <1>4, <2>1
    <2> HIDE DEF F
    <2> QED BY <1>4, <2>2 DEF IsFold
<1>8. \E h : Solves(h) /\ checksWithout(checks, c) = h[1..n]
    BY <1>3, <1>5 DEF checksWithout, FoldLeft, MapThenFoldSet
<1>9. PICK h : Solves(h) /\ checksWithout(checks, c) = h[1..n]
    <2> HIDE DEF Solves
    <2> QED BY <1>8
<1>10. IsFoldIn(h, S, n, b, F)
    <2>1. \A z \in SUBSET (1..n) : z # {} =>
                h[z] = (IF checks[Max(z)].cond # c THEN Append(h[z \ {Max(z)}], checks[Max(z)]) ELSE h[z \ {Max(z)}])
        BY <1>9
    <2>2. h[{}] = b
        BY <1>9
    <2> HIDE DEF F, Solves, b
    <2> QED BY <1>2, <1>3, <2>1, <2>2 DEF IsFoldIn
<1>11. PICK p \in [0..n -> S] : p[n] = h[1..n] /\ IsRun(p, n, b, F)
    <2>1. b \in S
        OBVIOUS
    <2> HIDE DEF F, Solves, b
    <2> QED BY <1>1, <1>10, <2>1, FoldSteps
<1>12. \A i \in 1..n : p[i] = (IF checks[i].cond # c THEN Append(p[i - 1], checks[i]) ELSE p[i - 1])
    <2> HIDE DEF F
    <2>1. \A i \in 1..n : i - 1 \in 0..n
        OBVIOUS
    <2> QED BY <1>2, <1>11, <2>1 DEF IsRun
<1> HIDE DEF F, Solves
<1> QED BY <1>9, <1>11, <1>12 DEF IsRun, WithoutRun

\* rootSteps takes the conditions with roots one by one.
RootStepsClosed(S, n, r, t, mask) ==
    \A s \in S : \A i \in 1..n : rootStep(s, r.withRoots[i], t, mask) \in S

RootStepsRun(p, S, n, r, t, mask) ==
    /\ p \in [0..n -> S] /\ p[0] = [r |-> Begun(r), position |-> 1] /\ p[n].r = rootSteps(r, t, mask)
    /\ \A i \in 1..n : p[i] = rootStep(p[i - 1], r.withRoots[i], t, mask)

LEMMA RootStepsFold ==
    ASSUME NEW S, NEW n \in Nat, NEW r, NEW t, NEW mask,
           [r |-> Begun(r), position |-> 1] \in S, DOMAIN r.withRoots = 1..n,
           RootStepsClosed(S, n, r, t, mask)
    PROVE  \E p : RootStepsRun(p, S, n, r, t, mask)
<1> USE DEF RootStepsClosed
<1> DEFINE b == [r |-> Begun(r), position |-> 1]
           F == [x \in S \X (1..n) |-> rootStep(x[1], r.withRoots[x[2]], t, mask)]
           Solves(g) == g = [z \in SUBSET (1..n) |-> IF z = {} THEN [r |-> Begun(r), position |-> 1]
                                ELSE rootStep(g[z \ {Max(z)}], r.withRoots[Max(z)], t, mask)]
<1>1. F \in [S \X (1..n) -> S]
    OBVIOUS
<1>2. \A s \in S : \A i \in 1..n : F[<<s, i>>] = rootStep(s, r.withRoots[i], t, mask)
    OBVIOUS
<1>3. \A z \in SUBSET (1..n) : z # {} => Max(z) \in 1..n
    BY MaxIn
<1>4. PICK g \in [SUBSET (1..n) -> S] : IsFold(g, n, b, F)
    <2>1. b \in S
        OBVIOUS
    <2> HIDE DEF F, b
    <2> QED BY <1>1, <2>1, FoldExists
<1>5. Solves(g)
    <2>1. \A z \in SUBSET (1..n) : z \ {Max(z)} \in SUBSET (1..n)
        OBVIOUS
    <2>2. \A z \in SUBSET (1..n) : z # {} =>
                F[<<g[z \ {Max(z)}], Max(z)>>] = rootStep(g[z \ {Max(z)}], r.withRoots[Max(z)], t, mask)
        <3> HIDE DEF F
        <3> QED BY <1>2, <1>3, <1>4, <2>1
    <2> HIDE DEF F
    <2> QED BY <1>4, <2>2 DEF IsFold
<1>8. \E h : Solves(h) /\ rootSteps(r, t, mask) = h[1..n].r
    BY <1>3, <1>5 DEF rootSteps, FoldLeft, MapThenFoldSet
<1>9. PICK h : Solves(h) /\ rootSteps(r, t, mask) = h[1..n].r
    <2> HIDE DEF Solves
    <2> QED BY <1>8
<1>10. IsFoldIn(h, S, n, b, F)
    <2>1. \A z \in SUBSET (1..n) : z # {} =>
                h[z] = rootStep(h[z \ {Max(z)}], r.withRoots[Max(z)], t, mask)
        BY <1>9
    <2>2. h[{}] = b
        BY <1>9
    <2> HIDE DEF F, Solves, b
    <2> QED BY <1>2, <1>3, <2>1, <2>2 DEF IsFoldIn
<1>11. PICK p \in [0..n -> S] : p[n] = h[1..n] /\ IsRun(p, n, b, F)
    <2>1. b \in S
        OBVIOUS
    <2> HIDE DEF F, Solves, b
    <2> QED BY <1>1, <1>10, <2>1, FoldSteps
<1>12. \A i \in 1..n : p[i] = rootStep(p[i - 1], r.withRoots[i], t, mask)
    <2> HIDE DEF F
    <2>1. \A i \in 1..n : i - 1 \in 0..n
        OBVIOUS
    <2> QED BY <1>2, <1>11, <2>1 DEF IsRun
<1> HIDE DEF F, Solves
<1> QED BY <1>9, <1>11, <1>12 DEF IsRun, RootStepsRun

-----------------------------------------------------------------------------
(* What every design keeps                                                 *)

\* A check of several conditions holds a position of multiConditionTriggers.
Positions(r) ==
    \A i \in DOMAIN r.condChecks :
        r.condChecks[i].multi => r.condChecks[i].action \in DOMAIN Multi[r.condChecks[i].cond]

\* Nothing of a condition that is DISABLED waits or is taken.
Silent(r) ==
    /\ \A i \in DOMAIN r.condChecks : r.cStates[r.condChecks[i].cond] # "DISABLED"
    /\ \A i \in DOMAIN r.taken : r.cStates[r.taken[i].cond] # "DISABLED"

\* Nothing waits for a time before lo, and the next sample is at ns.
Later(r, lo, ns) ==
    /\ r.nextUpdateTime >= lo /\ r.nextSampleTime = ns
    /\ \A i \in DOMAIN r.condChecks : r.condChecks[i].testTime >= lo

\* The states of the relay while a handler runs
Handled(lo, ns) ==
    {r \in RelayStates : Positions(r) /\ Silent(r) /\ Later(r, lo, ns)}

LEMMA ElementOf ==
    ASSUME NEW T, NEW s \in Seq(T), NEW i \in DOMAIN s
    PROVE  s[i] \in T
OBVIOUS

LEMMA DesignFacts ==
    ASSUME design \in Designs
    PROVE  /\ Triggers \in Seq(Seq([action : Nat, delay : 0..(Inf - Horizon)]))
           /\ Multi \in Seq(Seq([action : Nat, conditions : SUBSET Conditions,
                                 delay : 0..(Inf - Horizon)]))
           /\ DOMAIN Multi = Conditions /\ Conditions = 1..Len(Triggers)
           /\ Len(Triggers) \in Nat
           /\ Period \in 1..(Inf - Horizon)
           /\ Continuous \in BOOLEAN /\ Resettable \in BOOLEAN
           /\ MaxChecks \in Nat
           /\ Horizon \in Nat /\ Inf \in Nat /\ Inf > Horizon
           /\ \A c \in Conditions : \A i \in DOMAIN Multi[c] :
                Multi[c][i].delay > 0 => Multi[c][i].action \in DOMAIN Multi[c]
<1>1. Triggers \in Seq(Seq([action : Nat, delay : 0..(Inf - Horizon)]))
    BY RelayAssumption DEF Triggers
<1>2. Conditions = 1..Len(Triggers) /\ Len(Triggers) \in Nat
    BY <1>1 DEF Conditions
<1>3. Multi \in Seq(Seq([action : Nat, conditions : SUBSET Conditions,
                         delay : 0..(Inf - Horizon)]))
    BY RelayAssumption DEF Multi, Conditions, Triggers
<1>4. DOMAIN Multi = Conditions
    BY RelayAssumption DEF Multi, Conditions, Triggers
<1>5. /\ Period \in 1..(Inf - Horizon) /\ MaxChecks \in Nat
      /\ Continuous \in BOOLEAN /\ Resettable \in BOOLEAN
      /\ Horizon \in Nat /\ Inf \in Nat /\ Inf > Horizon
    <2>1. Horizon \in Nat /\ Inf \in Nat /\ Inf > 2 * Horizon
        BY RelayAssumption
    <2>2. /\ design.period \in 1..(Inf - Horizon) /\ design.maxChecks \in Nat
          /\ design.continuous \in BOOLEAN /\ design.resettable \in BOOLEAN
        BY RelayAssumption
    <2> QED BY <2>1, <2>2 DEF Period, Continuous, Resettable, MaxChecks
<1>6. \A c \in Conditions : \A i \in DOMAIN Multi[c] :
                Multi[c][i].delay > 0 => Multi[c][i].action \in DOMAIN Multi[c]
    <2>1. \A c \in DOMAIN design.multi : \A i \in DOMAIN design.multi[c] :
                design.multi[c][i].delay > 0
                    => design.multi[c][i].action \in DOMAIN design.multi[c]
        BY RelayAssumption
    <2> QED BY <2>1, <1>4 DEF Multi
<1> QED BY <1>1, <1>2, <1>3, <1>4, <1>5, <1>6

LEMMA TriggerFacts ==
    ASSUME design \in Designs, NEW c \in Conditions
    PROVE  /\ Len(Triggers[c]) \in Nat /\ DOMAIN Triggers[c] = 1..Len(Triggers[c])
           /\ \A i \in DOMAIN Triggers[c] :
                /\ Triggers[c][i].action \in Nat
                /\ Triggers[c][i].delay \in 0..(Inf - Horizon)
<1>1. Triggers[c] \in Seq([action : Nat, delay : 0..(Inf - Horizon)])
    BY DesignFacts DEF Conditions
<1>2. \A i \in DOMAIN Triggers[c] :
            Triggers[c][i] \in [action : Nat, delay : 0..(Inf - Horizon)]
    BY <1>1, ElementOf
<1> QED BY <1>1, <1>2

LEMMA MultiFacts ==
    ASSUME design \in Designs, NEW c \in Conditions
    PROVE  /\ Len(Multi[c]) \in Nat /\ DOMAIN Multi[c] = 1..Len(Multi[c])
           /\ \A i \in DOMAIN Multi[c] :
                /\ Multi[c][i].action \in Nat
                /\ Multi[c][i].conditions \in SUBSET Conditions
                /\ Multi[c][i].delay \in 0..(Inf - Horizon)
                /\ Multi[c][i].delay > 0 => Multi[c][i].action \in DOMAIN Multi[c]
<1>1. Multi[c] \in Seq([action : Nat, conditions : SUBSET Conditions,
                         delay : 0..(Inf - Horizon)])
    BY DesignFacts
<1>2. \A i \in DOMAIN Multi[c] :
            Multi[c][i] \in [action : Nat, conditions : SUBSET Conditions,
                             delay : 0..(Inf - Horizon)]
    BY <1>1, ElementOf
<1>3. \A i \in DOMAIN Multi[c] :
            Multi[c][i].delay > 0 => Multi[c][i].action \in DOMAIN Multi[c]
    BY DesignFacts
<1>4. \A i \in DOMAIN Multi[c] :
            /\ Multi[c][i].action \in Nat
            /\ Multi[c][i].conditions \in SUBSET Conditions
            /\ Multi[c][i].delay \in 0..(Inf - Horizon)
    BY <1>2
<1>5. Len(Multi[c]) \in Nat /\ DOMAIN Multi[c] = 1..Len(Multi[c])
    BY <1>1
<1> QED BY <1>3, <1>4, <1>5

\* An alert of the relay changes only the queue, or hangs.
LEMMA AlertedType ==
    ASSUME design \in Designs, NEW r \in RelayStates
    PROVE  alerted(r) \in RelayStates
<1>1. Inf \in 0..Inf
    BY DesignFacts
<1>2. r.nextUpdateTime \in 0..Inf
    BY DEF RelayStates
<1> DEFINE u == IF r.updates THEN r.nextUpdateTime ELSE Inf
<1>3. u \in 0..Inf
    BY <1>1, <1>2
<1>4. alerted(r) = IF r.locked THEN [r EXCEPT !.hung = TRUE]
                   ELSE [r EXCEPT !.scheduled = u]
    BY DEF alerted
<1> HIDE DEF u
<1>5. [r EXCEPT !.hung = TRUE] \in RelayStates
    BY DEF RelayStates
<1>6. [r EXCEPT !.scheduled = u] \in RelayStates
    BY <1>3 DEF RelayStates
<1> QED BY <1>4, <1>5, <1>6

\* A check that is added, and the time at which the queue learns of it
LEMMA AddCheckHandled ==
    ASSUME design \in Designs, NEW lo \in Nat, NEW ns,
           NEW r \in Handled(lo, ns), NEW x \in CondChecks,
           x.testTime >= lo, r.cStates[x.cond] # "DISABLED",
           x.multi => x.action \in DOMAIN Multi[x.cond]
    PROVE  /\ addCheck(r, x) \in Handled(lo, ns)
           /\ addCheck(r, x).cStates = r.cStates
<1> DEFINE u == IF r.updates \/ x.multi THEN Lesser(r.nextUpdateTime, x.testTime)
                ELSE x.testTime
           q == [r EXCEPT !.condChecks = Append(@, x), !.nextUpdateTime = u,
                          !.updates = @ \/ ~x.multi]
<1>1. r \in RelayStates /\ Positions(r) /\ Silent(r) /\ Later(r, lo, ns)
    BY DEF Handled
<1>2. /\ r.condChecks \in Seq(CondChecks) /\ r.nextUpdateTime \in 0..Inf
      /\ r.updates \in BOOLEAN /\ x.multi \in BOOLEAN /\ x.testTime \in 0..Inf
    BY <1>1 DEF RelayStates, CondChecks
<1>3. u \in 0..Inf /\ u >= lo /\ x.testTime >= lo
    BY <1>1, <1>2, DesignFacts DEF Lesser, Later
<1>4. Append(r.condChecks, x) \in Seq(CondChecks)
    BY <1>2
<1>5. (r.updates \/ ~x.multi) \in BOOLEAN
    OBVIOUS
<1> HIDE DEF u
<1>6. q \in RelayStates
    BY <1>1, <1>3, <1>4, <1>5 DEF RelayStates
<1>7. /\ q.condChecks = Append(r.condChecks, x) /\ q.cStates = r.cStates
      /\ q.nextUpdateTime = u /\ q.taken = r.taken
      /\ q.nextSampleTime = r.nextSampleTime
    BY <1>1 DEF RelayStates
<1>8. \A i \in DOMAIN q.condChecks :
            \/ i \in DOMAIN r.condChecks /\ q.condChecks[i] = r.condChecks[i]
            \/ q.condChecks[i] = x
    BY <1>7, <1>2
<1>9. Positions(q) /\ Silent(q) /\ Later(q, lo, ns)
    BY <1>1, <1>3, <1>7, <1>8 DEF Positions, Silent, Later
<1>10. addCheck(r, x) = alerted(q)
    BY DEF addCheck, u
<1> HIDE DEF q
<1>11. alerted(q) \in RelayStates
    BY <1>6, AlertedType
<1>12. /\ alerted(q).condChecks = q.condChecks /\ alerted(q).cStates = q.cStates
       /\ alerted(q).nextUpdateTime = q.nextUpdateTime /\ alerted(q).taken = q.taken
       /\ alerted(q).nextSampleTime = q.nextSampleTime
    BY <1>6 DEF alerted, RelayStates
<1>13. /\ Positions(alerted(q)) /\ Silent(alerted(q))
       /\ Later(alerted(q), lo, ns)
    BY <1>9, <1>12 DEF Positions, Silent, Later
<1> QED BY <1>7, <1>10, <1>11, <1>12, <1>13 DEF Handled

\* An action that is taken
Taking(r, x) == [r EXCEPT !.count = @ + 1, !.taken = Append(@, x)]

LEMMA TakingHandled ==
    ASSUME design \in Designs, NEW lo \in Nat, NEW ns,
           NEW r \in Handled(lo, ns), NEW x \in ActionsTaken,
           r.cStates[x.cond] # "DISABLED"
    PROVE  /\ Taking(r, x) \in Handled(lo, ns)
           /\ Taking(r, x).cStates = r.cStates
<1> DEFINE q == Taking(r, x)
<1>1. r \in RelayStates /\ Positions(r) /\ Silent(r) /\ Later(r, lo, ns)
    BY DEF Handled
<1>2. r.taken \in Seq(ActionsTaken) /\ r.count + 1 \in Nat
    BY <1>1 DEF RelayStates
<1>3. Append(r.taken, x) \in Seq(ActionsTaken)
    BY <1>2
<1>4. q = [r EXCEPT !.count = @ + 1, !.taken = Append(@, x)]
    BY DEF Taking
<1> HIDE DEF q
<1>5. q \in RelayStates
    BY <1>1, <1>2, <1>3, <1>4 DEF RelayStates
<1>6. /\ q.condChecks = r.condChecks /\ q.cStates = r.cStates
      /\ q.nextUpdateTime = r.nextUpdateTime /\ q.nextSampleTime = r.nextSampleTime
      /\ q.taken = Append(r.taken, x)
    BY <1>1, <1>4 DEF RelayStates
<1>7. \A i \in DOMAIN q.taken :
            \/ i \in DOMAIN r.taken /\ q.taken[i] = r.taken[i]
            \/ q.taken[i] = x
    BY <1>2, <1>6
<1>8. Positions(q) /\ Silent(q) /\ Later(q, lo, ns)
    BY <1>1, <1>6, <1>7 DEF Positions, Silent, Later
<1> QED BY <1>5, <1>6, <1>8 DEF Handled, q

\* The conditions of what waits and of what was taken
LEMMA ConditionsOf ==
    ASSUME NEW r \in RelayStates
    PROVE  /\ \A i \in DOMAIN r.condChecks : r.condChecks[i] \in CondChecks
           /\ \A i \in DOMAIN r.condChecks : r.condChecks[i].cond \in Conditions
           /\ \A i \in DOMAIN r.taken : r.taken[i].cond \in Conditions
<1>1. r.condChecks \in Seq(CondChecks) /\ r.taken \in Seq(ActionsTaken)
    BY DEF RelayStates
<1>2. \A i \in DOMAIN r.condChecks : r.condChecks[i] \in CondChecks
    BY <1>1, ElementOf
<1>3. \A i \in DOMAIN r.taken : r.taken[i] \in ActionsTaken
    BY <1>1, ElementOf
<1> QED BY <1>2, <1>3 DEF CondChecks, ActionsTaken

\* One trigger of a condition that is TRIGGERED
LEMMA TriggerActionHandled ==
    ASSUME design \in Designs, NEW t \in 0..Horizon, NEW lo \in 0..(t + 1), NEW ns,
           NEW r \in Handled(lo, ns), NEW c \in Conditions,
           r.cStates[c] = "TRIGGERED", NEW d \in Nat, NEW i \in DOMAIN Triggers[c]
    PROVE  /\ triggerAction(r, c, i, t, d) \in Handled(lo, ns)
           /\ triggerAction(r, c, i, t, d).cStates = r.cStates
<1> DEFINE x == Triggers[c][i]
           k == [cond |-> c, action |-> i, testTime |-> t + x.delay, multi |-> FALSE]
<1>1. x.action \in Nat /\ x.delay \in 0..(Inf - Horizon) /\ i \in Nat
    BY TriggerFacts
<1>2. Horizon \in Nat /\ Inf \in Nat /\ Inf > Horizon /\ lo \in Nat
    BY DesignFacts
<1>3. CASE x.delay <= d
    <2> DEFINE y == [action |-> x.action, cond |-> c, multi |-> FALSE]
    <2>1. triggerAction(r, c, i, t, d) = Taking(r, y)
        BY <1>3 DEF triggerAction, executeAction, Taking
    <2>2. y \in ActionsTaken /\ y.cond = c /\ r.cStates[c] # "DISABLED"
        BY <1>1 DEF ActionsTaken
    <2> HIDE DEF y
    <2>3. Taking(r, y) \in Handled(lo, ns) /\ Taking(r, y).cStates = r.cStates
        BY <1>2, <2>2, TakingHandled
    <2> QED BY <2>1, <2>3
<1>4. CASE ~(x.delay <= d)
    <2>1. triggerAction(r, c, i, t, d) = addCheck(r, k)
        BY <1>4 DEF triggerAction
    <2>2. t + x.delay \in 0..Inf /\ t + x.delay >= lo
        BY <1>1, <1>2, <1>4
    <2>3. k \in CondChecks /\ k.testTime >= lo /\ ~k.multi /\ k.cond = c
        <3> HIDE DEF x
        <3> QED BY <1>1, <2>2 DEF CondChecks
    <2> HIDE DEF k
    <2>4. addCheck(r, k) \in Handled(lo, ns) /\ addCheck(r, k).cStates = r.cStates
        BY <1>2, <2>3, AddCheckHandled
    <2> QED BY <2>1, <2>4
<1> QED BY <1>3, <1>4

LEMMA MultiCheckHandled ==
    ASSUME design \in Designs, NEW t \in 0..Horizon, NEW lo \in 0..(t + 1), NEW ns,
           NEW r \in Handled(lo, ns), NEW c \in Conditions,
           r.cStates[c] = "TRIGGERED", NEW d \in Nat, NEW i \in DOMAIN Multi[c]
    PROVE  /\ multiConditionCheck(r, c, i, t, d) \in Handled(lo, ns)
           /\ multiConditionCheck(r, c, i, t, d).cStates = r.cStates
<1> DEFINE x == Multi[c][i]
           k == [cond |-> c, action |-> x.action, testTime |-> t + x.delay, multi |-> TRUE]
<1>1. /\ x.action \in Nat /\ x.delay \in 0..(Inf - Horizon)
      /\ x.delay > 0 => x.action \in DOMAIN Multi[c]
    BY MultiFacts
<1>2. Horizon \in Nat /\ Inf \in Nat /\ Inf > Horizon /\ lo \in Nat
    BY DesignFacts
<1>3. CASE \E j \in x.conditions : r.cStates[j] # "TRIGGERED"
    BY <1>3 DEF multiConditionCheck
<1>4. CASE (~\E j \in x.conditions : r.cStates[j] # "TRIGGERED") /\ x.delay <= d
    <2> DEFINE y == [action |-> x.action, cond |-> c, multi |-> TRUE]
    <2>1. multiConditionCheck(r, c, i, t, d) = Taking(r, y)
        BY <1>4 DEF multiConditionCheck, executeAction, Taking
    <2>2. y \in ActionsTaken /\ y.cond = c /\ r.cStates[c] # "DISABLED"
        BY <1>1 DEF ActionsTaken
    <2> HIDE DEF y
    <2>3. Taking(r, y) \in Handled(lo, ns) /\ Taking(r, y).cStates = r.cStates
        BY <1>2, <2>2, TakingHandled
    <2> QED BY <2>1, <2>3
<1>5. CASE (~\E j \in x.conditions : r.cStates[j] # "TRIGGERED") /\ ~(x.delay <= d)
    <2>1. multiConditionCheck(r, c, i, t, d) = addCheck(r, k)
        BY <1>5 DEF multiConditionCheck
    <2>2. t + x.delay \in 0..Inf /\ t + x.delay >= lo /\ x.delay > 0
        BY <1>1, <1>2, <1>5
    <2>3. /\ k \in CondChecks /\ k.testTime >= lo /\ k.multi /\ k.cond = c
          /\ k.action \in DOMAIN Multi[c]
        <3> HIDE DEF x
        <3> QED BY <1>1, <2>2 DEF CondChecks
    <2> HIDE DEF k
    <2>4. addCheck(r, k) \in Handled(lo, ns) /\ addCheck(r, k).cStates = r.cStates
        BY <1>2, <2>3, AddCheckHandled
    <2> QED BY <2>1, <2>4
<1> QED BY <1>3, <1>4, <1>5

\* The loops over the triggers of a condition
LEMMA TriggerActionsHandled ==
    ASSUME design \in Designs, NEW t \in 0..Horizon, NEW lo \in 0..(t + 1), NEW ns,
           NEW r \in Handled(lo, ns), NEW c \in Conditions,
           r.cStates[c] = "TRIGGERED", NEW d \in Nat
    PROVE  /\ triggerActions(r, c, t, d) \in Handled(lo, ns)
           /\ triggerActions(r, c, t, d).cStates = r.cStates
<1> DEFINE S == {s \in Handled(lo, ns) : s.cStates = r.cStates}
           n == Len(Triggers[c])
<1>1. n \in Nat /\ DOMAIN Triggers[c] = 1..n
    BY TriggerFacts
<1>2. ASSUME NEW s \in S, NEW i \in 1..n PROVE triggerAction(s, c, i, t, d) \in S
    <2>1. s \in Handled(lo, ns) /\ s.cStates = r.cStates /\ s.cStates[c] = "TRIGGERED"
        OBVIOUS
    <2>2. i \in DOMAIN Triggers[c]
        BY <1>1
    <2>3. /\ triggerAction(s, c, i, t, d) \in Handled(lo, ns)
          /\ triggerAction(s, c, i, t, d).cStates = s.cStates
        <3> HIDE DEF S, n
        <3> QED BY <2>1, <2>2, TriggerActionHandled
    <2> QED BY <2>1, <2>3
<1>3. r \in S
    OBVIOUS
<1>4. triggerActions(r, c, t, d) \in S
    <2> HIDE DEF S, n
    <2>1. PICK p : TriggerActionsRun(p, S, n, r, c, t, d)
        <3>1. TriggerActionsClosed(S, n, c, t, d)
            BY <1>2 DEF TriggerActionsClosed
        <3> QED BY <1>1, <1>3, <3>1, TriggerActionsFold
    <2> QED BY <1>1, <2>1 DEF TriggerActionsRun
<1> QED BY <1>4

LEMMA MultiConditionHandled ==
    ASSUME design \in Designs, NEW t \in 0..Horizon, NEW lo \in 0..(t + 1), NEW ns,
           NEW r \in Handled(lo, ns), NEW c \in Conditions,
           r.cStates[c] = "TRIGGERED", NEW d \in Nat
    PROVE  /\ multiConditionCheckExecute(r, c, t, d) \in Handled(lo, ns)
           /\ multiConditionCheckExecute(r, c, t, d).cStates = r.cStates
<1> DEFINE S == {s \in Handled(lo, ns) : s.cStates = r.cStates}
           n == Len(Multi[c])
<1>1. n \in Nat /\ DOMAIN Multi[c] = 1..n
    BY MultiFacts
<1>2. ASSUME NEW s \in S, NEW i \in 1..n PROVE multiConditionCheck(s, c, i, t, d) \in S
    <2>1. s \in Handled(lo, ns) /\ s.cStates = r.cStates /\ s.cStates[c] = "TRIGGERED"
        OBVIOUS
    <2>2. i \in DOMAIN Multi[c]
        BY <1>1
    <2>3. /\ multiConditionCheck(s, c, i, t, d) \in Handled(lo, ns)
          /\ multiConditionCheck(s, c, i, t, d).cStates = s.cStates
        <3> HIDE DEF S, n
        <3> QED BY <2>1, <2>2, MultiCheckHandled
    <2> QED BY <2>1, <2>3
<1>3. r \in S
    OBVIOUS
<1>4. multiConditionCheckExecute(r, c, t, d) \in S
    <2> HIDE DEF S, n
    <2>1. PICK p : MultiConditionRun(p, S, n, r, c, t, d)
        <3>1. MultiConditionClosed(S, n, c, t, d)
            BY <1>2 DEF MultiConditionClosed
        <3> QED BY <1>1, <1>3, <3>1, MultiConditionFold
    <2> QED BY <1>1, <2>1 DEF MultiConditionRun
<1> QED BY <1>4

\* A condition is triggered: the state, then its actions.
Triggered(r, c, t) ==
    [r EXCEPT !.cStates[c] = "TRIGGERED", !.margin[c] = TRUE,
              !.triggerTimes[c] = t, !.count = @ + 1]

LEMMA TriggeredHandled ==
    ASSUME design \in Designs, NEW t \in 0..Horizon, NEW lo \in 0..(t + 1), NEW ns,
           NEW r \in Handled(lo, ns), NEW c \in Conditions
    PROVE  /\ Triggered(r, c, t) \in Handled(lo, ns)
           /\ Triggered(r, c, t).cStates = [r.cStates EXCEPT ![c] = "TRIGGERED"]
<1> DEFINE q == Triggered(r, c, t)
<1>1. r \in RelayStates /\ Positions(r) /\ Silent(r) /\ Later(r, lo, ns)
    BY DEF Handled
<1>2. /\ [r.cStates EXCEPT ![c] = "TRIGGERED"]
            \in [Conditions -> {"ACTIVE", "TRIGGERED", "DISABLED"}]
      /\ [r.margin EXCEPT ![c] = TRUE] \in [Conditions -> BOOLEAN]
      /\ [r.triggerTimes EXCEPT ![c] = t] \in [Conditions -> 0..Horizon]
      /\ r.count + 1 \in Nat
    BY <1>1 DEF RelayStates
<1>3. /\ q = [r EXCEPT !.cStates = [@ EXCEPT ![c] = "TRIGGERED"],
                       !.margin = [@ EXCEPT ![c] = TRUE],
                       !.triggerTimes = [@ EXCEPT ![c] = t], !.count = @ + 1]
    BY DEF Triggered
<1>4. q \in RelayStates
    BY <1>1, <1>2, <1>3 DEF RelayStates
<1>5. /\ q.condChecks = r.condChecks /\ q.taken = r.taken
      /\ q.nextUpdateTime = r.nextUpdateTime /\ q.nextSampleTime = r.nextSampleTime
      /\ q.cStates = [r.cStates EXCEPT ![c] = "TRIGGERED"]
    BY <1>1, <1>3 DEF RelayStates
<1>6. \A k \in Conditions : r.cStates[k] # "DISABLED" => q.cStates[k] # "DISABLED"
    BY <1>1, <1>5 DEF RelayStates
<1>7. /\ \A i \in DOMAIN r.condChecks : r.condChecks[i].cond \in Conditions
      /\ \A i \in DOMAIN r.taken : r.taken[i].cond \in Conditions
    BY <1>1, ConditionsOf
<1>8. Positions(q) /\ Silent(q) /\ Later(q, lo, ns)
    BY <1>1, <1>5, <1>6, <1>7 DEF Positions, Silent, Later
<1> QED BY <1>4, <1>5, <1>8 DEF Handled

LEMMA TriggerConditionHandled ==
    ASSUME design \in Designs, NEW t \in 0..Horizon, NEW lo \in 0..(t + 1), NEW ns,
           NEW r \in Handled(lo, ns), NEW c \in Conditions, NEW d \in Nat
    PROVE  /\ triggerCondition(r, c, t, d) \in Handled(lo, ns)
           /\ triggerCondition(r, c, t, d).cStates = [r.cStates EXCEPT ![c] = "TRIGGERED"]
<1> DEFINE q == Triggered(r, c, t)
           s == triggerActions(q, c, t, d)
<1>1. q \in Handled(lo, ns) /\ q.cStates = [r.cStates EXCEPT ![c] = "TRIGGERED"]
    BY TriggeredHandled
<1>2. q.cStates[c] = "TRIGGERED"
    BY <1>1 DEF Handled, RelayStates
<1> HIDE DEF q
<1>3. s \in Handled(lo, ns) /\ s.cStates = q.cStates
    <2>1. q \in Handled(lo, ns)
        BY <1>1
    <2> QED BY <1>2, <2>1, TriggerActionsHandled
<1> HIDE DEF s
<1>4. /\ multiConditionCheckExecute(s, c, t, d) \in Handled(lo, ns)
      /\ multiConditionCheckExecute(s, c, t, d).cStates = s.cStates
    BY <1>2, <1>3, MultiConditionHandled
<1>5. triggerCondition(r, c, t, d) = multiConditionCheckExecute(s, c, t, d)
    BY DEF triggerCondition, Triggered, q, s
<1> QED BY <1>1, <1>3, <1>4, <1>5

\* The loop over the conditions.  What is not ACTIVE stays as it is.
LEMMA SampleHandled ==
    ASSUME design \in Designs, NEW t \in 0..Horizon, NEW lo \in 0..(t + 1), NEW ns,
           NEW r \in Handled(lo, ns), NEW l, NEW d \in Nat
    PROVE  sample(r, l, t, d) \in Handled(lo, ns)
<1> DEFINE S == Handled(lo, ns)
           n == Len(Triggers)
<1>1. n \in Nat /\ DOMAIN Triggers = 1..n /\ Conditions = 1..n
    BY DesignFacts DEF Conditions
<1>2. SampleClosed(S, n, l, t, d)
    BY <1>1, TriggerConditionHandled DEF sampleOne, SampleClosed
<1> HIDE DEF S, n
<1>3. r \in S
    BY DEF S
<1>4. PICK p : SampleRun(p, S, n, r, l, t, d)
    BY <1>1, <1>2, <1>3, SampleFold
<1> QED BY <1>1, <1>4 DEF S, SampleRun

\* The conditions with roots are conditions.
LEMMA RootsType ==
    ASSUME design \in Designs, NEW cs
    PROVE  RootsOf(cs) \in Seq(Conditions)
<1> DEFINE S == Seq(Conditions)
           n == Len(Triggers)
<1>1. n \in Nat /\ DOMAIN Triggers = 1..n /\ Conditions = 1..n
    BY DesignFacts DEF Conditions
<1>2. <<>> \in S /\ \A s \in S : \A i \in 1..n : Append(s, i) \in S
    BY <1>1
<1> HIDE DEF S, n
<1>3. RootsClosed(S, n, cs)
    BY <1>2 DEF RootsClosed
<1>4. PICK p : RootsRun(p, S, n, cs)
    BY <1>1, <1>2, <1>3, RootsFold
<1> QED BY <1>1, <1>4 DEF S, RootsRun

LEMMA UpdateRootsHandled ==
    ASSUME design \in Designs, NEW lo \in Nat, NEW ns, NEW r \in Handled(lo, ns)
    PROVE  /\ updateRootCount(r) \in Handled(lo, ns)
           /\ updateRootCount(r).cStates = r.cStates
<1> DEFINE q == updateRootCount(r)
           w == RootsOf(r.cStates)
<1>1. r \in RelayStates /\ Positions(r) /\ Silent(r) /\ Later(r, lo, ns)
    BY DEF Handled
<1>2. w \in Seq(Conditions)
    BY RootsType
<1>3. q = [r EXCEPT !.withRoots = w]
    BY DEF updateRootCount
<1> HIDE DEF w, q
<1>4. q \in RelayStates
    BY <1>1, <1>2, <1>3 DEF RelayStates
<1>5. /\ q.condChecks = r.condChecks /\ q.taken = r.taken
      /\ q.nextUpdateTime = r.nextUpdateTime /\ q.nextSampleTime = r.nextSampleTime
      /\ q.cStates = r.cStates
    BY <1>1, <1>3 DEF RelayStates
<1>6. Positions(q) /\ Silent(q) /\ Later(q, lo, ns)
    BY <1>1, <1>5 DEF Positions, Silent, Later
<1> QED BY <1>4, <1>5, <1>6 DEF Handled, q

\* A condition that is cleared is ACTIVE again.
LEMMA ClearedHandled ==
    ASSUME design \in Designs, NEW lo \in Nat, NEW ns, NEW r \in Handled(lo, ns),
           NEW c \in Conditions
    PROVE  /\ cleared(r, c) \in Handled(lo, ns)
           /\ cleared(r, c).cStates = [r.cStates EXCEPT ![c] = "ACTIVE"]
<1> DEFINE q == cleared(r, c)
<1>1. r \in RelayStates /\ Positions(r) /\ Silent(r) /\ Later(r, lo, ns)
    BY DEF Handled
<1>2. /\ [r.cStates EXCEPT ![c] = "ACTIVE"]
            \in [Conditions -> {"ACTIVE", "TRIGGERED", "DISABLED"}]
      /\ [r.margin EXCEPT ![c] = FALSE] \in [Conditions -> BOOLEAN]
    BY <1>1 DEF RelayStates
<1>3. q = [r EXCEPT !.cStates = [@ EXCEPT ![c] = "ACTIVE"],
                    !.margin = [@ EXCEPT ![c] = FALSE]]
    BY DEF cleared
<1> HIDE DEF q
<1>4. q \in RelayStates
    BY <1>1, <1>2, <1>3 DEF RelayStates
<1>5. /\ q.condChecks = r.condChecks /\ q.taken = r.taken
      /\ q.nextUpdateTime = r.nextUpdateTime /\ q.nextSampleTime = r.nextSampleTime
      /\ q.cStates = [r.cStates EXCEPT ![c] = "ACTIVE"]
    BY <1>1, <1>3 DEF RelayStates
<1>6. \A k \in Conditions : r.cStates[k] # "DISABLED" => q.cStates[k] # "DISABLED"
    BY <1>1, <1>5 DEF RelayStates
<1>7. /\ \A i \in DOMAIN r.condChecks : r.condChecks[i].cond \in Conditions
      /\ \A i \in DOMAIN r.taken : r.taken[i].cond \in Conditions
    BY <1>1, ConditionsOf
<1>8. Positions(q) /\ Silent(q) /\ Later(q, lo, ns)
    BY <1>1, <1>5, <1>6, <1>7 DEF Positions, Silent, Later
<1> QED BY <1>4, <1>5, <1>8 DEF Handled, q

\* A check that is kept, at its time or at a later one
Keeping(r, x) == [r EXCEPT !.condChecks = Append(@, x)]

LEMMA KeptHandled ==
    ASSUME design \in Designs, NEW lo \in Nat, NEW ns, NEW r \in Handled(lo, ns),
           NEW x \in CondChecks, x.testTime >= lo, r.cStates[x.cond] # "DISABLED",
           x.multi => x.action \in DOMAIN Multi[x.cond]
    PROVE  Keeping(r, x) \in Handled(lo, ns) /\ Keeping(r, x).cStates = r.cStates
<1> USE DEF Keeping
<1> DEFINE q == Keeping(r, x)
<1>1. r \in RelayStates /\ Positions(r) /\ Silent(r) /\ Later(r, lo, ns)
    BY DEF Handled
<1>2. r.condChecks \in Seq(CondChecks)
    BY <1>1 DEF RelayStates
<1>3. Append(r.condChecks, x) \in Seq(CondChecks)
    BY <1>2
<1>4. q \in RelayStates
    BY <1>1, <1>3 DEF RelayStates
<1>5. /\ q.condChecks = Append(r.condChecks, x) /\ q.taken = r.taken
      /\ q.nextUpdateTime = r.nextUpdateTime /\ q.nextSampleTime = r.nextSampleTime
      /\ q.cStates = r.cStates
    BY <1>1 DEF RelayStates
<1>6. \A i \in DOMAIN q.condChecks :
            \/ i \in DOMAIN r.condChecks /\ q.condChecks[i] = r.condChecks[i]
            \/ q.condChecks[i] = x
    BY <1>2, <1>5
<1> HIDE DEF q
<1>7. Positions(q) /\ Silent(q) /\ Later(q, lo, ns)
    BY <1>1, <1>5, <1>6 DEF Positions, Silent, Later
<1> QED BY <1>4, <1>5, <1>7 DEF Handled, q

\* What multiDue finds of the conditions of a check
Unset(r, m) == {k \in m.conditions : r.cStates[k] # "TRIGGERED"}
Young(r, m, t) == {k \in m.conditions : t - r.triggerTimes[k] < m.delay}
Hindering(r, m, t) == Unset(r, m) \cup Young(r, m, t)

\* The check x waits until k has been TRIGGERED for the delay of m.
Postponed(r, x, m, k) ==
    Keeping(r, [x EXCEPT !.testTime = r.triggerTimes[k] + m.delay])

LEMMA MultiDueCases ==
    ASSUME design \in Designs, NEW t \in 0..Horizon, NEW r \in RelayStates,
           NEW x \in CondChecks, x.action \in DOMAIN Multi[x.cond],
           NEW m, m = Multi[x.cond][x.action]
    PROVE  \/ /\ multiDue(r, x, t) = executeAction(r, m.action, x.cond, TRUE)
              /\ Hindering(r, m, t) = {}
           \/ multiDue(r, x, t) = r
           \/ \E k \in Young(r, m, t) : multiDue(r, x, t) = Postponed(r, x, m, k)
<1> DEFINE H == Hindering(r, m, t)
           first == CHOOSE k \in H : \A j \in H : k <= j
<1>1. multiDue(r, x, t) =
        IF H = {} THEN executeAction(r, m.action, x.cond, TRUE)
        ELSE IF first \in Unset(r, m) THEN r
        ELSE Postponed(r, x, m, first)
    BY DEF multiDue, Hindering, Unset, Young, Postponed, Keeping
<1>2. ASSUME H # {} PROVE first \in H
    <2>1. m.conditions \in SUBSET Conditions
        BY MultiFacts DEF CondChecks
    <2>2. Conditions \subseteq Nat
        BY DesignFacts
    <2>3. H \in SUBSET Nat
        BY <2>1, <2>2 DEF Hindering, Unset, Young
    <2>4. \E k \in H : \A j \in H : k <= j
        <3> HIDE DEF H
        <3> QED BY <1>2, <2>3, LeastElement
    <2> QED BY <2>4
<1>3. first \in Unset(r, m) \/ first \in Young(r, m, t) \/ H = {}
    BY <1>2 DEF Hindering
<1> HIDE DEF first
<1> QED BY <1>1, <1>3

LEMMA MultiDueHandled ==
    ASSUME design \in Designs, NEW t \in 0..Horizon, NEW lo \in 0..(t + 1), NEW ns,
           NEW r \in Handled(lo, ns), NEW x \in CondChecks,
           r.cStates[x.cond] # "DISABLED", x.multi = TRUE,
           x.action \in DOMAIN Multi[x.cond]
    PROVE  /\ multiDue(r, x, t) \in Handled(lo, ns)
           /\ multiDue(r, x, t).cStates = r.cStates
<1> DEFINE m == Multi[x.cond][x.action]
           a == m.action
<1>1. r \in RelayStates /\ x.cond \in Conditions
    BY DEF Handled, CondChecks
<1>2. /\ a \in Nat /\ m.conditions \in SUBSET Conditions
      /\ m.delay \in 0..(Inf - Horizon) /\ lo \in Nat
    <2>1. lo \in Nat
        BY DesignFacts
    <2> QED BY <1>1, <2>1, MultiFacts
<1>3. CASE multiDue(r, x, t) = executeAction(r, a, x.cond, TRUE)
    <2> DEFINE y == [action |-> a, cond |-> x.cond, multi |-> TRUE]
    <2>1. multiDue(r, x, t) = Taking(r, y)
        BY <1>3 DEF executeAction, Taking
    <2>2. y \in ActionsTaken /\ y.cond = x.cond
        BY <1>1, <1>2 DEF ActionsTaken
    <2> HIDE DEF y
    <2>3. Taking(r, y) \in Handled(lo, ns) /\ Taking(r, y).cStates = r.cStates
        BY <1>2, <2>2, TakingHandled
    <2> QED BY <2>1, <2>3
<1>4. CASE multiDue(r, x, t) = r
    BY <1>4
<1>5. ASSUME NEW k \in Young(r, m, t), multiDue(r, x, t) = Postponed(r, x, m, k)
      PROVE  /\ multiDue(r, x, t) \in Handled(lo, ns)
             /\ multiDue(r, x, t).cStates = r.cStates
    <2> DEFINE v == r.triggerTimes[k]
               w == m.delay
               u == v + w
               y == [x EXCEPT !.testTime = u]
    <2>1. k \in Conditions /\ t - r.triggerTimes[k] < m.delay
        BY <1>2 DEF Young
    <2>2. r.triggerTimes[k] \in 0..Horizon
        BY <1>1, <2>1 DEF RelayStates
    <2>3. u \in 0..Inf /\ u > t /\ u >= lo
        <3>1. /\ v \in 0..Horizon /\ w \in 0..(Inf - Horizon) /\ t - v < w
              /\ Horizon \in Nat /\ Inf \in Nat /\ Inf > Horizon
            BY <1>2, <2>1, <2>2, DesignFacts
        <3> HIDE DEF v, w
        <3> QED BY <3>1
    <2> HIDE DEF u, m
    <2>4. /\ y \in CondChecks /\ y.testTime = u /\ y.cond = x.cond
          /\ y.action = x.action /\ y.multi = x.multi
        BY <2>3 DEF CondChecks
    <2>5. multiDue(r, x, t) = Keeping(r, y)
        BY <1>5 DEF u, m, Postponed
    <2> HIDE DEF y
    <2>6. Keeping(r, y) \in Handled(lo, ns) /\ Keeping(r, y).cStates = r.cStates
        BY <1>2, <2>3, <2>4, KeptHandled
    <2> QED BY <2>5, <2>6
<1> HIDE DEF m
<1>6. \/ multiDue(r, x, t) = executeAction(r, a, x.cond, TRUE)
      \/ multiDue(r, x, t) = r
      \/ \E k \in Young(r, m, t) : multiDue(r, x, t) = Postponed(r, x, m, k)
    <2>1. m = Multi[x.cond][x.action]
        BY DEF m
    <2> QED BY <1>1, <2>1, MultiDueCases
<1> QED BY <1>3, <1>4, <1>5, <1>6

\* What may be asked of a check before evaluateCondCheck looks at it
Evaluable(r, x) ==
    /\ x \in CondChecks /\ r.cStates[x.cond] # "DISABLED"
    /\ x.multi => x.action \in DOMAIN Multi[x.cond]

LEMMA EvaluateHandled ==
    ASSUME design \in Designs, NEW t \in 0..Horizon, NEW lo \in 0..(t + 1), NEW ns,
           NEW r \in Handled(lo, ns), NEW l, NEW x, Evaluable(r, x)
    PROVE  /\ evaluateCondCheck(r, x, t, l) \in Handled(lo, ns)
           /\ \A k \in Conditions : r.cStates[k] # "DISABLED"
                    => evaluateCondCheck(r, x, t, l).cStates[k] # "DISABLED"
<1>1. /\ x.cond \in Conditions /\ x.testTime \in 0..Inf /\ x.action \in Nat
      /\ x.multi \in BOOLEAN /\ x \in CondChecks
    BY DEF CondChecks, Evaluable
<1>2. /\ r.cStates \in [Conditions -> {"ACTIVE", "TRIGGERED", "DISABLED"}]
      /\ lo \in Nat
    BY DesignFacts DEF Handled, RelayStates
<1>3. CASE t >= x.testTime /\ ~Check(l[x.cond], r.margin[x.cond])
    <2>1. evaluateCondCheck(r, x, t, l) = updateRootCount(cleared(r, x.cond))
        BY <1>3 DEF evaluateCondCheck
    <2>2. /\ cleared(r, x.cond) \in Handled(lo, ns)
          /\ cleared(r, x.cond).cStates = [r.cStates EXCEPT ![x.cond] = "ACTIVE"]
        BY <1>1, <1>2, ClearedHandled
    <2>3. /\ updateRootCount(cleared(r, x.cond)) \in Handled(lo, ns)
          /\ updateRootCount(cleared(r, x.cond)).cStates = cleared(r, x.cond).cStates
        BY <1>2, <2>2, UpdateRootsHandled
    <2>4. \A k \in Conditions : r.cStates[k] # "DISABLED"
                    => [r.cStates EXCEPT ![x.cond] = "ACTIVE"][k] # "DISABLED"
        BY <1>1, <1>2
    <2> QED BY <2>1, <2>2, <2>3, <2>4
<1>4. CASE t >= x.testTime /\ Check(l[x.cond], r.margin[x.cond]) /\ x.multi
    <2>1. evaluateCondCheck(r, x, t, l) = multiDue(r, x, t)
        BY <1>4 DEF evaluateCondCheck
    <2>2. x.multi = TRUE /\ x.action \in DOMAIN Multi[x.cond] /\ r.cStates[x.cond] # "DISABLED"
        BY <1>1, <1>4 DEF Evaluable
    <2>3. multiDue(r, x, t) \in Handled(lo, ns) /\ multiDue(r, x, t).cStates = r.cStates
        <3>1. x \in CondChecks
            BY <1>1
        <3> QED BY <2>2, <3>1, MultiDueHandled
    <2> QED BY <2>1, <2>3
<1>5. CASE t >= x.testTime /\ Check(l[x.cond], r.margin[x.cond]) /\ ~x.multi
    <2> DEFINE y == [action |-> x.action, cond |-> x.cond, multi |-> FALSE]
    <2>1. evaluateCondCheck(r, x, t, l) = Taking(r, y)
        BY <1>5 DEF evaluateCondCheck, singleDue, executeAction, Taking
    <2>2. y \in ActionsTaken /\ r.cStates[y.cond] # "DISABLED"
        BY <1>1 DEF ActionsTaken, Evaluable
    <2> HIDE DEF y
    <2>3. Taking(r, y) \in Handled(lo, ns) /\ Taking(r, y).cStates = r.cStates
        BY <1>2, <2>2, TakingHandled
    <2> QED BY <2>1, <2>3
<1>6. CASE ~(t >= x.testTime) /\ r.cStates[x.cond] = "TRIGGERED"
    <2>1. evaluateCondCheck(r, x, t, l) = Keeping(r, x)
        BY <1>6 DEF evaluateCondCheck, Keeping
    <2>2. x.testTime >= lo
        BY <1>1, <1>6, DesignFacts
    <2>3. Keeping(r, x) \in Handled(lo, ns) /\ Keeping(r, x).cStates = r.cStates
        BY <1>1, <1>2, <2>2, KeptHandled DEF Evaluable
    <2> QED BY <2>1, <2>3
<1>7. CASE ~(t >= x.testTime) /\ r.cStates[x.cond] # "TRIGGERED"
    BY <1>7 DEF evaluateCondCheck
<1> QED BY <1>3, <1>4, <1>5, <1>6, <1>7

\* The loop over the checks
LEMMA EvaluateAllHandled ==
    ASSUME design \in Designs, NEW t \in 0..Horizon, NEW lo \in 0..(t + 1), NEW ns,
           NEW r \in Handled(lo, ns), NEW l, NEW checks \in Seq(CondChecks),
           \A j \in DOMAIN checks : Evaluable(r, checks[j])
    PROVE  evaluateCondChecks(r, checks, t, l) \in Handled(lo, ns)
<1> DEFINE S == {s \in Handled(lo, ns) : \A j \in DOMAIN checks : Evaluable(s, checks[j])}
           n == Len(checks)
<1>1. n \in Nat /\ DOMAIN checks = 1..n
    OBVIOUS
<1>2. r \in S
    OBVIOUS
<1>3. ASSUME NEW s \in S, NEW i \in 1..n PROVE evaluateCondCheck(s, checks[i], t, l) \in S
    <2> DEFINE q == evaluateCondCheck(s, checks[i], t, l)
    <2>1. s \in Handled(lo, ns) /\ \A j \in DOMAIN checks : Evaluable(s, checks[j])
        OBVIOUS
    <2>2. Evaluable(s, checks[i])
        BY <1>1, <2>1
    <2> HIDE DEF S, n
    <2>3. /\ q \in Handled(lo, ns)
          /\ \A k \in Conditions : s.cStates[k] # "DISABLED" => q.cStates[k] # "DISABLED"
        BY <2>1, <2>2, EvaluateHandled
    <2> HIDE DEF q
    <2>4. \A j \in DOMAIN checks : Evaluable(q, checks[j])
        BY <2>1, <2>3 DEF Evaluable, CondChecks
    <2> QED BY <2>3, <2>4 DEF S, q
<1> HIDE DEF S, n
<1>4. EvaluateClosed(S, n, checks, t, l)
    BY <1>3 DEF EvaluateClosed
<1>5. PICK p : EvaluateRun(p, S, n, r, checks, t, l)
    BY <1>1, <1>2, <1>4, EvaluateFold
<1> QED BY <1>1, <1>5 DEF S, EvaluateRun

\* The earliest of the checks
LEMMA EarliestIs ==
    ASSUME design \in Designs, NEW lo \in Nat, NEW ns, NEW r \in RelayStates,
           Later(r, lo, ns)
    PROVE  /\ earliestCheck(r) \in lo..Inf
           /\ r.condChecks = <<>> => earliestCheck(r) = r.nextUpdateTime
           /\ \A i \in DOMAIN r.condChecks : earliestCheck(r) <= r.condChecks[i].testTime
<1> DEFINE S == lo..Inf
           n == Len(r.condChecks)
           u(i) == r.condChecks[i].testTime
<1>1. /\ n \in Nat /\ DOMAIN r.condChecks = 1..n /\ r.nextUpdateTime \in S
      /\ Inf \in Nat
    BY DesignFacts DEF RelayStates, Later
<1>2. \A i \in 1..n : u(i) \in S
    BY <1>1, ConditionsOf DEF CondChecks, Later
<1>3. EarliestClosed(S, n, r)
    <2>1. \A s \in S : \A i \in 1..n : Lesser(s, u(i)) \in S
        <3> HIDE DEF u, n
        <3> QED BY <1>1, <1>2 DEF Lesser
    <2> QED BY <2>1 DEF EarliestClosed
<1>4. PICK p : EarliestRun(p, S, n, r)
    <2> HIDE DEF S, n
    <2> QED BY <1>1, <1>3, EarliestFold
<1>5. /\ p \in [0..n -> S] /\ p[0] = r.nextUpdateTime /\ p[n] = earliestCheck(r)
      /\ \A i \in 1..n : p[i] = Lesser(p[i - 1], u(i))
    BY <1>4 DEF EarliestRun
<1> HIDE DEF u
<1> DEFINE Z == {i \in 0..n : \A j \in 1..i : p[i] <= u(j)}
<1>6. 0 \in Z
    BY <1>1
<1>7. ASSUME NEW i \in 1..n, i - 1 \in Z PROVE i \in Z
    <2>1. p[i] = Lesser(p[i - 1], u(i)) /\ p[i - 1] \in Int /\ u(i) \in Int
        <3>1. i - 1 \in 0..n /\ S \subseteq Int
            BY <1>1
        <3> HIDE DEF S, n
        <3>2. p[i - 1] \in S /\ u(i) \in S
            BY <3>1, <1>2, <1>5
        <3> QED BY <3>1, <3>2, <1>5
    <2>2. p[i] <= p[i - 1] /\ p[i] <= u(i) /\ p[i] \in Int
        <3> DEFINE a == p[i - 1]
                   b == u(i)
        <3>1. a \in Int /\ b \in Int /\ p[i] = Lesser(a, b)
            BY <2>1
        <3> HIDE DEF a, b
        <3>2. p[i] <= a /\ p[i] <= b /\ p[i] \in Int
            BY <3>1 DEF Lesser
        <3> QED BY <3>2 DEF a, b
    <2>3. ASSUME NEW j \in 1..i PROVE p[i] <= u(j)
        <3>1. CASE j = i
            BY <3>1, <2>2
        <3>2. CASE j # i
            <4>1. j \in 1..(i - 1) /\ j \in 1..n
                BY <3>2, <1>1
            <4>2. p[i - 1] <= u(j) /\ u(j) \in Int
                BY <4>1, <1>7, <1>2, <1>1
            <4> QED BY <4>2, <2>1, <2>2
        <3> QED BY <3>1, <3>2
    <2> QED BY <2>3, <1>1
<1>8. n \in Z
    <2> HIDE DEF Z, n
    <2>1. \A i \in 0..n : i \in Z
        BY <1>1, <1>6, <1>7, SetInduction
    <2> QED BY <1>1, <2>1
<1>9. r.condChecks = <<>> => n = 0
    OBVIOUS
<1>10. \A i \in DOMAIN r.condChecks : earliestCheck(r) <= u(i)
    BY <1>1, <1>5, <1>8
<1>11. earliestCheck(r) \in lo..Inf
    BY <1>1, <1>5
<1> QED BY <1>5, <1>9, <1>10, <1>11 DEF u

\* Relay::updateA.  A continuous relay leaves nothing at t or before.
LEMMA BegunHandled ==
    ASSUME design \in Designs, NEW lo \in Nat, NEW ns, NEW r \in Handled(lo, ns)
    PROVE  Begun(r) \in Handled(lo, ns) /\ Begun(r).cStates = r.cStates
<1> DEFINE q == Begun(r)
<1>1. r \in RelayStates /\ Positions(r) /\ Silent(r) /\ Later(r, lo, ns)
    BY DEF Handled
<1>2. q = [r EXCEPT !.count = 0, !.taken = <<>>]
    BY DEF Begun
<1>3. <<>> \in Seq(ActionsTaken) /\ DOMAIN <<>> = {}
    OBVIOUS
<1> HIDE DEF q
<1>4. q \in RelayStates
    BY <1>1, <1>2, <1>3 DEF RelayStates
<1>5. /\ q.condChecks = r.condChecks /\ q.cStates = r.cStates
      /\ q.nextUpdateTime = r.nextUpdateTime /\ q.nextSampleTime = r.nextSampleTime
      /\ q.taken = <<>>
    BY <1>1, <1>2 DEF RelayStates
<1>6. Positions(q) /\ Silent(q) /\ Later(q, lo, ns)
    BY <1>1, <1>3, <1>5 DEF Positions, Silent, Later
<1> QED BY <1>4, <1>5, <1>6 DEF Handled, q

UpdateStart(r) == [Begun(r) EXCEPT !.condChecks = <<>>, !.nextUpdateTime = Inf]

LEMMA StartHandled ==
    ASSUME design \in Designs, NEW t \in 0..Horizon, NEW ns, NEW r \in Handled(0, ns)
    PROVE  /\ UpdateStart(r) \in Handled(t + 1, ns)
           /\ \A j \in DOMAIN r.condChecks : Evaluable(UpdateStart(r), r.condChecks[j])
           /\ r.condChecks \in Seq(CondChecks)
<1> DEFINE b == Begun(r)
           q == UpdateStart(r)
<1>1. r \in RelayStates /\ Positions(r) /\ Silent(r) /\ Later(r, 0, ns)
    BY DEF Handled
<1>2. b \in Handled(0, ns) /\ b.cStates = r.cStates
    BY BegunHandled
<1>3. b \in RelayStates /\ Positions(b) /\ Silent(b) /\ Later(b, 0, ns) /\ b.taken = <<>>
    BY <1>1, <1>2 DEF Handled, Begun, RelayStates
<1>4. q = [b EXCEPT !.condChecks = <<>>, !.nextUpdateTime = Inf]
    BY DEF UpdateStart
<1>5. /\ <<>> \in Seq(CondChecks) /\ DOMAIN <<>> = {}
      /\ Inf \in 0..Inf /\ Inf >= t + 1
    BY DesignFacts
<1> HIDE DEF q, b
<1>6. q \in RelayStates
    BY <1>3, <1>4, <1>5 DEF RelayStates
<1>7. /\ q.condChecks = <<>> /\ q.cStates = r.cStates /\ q.taken = <<>>
      /\ q.nextUpdateTime = Inf /\ q.nextSampleTime = b.nextSampleTime
    BY <1>2, <1>3, <1>4 DEF RelayStates
<1>8. Positions(q) /\ Silent(q) /\ Later(q, t + 1, ns)
    BY <1>3, <1>5, <1>7 DEF Positions, Silent, Later
<1>9. \A j \in DOMAIN r.condChecks : Evaluable(q, r.condChecks[j])
    BY <1>1, <1>7, ConditionsOf DEF Evaluable, Positions, Silent
<1>10. r.condChecks \in Seq(CondChecks)
    BY <1>1 DEF RelayStates
<1> QED BY <1>6, <1>8, <1>9, <1>10 DEF Handled, q

\* The state of updateA before it looks at the conditions
Waiting(r, l, t) ==
    LET due == evaluateCondChecks(UpdateStart(r), r.condChecks, t, l)
    IN  [due EXCEPT !.nextUpdateTime = earliestCheck(due)]

LEMMA WaitingHandled ==
    ASSUME design \in Designs, NEW t \in 0..Horizon, NEW ns, NEW r \in Handled(0, ns),
           NEW l
    PROVE  Waiting(r, l, t) \in Handled(t + 1, ns)
<1> DEFINE due == evaluateCondChecks(UpdateStart(r), r.condChecks, t, l)
           e == earliestCheck(due)
           q == Waiting(r, l, t)
<1>1. t + 1 \in 0..(t + 1) /\ t + 1 \in Nat
    BY DesignFacts
<1>2. due \in Handled(t + 1, ns)
    BY <1>1, StartHandled, EvaluateAllHandled
<1>3. due \in RelayStates /\ Positions(due) /\ Silent(due) /\ Later(due, t + 1, ns)
    BY <1>2 DEF Handled
<1> HIDE DEF due
<1>4. e \in (t + 1)..Inf
    BY <1>1, <1>3, EarliestIs
<1>5. e \in 0..Inf /\ e >= t + 1
    BY <1>1, <1>4, DesignFacts
<1>6. q = [due EXCEPT !.nextUpdateTime = e]
    BY DEF Waiting, due
<1> HIDE DEF e, q
<1>7. q \in RelayStates
    BY <1>3, <1>5, <1>6 DEF RelayStates
<1>8. /\ q.condChecks = due.condChecks /\ q.cStates = due.cStates
      /\ q.taken = due.taken /\ q.nextUpdateTime = e
      /\ q.nextSampleTime = due.nextSampleTime
    BY <1>3, <1>6 DEF RelayStates
<1>9. Positions(q) /\ Silent(q) /\ Later(q, t + 1, ns)
    BY <1>3, <1>5, <1>8 DEF Positions, Silent, Later
<1> QED BY <1>7, <1>9 DEF Handled, q

LEMMA SampleDueHandled ==
    ASSUME design \in Designs, NEW t \in 0..Horizon, NEW ns \in 1..Inf, ns <= t,
           NEW r \in Handled(t + 1, ns), NEW l
    PROVE  sampleDue(r, l, t) \in Handled(0, ns + Period)
<1> DEFINE s == sample(r, l, t, 0)
           next == s.nextSampleTime + Period
           u == Lesser(s.nextUpdateTime, next)
           q == sampleDue(r, l, t)
<1>1. t + 1 \in 0..(t + 1) /\ t + 1 \in Nat /\ 0 \in Nat
    BY DesignFacts
<1>2. s \in Handled(t + 1, ns)
    BY <1>1, SampleHandled
<1>3. s \in RelayStates /\ Positions(s) /\ Silent(s) /\ Later(s, t + 1, ns)
    BY <1>2 DEF Handled
<1>4. s.nextSampleTime = ns /\ s.nextUpdateTime \in 0..Inf
    BY <1>3 DEF Later, RelayStates
<1> HIDE DEF s
<1>5. next \in 1..Inf /\ next = ns + Period
    <2>1. Period \in 1..(Inf - Horizon) /\ Horizon \in Nat /\ Inf \in Nat
        BY DesignFacts
    <2> HIDE DEF next
    <2> QED BY <1>4, <2>1 DEF next
<1>6. u \in 0..Inf
    <2> HIDE DEF next
    <2> QED BY <1>4, <1>5 DEF Lesser
<1>7. q = [s EXCEPT !.nextSampleTime = next, !.nextUpdateTime = u]
    BY DEF sampleDue, s
<1> HIDE DEF next, u, q
<1>8. q \in RelayStates
    BY <1>3, <1>5, <1>6, <1>7 DEF RelayStates
<1>9. /\ q.condChecks = s.condChecks /\ q.cStates = s.cStates
      /\ q.taken = s.taken /\ q.nextUpdateTime = u /\ q.nextSampleTime = next
    BY <1>3, <1>7 DEF RelayStates
<1>10. \A i \in DOMAIN q.condChecks : q.condChecks[i].testTime >= 0
    BY <1>8, ConditionsOf DEF CondChecks
<1>11. Positions(q) /\ Silent(q) /\ Later(q, 0, ns + Period)
    BY <1>3, <1>5, <1>6, <1>9, <1>10 DEF Positions, Silent, Later
<1> QED BY <1>8, <1>11 DEF Handled, q

\* A later bound is a bound.
LEMMA HandledWeaken ==
    ASSUME NEW lo \in Nat, NEW ns, NEW r \in Handled(lo, ns)
    PROVE  r \in Handled(0, ns)
<1>1. r.nextUpdateTime \in 0..Inf
    BY DEF Handled, RelayStates
<1>2. \A i \in DOMAIN r.condChecks : r.condChecks[i].testTime >= 0
    BY ConditionsOf DEF CondChecks, Handled
<1> QED BY <1>1, <1>2 DEF Handled, Later

LEMMA UpdateACases ==
    ASSUME NEW r, NEW l, NEW t
    PROVE  updateA(r, l, t) = IF Continuous THEN sample(Waiting(r, l, t), l, t, 0)
                              ELSE IF t >= r.nextSampleTime
                              THEN sampleDue(Waiting(r, l, t), l, t)
                              ELSE Waiting(r, l, t)
BY DEF updateA, Waiting, UpdateStart

LEMMA UpdateAHandled ==
    ASSUME design \in Designs, NEW t \in 0..Horizon, NEW ns, NEW r \in Handled(0, ns),
           NEW l
    PROVE  /\ Continuous => updateA(r, l, t) \in Handled(t + 1, ns)
           /\ ~Continuous /\ t >= ns => updateA(r, l, t) \in Handled(0, ns + Period)
           /\ ~Continuous /\ ~(t >= ns) => updateA(r, l, t) \in Handled(t + 1, ns)
<1> DEFINE w == Waiting(r, l, t)
<1>1. w \in Handled(t + 1, ns)
    BY WaitingHandled
<1>2. t + 1 \in 0..(t + 1) /\ 0 \in Nat
    BY DesignFacts
<1>3. r.nextSampleTime = ns /\ ns \in 1..Inf
    BY DEF Handled, Later, RelayStates
<1> HIDE DEF w
<1>4. updateA(r, l, t) = IF Continuous THEN sample(w, l, t, 0)
                         ELSE IF t >= ns THEN sampleDue(w, l, t) ELSE w
    BY <1>3, UpdateACases DEF w
<1>5. sample(w, l, t, 0) \in Handled(t + 1, ns)
    BY <1>1, <1>2, SampleHandled
<1>6. t >= ns => sampleDue(w, l, t) \in Handled(0, ns + Period)
    BY <1>1, <1>3, SampleDueHandled
<1> QED BY <1>1, <1>4, <1>5, <1>6

\* The checks that are left are checks of other conditions.
LEMMA WithoutIs ==
    ASSUME NEW checks \in Seq(CondChecks), NEW c
    PROVE  /\ checksWithout(checks, c) \in Seq(CondChecks)
           /\ \A i \in DOMAIN checksWithout(checks, c) :
                \E j \in DOMAIN checks : /\ checksWithout(checks, c)[i] = checks[j]
                                         /\ checks[j].cond # c
<1> DEFINE OK(s) == \A i \in DOMAIN s :
                        \E j \in DOMAIN checks : s[i] = checks[j] /\ checks[j].cond # c
           S == {s \in Seq(CondChecks) : OK(s)}
           n == Len(checks)
<1>1. n \in Nat /\ DOMAIN checks = 1..n
    OBVIOUS
<1>2. <<>> \in S
    OBVIOUS
<1>3. ASSUME NEW s \in S, NEW i \in 1..n, checks[i].cond # c
      PROVE  Append(s, checks[i]) \in S
    <2> DEFINE q == Append(s, checks[i])
    <2>1. checks[i] \in CondChecks /\ i \in DOMAIN checks
        BY <1>1, ElementOf
    <2>2. s \in Seq(CondChecks) /\ OK(s)
        OBVIOUS
    <2>3. q \in Seq(CondChecks)
        BY <2>1, <2>2
    <2>4. \A k \in DOMAIN q : (k \in DOMAIN s /\ q[k] = s[k]) \/ q[k] = checks[i]
        BY <2>1, <2>2
    <2> HIDE DEF q, n
    <2>5. OK(q)
        BY <1>3, <2>1, <2>2, <2>4
    <2> QED BY <2>3, <2>5 DEF q
<1> HIDE DEF S, n
<1>4. WithoutClosed(S, n, checks, c)
    BY <1>3 DEF WithoutClosed
<1>5. PICK p : WithoutRun(p, S, n, checks, c)
    BY <1>1, <1>2, <1>4, WithoutFold
<1>6. checksWithout(checks, c) \in S
    BY <1>1, <1>5 DEF WithoutRun
<1> QED BY <1>6 DEF S

\* What clearCondChecks leaves, with the next update at u
Cleaned(r, c, u) ==
    [r EXCEPT !.condChecks = checksWithout(r.condChecks, c), !.nextUpdateTime = u]

\* u is the earliest of the update and the checks that are left.
Earliest(r, c, u) ==
    /\ u \in 0..Inf /\ u <= r.nextUpdateTime
    /\ u = r.nextUpdateTime \/ \E j \in DOMAIN r.condChecks : u = r.condChecks[j].testTime
    /\ \A i \in DOMAIN checksWithout(r.condChecks, c) :
            u <= checksWithout(r.condChecks, c)[i].testTime

LEMMA ClearCases ==
    ASSUME design \in Designs, NEW r \in RelayStates, NEW c
    PROVE  \E u : /\ Earliest(r, c, u)
                  /\ clearCondChecks(r, c) = IF u # r.nextUpdateTime
                                             THEN alerted(Cleaned(r, c, u))
                                             ELSE Cleaned(r, c, u)
<1> DEFINE left == checksWithout(r.condChecks, c)
           times == {left[i].testTime : i \in DOMAIN left} \cup {r.nextUpdateTime}
           first == CHOOSE t \in times : \A u \in times : t <= u
<1>1. /\ left \in Seq(CondChecks)
      /\ \A i \in DOMAIN left : \E j \in DOMAIN r.condChecks :
                left[i] = r.condChecks[j] /\ r.condChecks[j].cond # c
    BY WithoutIs DEF RelayStates
<1> HIDE DEF left
<1>2. \A i \in DOMAIN left : left[i].testTime \in 0..Inf
    <2>1. \A i \in DOMAIN left : left[i] \in CondChecks
        BY <1>1, ElementOf
    <2> QED BY <2>1 DEF CondChecks
<1>3. r.nextUpdateTime \in 0..Inf
    BY DEF RelayStates
<1>4. times \in SUBSET (0..Inf) /\ times \in SUBSET Nat /\ times # {}
    BY <1>2, <1>3
<1>5. \E t \in times : \A u \in times : t <= u
    <2> HIDE DEF times
    <2> QED BY <1>4, LeastElement
<1>6. first \in times /\ \A u \in times : first <= u
    BY <1>5
<1> HIDE DEF first
<1>7. Earliest(r, c, first)
    BY <1>1, <1>4, <1>6 DEF Earliest, left
<1>8. clearCondChecks(r, c) = IF first # r.nextUpdateTime
                              THEN alerted(Cleaned(r, c, first))
                              ELSE Cleaned(r, c, first)
    BY DEF clearCondChecks, Cleaned, first, left
<1> QED BY <1>7, <1>8

\* Only checks of c may be checks of a DISABLED condition.
SilentBut(r, c) ==
    /\ \A i \in DOMAIN r.condChecks :
            r.condChecks[i].cond # c => r.cStates[r.condChecks[i].cond] # "DISABLED"
    /\ \A i \in DOMAIN r.taken : r.cStates[r.taken[i].cond] # "DISABLED"

LEMMA ClearHandled ==
    ASSUME design \in Designs, NEW lo \in Nat, NEW ns, NEW r \in RelayStates, NEW c,
           Positions(r), SilentBut(r, c), Later(r, lo, ns)
    PROVE  /\ clearCondChecks(r, c) \in Handled(lo, ns)
           /\ clearCondChecks(r, c).cStates = r.cStates
<1> DEFINE left == checksWithout(r.condChecks, c)
<1>1. PICK u : /\ Earliest(r, c, u)
               /\ clearCondChecks(r, c) = IF u # r.nextUpdateTime
                                          THEN alerted(Cleaned(r, c, u))
                                          ELSE Cleaned(r, c, u)
    BY ClearCases
<1>2. /\ left \in Seq(CondChecks)
      /\ \A i \in DOMAIN left : \E j \in DOMAIN r.condChecks :
                left[i] = r.condChecks[j] /\ r.condChecks[j].cond # c
    BY WithoutIs DEF RelayStates
<1>3. u \in 0..Inf /\ u >= lo
    BY <1>1 DEF Earliest, Later
<1> DEFINE q == Cleaned(r, c, u)
<1>4. q = [r EXCEPT !.condChecks = left, !.nextUpdateTime = u]
    BY DEF Cleaned
<1> HIDE DEF left, q
<1>5. q \in RelayStates
    BY <1>2, <1>3, <1>4 DEF RelayStates
<1>6. /\ q.condChecks = left /\ q.cStates = r.cStates /\ q.taken = r.taken
      /\ q.nextUpdateTime = u /\ q.nextSampleTime = r.nextSampleTime
    BY <1>4 DEF RelayStates
<1>7. Positions(q) /\ Silent(q) /\ Later(q, lo, ns)
    <2>1. Positions(q)
        BY <1>2, <1>6 DEF Positions
    <2>2. Silent(q)
        BY <1>2, <1>6 DEF Silent, SilentBut
    <2>3. Later(q, lo, ns)
        BY <1>2, <1>3, <1>6 DEF Later
    <2> QED BY <2>1, <2>2, <2>3
<1>8. alerted(q) \in RelayStates
    BY <1>5, AlertedType
<1>9. /\ alerted(q).condChecks = q.condChecks /\ alerted(q).cStates = q.cStates
      /\ alerted(q).nextUpdateTime = q.nextUpdateTime /\ alerted(q).taken = q.taken
      /\ alerted(q).nextSampleTime = q.nextSampleTime
    BY <1>5 DEF alerted, RelayStates
<1>10. Positions(alerted(q)) /\ Silent(alerted(q)) /\ Later(alerted(q), lo, ns)
    BY <1>7, <1>9 DEF Positions, Silent, Later
<1>11. clearCondChecks(r, c) \in {q, alerted(q)}
    BY <1>1 DEF q
<1> QED BY <1>5, <1>6, <1>7, <1>8, <1>9, <1>10, <1>11 DEF Handled

\* One condition with a root
LEMMA RootStepHandled ==
    ASSUME design \in Designs, NEW t \in 0..Horizon, NEW ns, NEW r \in Handled(0, ns),
           NEW k \in Nat, NEW c \in Conditions, NEW mask, NEW s,
           s = [r |-> r, position |-> k]
    PROVE  /\ rootStep(s, c, t, mask).r \in Handled(0, ns)
           /\ rootStep(s, c, t, mask).position \in Nat
           /\ rootStep(s, c, t, mask)
                = [r |-> rootStep(s, c, t, mask).r,
                   position |-> rootStep(s, c, t, mask).position]
<1>1. s.r = r /\ s.position = k
    OBVIOUS
<1>2. 0 \in Nat /\ 0 \in 0..(t + 1)
    BY DesignFacts
<1>3. triggerCondition(r, c, t, 0) \in Handled(0, ns)
    BY <1>2, TriggerConditionHandled
<1>4. clearCondChecks(cleared(r, c), c) \in Handled(0, ns)
    <2> DEFINE q == cleared(r, c)
    <2>1. q \in Handled(0, ns)
        BY <1>2, ClearedHandled
    <2> HIDE DEF q
    <2>2. q \in RelayStates /\ Positions(q) /\ SilentBut(q, c) /\ Later(q, 0, ns)
        BY <2>1 DEF Handled, Silent, SilentBut
    <2>3. clearCondChecks(q, c) \in Handled(0, ns)
        BY <1>2, <2>2, ClearHandled
    <2> QED BY <2>3 DEF q
<1> DEFINE a == triggerCondition(r, c, t, 0)
           b == clearCondChecks(cleared(r, c), c)
<1>5. rootStep(s, c, t, mask) \in {s, [r |-> a, position |-> k + 1],
                                   [r |-> r, position |-> k + 1],
                                   [r |-> b, position |-> k + 1]}
    BY <1>1 DEF rootStep
<1> HIDE DEF a, b
<1>6. a \in Handled(0, ns) /\ b \in Handled(0, ns)
    BY <1>3, <1>4 DEF a, b
<1> QED BY <1>5, <1>6

\* The states of the loop of rootTrigger
LEMMA RootPath ==
    ASSUME design \in Designs, NEW t \in 0..Horizon, NEW ns, NEW r \in Handled(0, ns),
           NEW mask
    PROVE  \E p : RootStepsRun(p, [r : Handled(0, ns), position : Nat],
                              Len(r.withRoots), r, t, mask)
<1> DEFINE S == [r : Handled(0, ns), position : Nat]
           n == Len(r.withRoots)
<1>1. /\ n \in Nat /\ DOMAIN r.withRoots = 1..n
      /\ \A i \in 1..n : r.withRoots[i] \in Conditions
    BY ElementOf DEF Handled, RelayStates
<1>2. [r |-> Begun(r), position |-> 1] \in S
    <2>1. 0 \in Nat
        OBVIOUS
    <2>2. Begun(r) \in Handled(0, ns)
        BY <2>1, BegunHandled
    <2> QED BY <2>2
<1>3. ASSUME NEW s \in S, NEW i \in 1..n
      PROVE  rootStep(s, r.withRoots[i], t, mask) \in S
    <2> DEFINE q == rootStep(s, r.withRoots[i], t, mask)
               h == s.r
               k == s.position
    <2>1. h \in Handled(0, ns) /\ k \in Nat /\ s = [r |-> h, position |-> k]
        OBVIOUS
    <2>2. r.withRoots[i] \in Conditions
        BY <1>1
    <2> HIDE DEF h, k
    <2>3. q.r \in Handled(0, ns) /\ q.position \in Nat
          /\ q = [r |-> q.r, position |-> q.position]
        BY <2>1, <2>2, RootStepHandled
    <2> HIDE DEF q
    <2>4. q \in S
        BY <2>3
    <2> QED BY <2>4 DEF q
<1> HIDE DEF S, n
<1>4. RootStepsClosed(S, n, r, t, mask)
    BY <1>3 DEF RootStepsClosed
<1>5. \E p : RootStepsRun(p, S, n, r, t, mask)
    BY <1>1, <1>2, <1>4, RootStepsFold
<1> QED BY <1>5 DEF S, n

LEMMA RootTriggerHandled ==
    ASSUME design \in Designs, NEW t \in 0..Horizon, NEW ns, NEW r \in Handled(0, ns),
           NEW mask
    PROVE  rootTrigger(r, t, mask) \in Handled(0, ns)
<1> DEFINE S == [r : Handled(0, ns), position : Nat]
           n == Len(r.withRoots)
<1>1. n \in Nat /\ 0 \in Nat
    BY DEF Handled, RelayStates
<1>2. PICK p : RootStepsRun(p, S, n, r, t, mask)
    BY RootPath
<1> HIDE DEF S, n
<1>3. rootSteps(r, t, mask) \in Handled(0, ns)
    <2>1. p[n] \in S /\ p[n].r = rootSteps(r, t, mask)
        BY <1>1, <1>2 DEF RootStepsRun
    <2> QED BY <2>1 DEF S
<1> QED BY <1>1, <1>3, UpdateRootsHandled DEF rootTrigger

\* CoreObject::updateB: a sampled relay's update goes past t.
LEMMA UpdateBHandled ==
    ASSUME design \in Designs, NEW t \in 0..Horizon, NEW ns, NEW r \in Handled(0, ns),
           Continuous => r.nextUpdateTime > t
    PROVE  /\ updateB(r, t) \in Handled(0, ns) /\ updateB(r, t).cStates = r.cStates
           /\ updateB(r, t).nextUpdateTime > t
<1>1. CASE r.nextUpdateTime > t
    BY <1>1 DEF updateB
<1>2. CASE ~(r.nextUpdateTime > t)
    <2> DEFINE v == r.nextUpdateTime
               u == v + ((t - v) \div Period + 1) * Period
               q == [r EXCEPT !.nextUpdateTime = u]
    <2>1. ~Continuous /\ UpdatePeriod = Period
        BY <1>2 DEF UpdatePeriod
    <2>2. /\ r \in RelayStates /\ Positions(r) /\ Silent(r) /\ Later(r, 0, ns)
          /\ v \in 0..Inf
        BY DEF Handled, RelayStates
    <2>3. u > t /\ u <= t + Period /\ u \in Int
        <3> DEFINE a == t - v
                   b == a \div Period
        <3>1. a \in Nat /\ t \in Nat /\ v \in Nat /\ Period \in Nat \ {0}
            BY <1>2, <2>2, DesignFacts
        <3> HIDE DEF v
        <3>2. b \in Int /\ a = t - v
            BY <3>1
        <3> HIDE DEF a
        <3>3. Period * b <= a /\ a < Period * (b + 1)
            BY <3>1
        <3> HIDE DEF b
        <3>4. u = v + (b + 1) * Period
            BY DEF a, b
        <3>5. Period * b \in Int /\ (b + 1) * Period = Period * b + Period
            BY <3>1, <3>2
        <3> DEFINE z == Period * b
        <3>6. Period * (b + 1) = z + Period
            BY <3>1, <3>2
        <3>7. z <= a /\ a < z + Period /\ z \in Int /\ u = v + (z + Period)
            BY <3>3, <3>4, <3>5, <3>6
        <3> HIDE DEF z, u
        <3> QED BY <3>1, <3>2, <3>7
    <2>4. u \in 0..Inf /\ u >= 0
        <3>1. Period \in 1..(Inf - Horizon) /\ Horizon \in Nat /\ Inf \in Nat /\ t \in Nat
            BY DesignFacts
        <3> HIDE DEF u
        <3> QED BY <2>3, <3>1
    <2>5. updateB(r, t) = q
        BY <1>2, <2>1 DEF updateB
    <2> HIDE DEF u
    <2>6. q \in RelayStates
        BY <2>2, <2>4 DEF RelayStates
    <2>7. /\ q.condChecks = r.condChecks /\ q.cStates = r.cStates /\ q.taken = r.taken
          /\ q.nextUpdateTime = u /\ q.nextSampleTime = r.nextSampleTime
        BY <2>2 DEF RelayStates
    <2> HIDE DEF q
    <2>8. Positions(q) /\ Silent(q) /\ Later(q, 0, ns)
        BY <2>2, <2>4, <2>7 DEF Positions, Silent, Later
    <2> QED BY <2>3, <2>5, <2>6, <2>7, <2>8 DEF Handled
<1> QED BY <1>1, <1>2

\* A change of the other members does not matter.
LEMMA HandledSame ==
    ASSUME NEW lo, NEW ns, NEW r \in Handled(lo, ns), NEW q \in RelayStates,
           q.condChecks = r.condChecks, q.cStates = r.cStates, q.taken = r.taken,
           q.nextUpdateTime = r.nextUpdateTime, q.nextSampleTime = r.nextSampleTime
    PROVE  q \in Handled(lo, ns)
BY DEF Handled, Positions, Silent, Later

Locked(r) == [r EXCEPT !.locked = TRUE]
Hung(r) == [r EXCEPT !.hung = TRUE]
Rescheduled(r) == [r EXCEPT !.scheduled = r.nextUpdateTime, !.locked = FALSE]

LEMMA LockHandled ==
    ASSUME NEW lo, NEW ns, NEW r \in Handled(lo, ns)
    PROVE  /\ Locked(r) \in Handled(lo, ns) /\ Hung(r) \in Handled(lo, ns)
           /\ Rescheduled(r) \in Handled(lo, ns)
<1>1. r \in RelayStates
    BY DEF Handled
<1>2. Locked(r) \in Handled(lo, ns)
    BY <1>1, HandledSame DEF RelayStates, Locked
<1>3. Hung(r) \in Handled(lo, ns)
    BY <1>1, HandledSame DEF RelayStates, Hung
<1>4. Rescheduled(r) \in Handled(lo, ns)
    BY <1>1, HandledSame DEF RelayStates, Rescheduled
<1> QED BY <1>2, <1>3, <1>4

\* The relay at the end of update
LEMMA UpdateHandled ==
    ASSUME design \in Designs, NEW t \in 0..Horizon, NEW ns, NEW r \in Handled(0, ns),
           NEW l
    PROVE  \E m : updateB(updateA(Locked(r), l, t), t) \in Handled(0, m)
<1> DEFINE w == Locked(r)
           a == updateA(w, l, t)
<1>1. w \in Handled(0, ns)
    BY LockHandled
<1> HIDE DEF w
<1>2. /\ Continuous => a \in Handled(t + 1, ns)
      /\ ~Continuous => \E m : a \in Handled(0, m)
    <2>1. /\ Continuous => a \in Handled(t + 1, ns)
          /\ ~Continuous /\ t >= ns => a \in Handled(0, ns + Period)
          /\ ~Continuous /\ ~(t >= ns) => a \in Handled(t + 1, ns)
        BY <1>1, UpdateAHandled
    <2>2. t + 1 \in Nat
        BY DesignFacts
    <2>3. a \in Handled(t + 1, ns) => a \in Handled(0, ns)
        BY <2>2, HandledWeaken
    <2> QED BY <2>1, <2>3
<1> HIDE DEF a
<1>3. \E m : a \in Handled(0, m)
    <2>1. t + 1 \in Nat
        BY DesignFacts
    <2>2. a \in Handled(t + 1, ns) => a \in Handled(0, ns)
        BY <2>1, HandledWeaken
    <2> QED BY <1>2, <2>2
<1>4. Continuous => a.nextUpdateTime > t
    <2>1. Continuous => a.nextUpdateTime >= t + 1 /\ a.nextUpdateTime \in 0..Inf
        BY <1>2 DEF Handled, Later, RelayStates
    <2>2. t \in Nat
        BY DesignFacts
    <2> QED BY <2>1, <2>2
<1>5. PICK m : a \in Handled(0, m)
    BY <1>3
<1>6. updateB(a, t) \in Handled(0, m)
    BY <1>4, <1>5, UpdateBHandled
<1> QED BY <1>6 DEF a, w

-----------------------------------------------------------------------------
(* Type correctness, and silence of what is DISABLED                       *)

\* Between two handlers the relay is in a state that a handler may start from.
IInv == TypeOK /\ relay \in Handled(0, relay.nextSampleTime)

LEMMA InitHandled ==
    ASSUME Init PROVE IInv
<1> USE DEF Init
<1>0. design \in Designs
    OBVIOUS
<1> DEFINE first == IF Continuous THEN Inf ELSE Period
           cs == [c \in Conditions |-> "ACTIVE"]
           w == IF Continuous THEN RootsOf(cs) ELSE <<>>
<1>1. /\ first \in 1..Inf /\ first \in 0..Inf /\ Horizon \in Nat /\ Inf \in Nat
      /\ Continuous \in BOOLEAN
    BY <1>0, DesignFacts
<1>2. w \in Seq(Conditions)
    BY <1>0, RootsType
<1>3. /\ <<>> \in Seq(CondChecks) /\ <<>> \in Seq(ActionsTaken) /\ DOMAIN <<>> = {}
    OBVIOUS
<1>4. /\ relay.condChecks = <<>> /\ relay.taken = <<>> /\ relay.nextUpdateTime = first
      /\ relay.nextSampleTime = first
    OBVIOUS
<1>5. relay = [cStates        |-> cs,
                margin         |-> [c \in Conditions |-> FALSE],
                triggerTimes   |-> [c \in Conditions |-> 0],
                condChecks     |-> <<>>,
                withRoots      |-> w,
                nextUpdateTime |-> first,
                nextSampleTime |-> first,
                updates        |-> ~Continuous,
                scheduled      |-> first,
                locked         |-> FALSE,
                hung           |-> FALSE,
                count          |-> 0,
                taken          |-> <<>>]
    OBVIOUS
<1>6. relay \in RelayStates
    <2>1. /\ cs \in [Conditions -> {"ACTIVE", "TRIGGERED", "DISABLED"}]
          /\ [c \in Conditions |-> FALSE] \in [Conditions -> BOOLEAN]
          /\ [c \in Conditions |-> 0] \in [Conditions -> 0..Horizon]
          /\ (~Continuous) \in BOOLEAN
        BY <1>1
    <2> HIDE DEF cs, w, first, Init
    <2> QED BY <1>1, <1>2, <1>3, <1>5, <2>1 DEF RelayStates
<1>7. Positions(relay) /\ Silent(relay) /\ Later(relay, 0, relay.nextSampleTime)
    BY <1>1, <1>3, <1>4 DEF Positions, Silent, Later
<1>8. /\ time \in 0..Horizon /\ level \in [Conditions -> 0..2]
      /\ since \in [Conditions -> 0..Inf]
    BY <1>1
<1> QED BY <1>0, <1>6, <1>7, <1>8 DEF IInv, TypeOK, Handled

\* since stays a time or maxTime.
LEMMA WatchType ==
    ASSUME design \in Designs, time \in 0..Horizon, since \in [Conditions -> 0..Inf],
           NEW l, NEW r, Watch(l, r)
    PROVE  since' \in [Conditions -> 0..Inf]
<1>1. time \in 0..Inf /\ Inf \in 0..Inf
    BY DesignFacts
<1>2. \A c \in Conditions : (IF ~Check(l[c], r.margin[c]) THEN Inf
                ELSE IF since[c] = Inf THEN time ELSE since[c]) \in 0..Inf
    BY <1>1
<1> QED BY <1>2 DEF Watch

\* The operators of the constants do not change with the design.
LEMMA NextState ==
    ASSUME design' = design, time' \in 0..Horizon, design \in Designs,
           level' \in [Conditions -> 0..2], since' \in [Conditions -> 0..Inf],
           NEW ns, relay' \in Handled(0, ns)
    PROVE  IInv'
<1>1. Conditions' = Conditions /\ Multi' = Multi
    BY DEF Conditions, Triggers, Multi
<1>2. /\ relay' \in RelayStates /\ Positions(relay') /\ Silent(relay')
      /\ Later(relay', 0, ns) /\ ns = relay'.nextSampleTime
    BY DEF Handled, Later
<1>3. relay' \in RelayStates' /\ CondChecks' = CondChecks
    BY <1>1, <1>2 DEF RelayStates, CondChecks, ActionsTaken
<1>4. Positions(relay)' /\ Silent(relay)' /\ Later(relay, 0, relay.nextSampleTime)'
    BY <1>1, <1>2 DEF Positions, Silent, Later
<1> QED BY <1>1, <1>3, <1>4 DEF IInv, TypeOK, Handled

\* The relay while its condition is switched
Switching(r, c, status) == [r EXCEPT !.cStates[c] = status]
Remargined(r, c, status) == [r EXCEPT !.margin[c] = (status = "TRIGGERED")]

LEMMA SetStatusHandled ==
    ASSUME design \in Designs, NEW ns, NEW r \in Handled(0, ns), NEW c \in Conditions,
           NEW st \in {"ACTIVE", "TRIGGERED"}
    PROVE  /\ clearCondChecks(Switching(Begun(r), c, "DISABLED"), c) \in Handled(0, ns)
           /\ Remargined(Switching(Begun(r), c, st), c, st) \in Handled(0, ns)
<1> DEFINE b == Begun(r)
           q == Switching(b, c, "DISABLED")
           s == Switching(b, c, st)
           v == Remargined(s, c, st)
           m == st = "TRIGGERED"
<1>0. 0 \in Nat
    OBVIOUS
<1>1. b \in Handled(0, ns)
    BY <1>0, BegunHandled
<1>2. b \in RelayStates /\ Positions(b) /\ Silent(b) /\ Later(b, 0, ns) /\ b.taken = <<>>
    BY <1>1 DEF Handled, RelayStates, Begun
<1> HIDE DEF b
<1>3. ASSUME NEW u \in {"ACTIVE", "TRIGGERED", "DISABLED"}, NEW z, z = Switching(b, c, u)
      PROVE  /\ z \in RelayStates
             /\ z.cStates = [b.cStates EXCEPT ![c] = u] /\ z.condChecks = b.condChecks
             /\ z.taken = <<>> /\ z.nextUpdateTime = b.nextUpdateTime
             /\ z.nextSampleTime = b.nextSampleTime
    <2>1. [b.cStates EXCEPT ![c] = u] \in [Conditions -> {"ACTIVE", "TRIGGERED", "DISABLED"}]
        BY <1>2 DEF RelayStates
    <2>2. z = [b EXCEPT !.cStates = [@ EXCEPT ![c] = u]]
        BY <1>3 DEF Switching
    <2> QED BY <1>2, <2>1, <2>2 DEF RelayStates
<1>4. /\ q \in RelayStates
      /\ q.cStates = [b.cStates EXCEPT ![c] = "DISABLED"] /\ q.condChecks = b.condChecks
      /\ q.taken = <<>> /\ q.nextUpdateTime = b.nextUpdateTime
      /\ q.nextSampleTime = b.nextSampleTime
    BY <1>3
<1>5. /\ s \in RelayStates
      /\ s.cStates = [b.cStates EXCEPT ![c] = st] /\ s.condChecks = b.condChecks
      /\ s.taken = <<>> /\ s.nextUpdateTime = b.nextUpdateTime
      /\ s.nextSampleTime = b.nextSampleTime
    BY <1>3
<1>6. \A i \in DOMAIN b.condChecks : b.condChecks[i].cond \in Conditions
    BY <1>2, ConditionsOf
<1>7. b.cStates \in [Conditions -> {"ACTIVE", "TRIGGERED", "DISABLED"}]
    BY <1>2 DEF RelayStates
<1>8. clearCondChecks(q, c) \in Handled(0, ns)
    <2> HIDE DEF q
    <2>1. DOMAIN <<>> = {}
        OBVIOUS
    <2>2. \A k \in Conditions : k # c => q.cStates[k] = b.cStates[k]
        BY <1>4, <1>7
    <2>3. Positions(q) /\ SilentBut(q, c) /\ Later(q, 0, ns)
        BY <1>2, <1>4, <1>6, <2>1, <2>2 DEF Positions, Silent, SilentBut, Later
    <2> QED BY <1>0, <1>4, <2>3, ClearHandled
<1>9. v \in Handled(0, ns)
    <2>1. DOMAIN <<>> = {}
        OBVIOUS
    <2> HIDE DEF s
    <2>2. \A k \in Conditions : b.cStates[k] # "DISABLED" => s.cStates[k] # "DISABLED"
        BY <1>5, <1>7
    <2>3. Positions(s) /\ Silent(s) /\ Later(s, 0, ns)
        BY <1>2, <1>5, <1>6, <2>1, <2>2 DEF Positions, Silent, Later
    <2>4. s \in Handled(0, ns)
        BY <1>5, <2>3 DEF Handled
    <2>5. m \in BOOLEAN
        OBVIOUS
    <2>6. v = [s EXCEPT !.margin = [@ EXCEPT ![c] = m]]
        BY DEF Remargined
    <2> HIDE DEF v, m
    <2>8. [s.margin EXCEPT ![c] = m] \in [Conditions -> BOOLEAN]
        BY <1>5, <2>5 DEF RelayStates
    <2>7. v \in RelayStates /\ v.condChecks = s.condChecks /\ v.cStates = s.cStates
          /\ v.taken = s.taken /\ v.nextUpdateTime = s.nextUpdateTime
          /\ v.nextSampleTime = s.nextSampleTime
        BY <1>5, <2>6, <2>8 DEF RelayStates
    <2> QED BY <2>4, <2>7, HandledSame
<1> QED BY <1>8, <1>9 DEF q, s, v, b

\* Every handler ends in such a state.
LEMMA NextHandled ==
    ASSUME IInv, [Next]_vars
    PROVE  IInv'
<1> DEFINE ns == relay.nextSampleTime
<1>1. /\ design \in Designs /\ time \in 0..Horizon /\ level \in [Conditions -> 0..2]
      /\ since \in [Conditions -> 0..Inf] /\ relay \in Handled(0, ns)
    BY DEF IInv, TypeOK
<1>2. 0 \in Nat /\ Inf \in Nat /\ 0 \in 0..(time + 1) /\ time + 1 \in Nat
    BY <1>1, DesignFacts
<1>3. Begun(relay) \in Handled(0, ns)
    BY <1>1, <1>2, BegunHandled
<1>4. CASE advance
    <2>1. /\ time' \in 0..Horizon /\ design' = design /\ level' = level
          /\ since' = since /\ relay' = Begun(relay)
        BY <1>1, <1>4, DesignFacts DEF advance
    <2> QED BY <1>1, <1>3, <2>1, NextState
<1>5. CASE update
    <2> DEFINE r == updateB(updateA(Locked(relay), level, time), time)
    <2>1. PICK m : r \in Handled(0, m)
        BY <1>1, UpdateHandled
    <2>2. relay' = IF r.hung THEN Hung(Begun(relay)) ELSE Rescheduled(r)
        BY <1>5 DEF update, Locked, Hung, Rescheduled
    <2> HIDE DEF r
    <2>3. Hung(Begun(relay)) \in Handled(0, ns) /\ Rescheduled(r) \in Handled(0, m)
        BY <1>3, <2>1, LockHandled
    <2>4. \E k : relay' \in Handled(0, k)
        BY <2>2, <2>3
    <2>5. since' \in [Conditions -> 0..Inf]
        <3>1. \E w : Watch(level, w)
            BY <1>5 DEF update
        <3> QED BY <1>1, <3>1, WatchType
    <2>6. design' = design /\ time' = time /\ level' = level
        BY <1>5 DEF update
    <2> QED BY <1>1, <2>4, <2>5, <2>6, NextState
<1>6. ASSUME NEW c \in Conditions, NEW st \in {"ACTIVE", "TRIGGERED", "DISABLED"},
             setConditionStatus(c, st)
      PROVE  IInv'
    <2> DEFINE a == clearCondChecks(Switching(Begun(relay), c, "DISABLED"), c)
               b == Remargined(Switching(Begun(relay), c, st), c, st)
    <2>1. a \in Handled(0, ns) /\ (st # "DISABLED" => b \in Handled(0, ns))
        BY <1>1, SetStatusHandled
    <2>2. relay' = IF st = "DISABLED" THEN updateRootCount(a) ELSE updateRootCount(b)
        BY <1>6 DEF setConditionStatus, Switching, Remargined
    <2> HIDE DEF a, b
    <2>3. relay' \in Handled(0, ns)
        BY <1>1, <1>2, <2>1, <2>2, UpdateRootsHandled
    <2>4. since' \in [Conditions -> 0..Inf]
        <3>1. \E w : Watch(level, w)
            BY <1>6 DEF setConditionStatus
        <3> QED BY <1>1, <3>1, WatchType
    <2>5. design' = design /\ time' = time /\ level' = level
        BY <1>6 DEF setConditionStatus
    <2> QED BY <1>1, <2>3, <2>4, <2>5, NextState
<1>7. CASE rootCheck
    <2> DEFINE r == updateA(relay, level, time)
    <2>1. \E m : r \in Handled(0, m)
        <3>1. /\ Continuous => r \in Handled(time + 1, ns)
              /\ ~Continuous /\ time >= ns => r \in Handled(0, ns + Period)
              /\ ~Continuous /\ ~(time >= ns) => r \in Handled(time + 1, ns)
            <4> HIDE DEF ns
            <4> QED BY <1>1, UpdateAHandled
        <3>2. r \in Handled(time + 1, ns) => r \in Handled(0, ns)
            BY <1>2, HandledWeaken
        <3> QED BY <3>1, <3>2
    <2>2. PICK m : r \in Handled(0, m)
        BY <2>1
    <2>3. relay' = IF r.count # 0 THEN updateRootCount(alerted(r)) ELSE r
        BY <1>7 DEF rootCheck
    <2> HIDE DEF r
    <2>4. alerted(r) \in Handled(0, m)
        <3>1. r \in RelayStates /\ alerted(r) \in RelayStates
            BY <1>1, <2>2, AlertedType DEF Handled
        <3>2. /\ alerted(r).condChecks = r.condChecks /\ alerted(r).cStates = r.cStates
              /\ alerted(r).nextUpdateTime = r.nextUpdateTime /\ alerted(r).taken = r.taken
              /\ alerted(r).nextSampleTime = r.nextSampleTime
            BY <3>1 DEF alerted, RelayStates
        <3> QED BY <2>2, <3>1, <3>2, HandledSame
    <2>5. updateRootCount(alerted(r)) \in Handled(0, m)
        BY <1>1, <1>2, <2>4, UpdateRootsHandled
    <2>6. relay' \in Handled(0, m)
        BY <2>2, <2>3, <2>5
    <2>7. since' \in [Conditions -> 0..Inf]
        <3>1. \E w : Watch(level, w)
            BY <1>7 DEF rootCheck
        <3> QED BY <1>1, <3>1, WatchType
    <2>8. design' = design /\ time' = time /\ level' = level
        BY <1>7 DEF rootCheck
    <2> QED BY <1>1, <2>6, <2>7, <2>8, NextState
<1>8. CASE powerFlowAdjust
    <2>1. relay' = sample(Begun(relay), level, time, Inf)
        BY <1>8 DEF powerFlowAdjust
    <2>2. relay' \in Handled(0, ns)
        BY <1>1, <1>2, <1>3, <2>1, SampleHandled
    <2>3. since' \in [Conditions -> 0..Inf]
        <3>1. \E w : Watch(level, w)
            BY <1>8 DEF powerFlowAdjust
        <3> QED BY <1>1, <3>1, WatchType
    <2>4. design' = design /\ time' = time /\ level' = level
        BY <1>8 DEF powerFlowAdjust
    <2> QED BY <1>1, <2>2, <2>3, <2>4, NextState
<1>9. ASSUME NEW l \in [Conditions -> 0..2], gridMoves(l)
      PROVE  IInv'
    <2>1. \/ relay' = Begun(relay)
          \/ \E mask : relay' = rootTrigger(relay, time, mask)
        BY <1>9 DEF gridMoves
    <2>2. \A mask : rootTrigger(relay, time, mask) \in Handled(0, ns)
        BY <1>1, RootTriggerHandled
    <2>3. relay' \in Handled(0, ns)
        BY <1>3, <2>1, <2>2
    <2>4. since' \in [Conditions -> 0..Inf]
        <3>1. \E w : Watch(l, w)
            BY <1>9 DEF gridMoves
        <3> QED BY <1>1, <3>1, WatchType
    <2>5. design' = design /\ time' = time /\ level' = l
        BY <1>9 DEF gridMoves
    <2> QED BY <1>1, <2>3, <2>4, <2>5, NextState
<1>10. ASSUME NEW l \in [Conditions -> 0..2], gridJumps(l)
       PROVE  IInv'
    <2>1. since' \in [Conditions -> 0..Inf]
        <3>1. \E w : Watch(l, w)
            BY <1>10 DEF gridJumps
        <3> QED BY <1>1, <3>1, WatchType
    <2>2. design' = design /\ time' = time /\ level' = l /\ relay' = Begun(relay)
        BY <1>10 DEF gridJumps
    <2> QED BY <1>1, <1>3, <2>1, <2>2, NextState
<1>11. CASE vars' = vars
    BY <1>1, <1>11, NextState DEF vars
<1> QED BY <1>4, <1>5, <1>6, <1>7, <1>8, <1>9, <1>10, <1>11 DEF Next

\* IInv is an invariant, whatever the design and whatever happens to the grid.
THEOREM RelayInvariant == Spec => []IInv
<1>1. Init => IInv
    BY InitHandled
<1>2. IInv /\ [Next]_vars => IInv'
    BY NextHandled
<1> QED BY <1>1, <1>2, PTL DEF Spec

\* Every member of the relay keeps its type in every design: no handler leaves
\* a time past maxTime, a check of no condition, or a check of several
\* conditions that is no position of multiConditionTriggers, and updateB never
\* adds a period to maxTime.
THEOREM TypeCorrect == Spec => []TypeOK
<1>1. IInv => TypeOK
    BY DEF IInv
<1> QED BY <1>1, RelayInvariant, PTL

\* In every design a condition that setConditionStatus has DISABLED takes no
\* action and leaves no check behind, whatever handler runs.
THEOREM DisabledStaysSilent == Spec => []DisabledIsSilent
<1>1. IInv => DisabledIsSilent
    BY DEF IInv, DisabledIsSilent, Handled, Silent, Taken
<1> QED BY <1>1, RelayInvariant, PTL

-----------------------------------------------------------------------------
(* Checks and samples in the event queue                                   *)

\* The relay asks for an update no later than its first check; while its own
\* update runs, the queue learns of it at the end.
Timely(r) ==
    /\ \A i \in DOMAIN r.condChecks :
            /\ r.nextUpdateTime <= r.condChecks[i].testTime
            /\ r.locked \/ r.scheduled <= r.condChecks[i].testTime
    /\ r.condChecks # <<>> => r.updates

\* What the actions of a condition leave alone
SameConditions(s, r) ==
    /\ s.cStates = r.cStates /\ s.margin = r.margin
    /\ s.triggerTimes = r.triggerTimes /\ s.withRoots = r.withRoots
    /\ s.locked = r.locked

\* The states after a part of the handler that began in r
TimelyFrom(lo, ns, r) ==
    {s \in Handled(lo, ns) : Timely(s) /\ s.locked = r.locked}

LEMMA TimelySame ==
    ASSUME NEW r, NEW q, Timely(r), q.condChecks = r.condChecks,
           q.nextUpdateTime = r.nextUpdateTime, q.scheduled = r.scheduled,
           q.locked = r.locked, q.updates = r.updates
    PROVE  Timely(q)
BY DEF Timely

LEMMA AlertedTimely ==
    ASSUME design \in Designs, NEW r \in RelayStates,
           \A i \in DOMAIN r.condChecks : r.nextUpdateTime <= r.condChecks[i].testTime,
           r.condChecks # <<>> => r.updates
    PROVE  Timely(alerted(r)) /\ SameConditions(alerted(r), r)
<1> DEFINE q == alerted(r)
<1>1. /\ q.condChecks = r.condChecks /\ q.nextUpdateTime = r.nextUpdateTime
      /\ q.updates = r.updates /\ SameConditions(q, r)
      /\ ~r.locked /\ r.updates => q.scheduled = r.nextUpdateTime
    BY DEF alerted, RelayStates, SameConditions
<1>2. r.condChecks = <<>> => DOMAIN r.condChecks = {}
    OBVIOUS
<1> HIDE DEF q
<1>3. Timely(q)
    <2>1. ASSUME NEW i \in DOMAIN q.condChecks
          PROVE  /\ q.nextUpdateTime <= q.condChecks[i].testTime
                 /\ q.locked \/ q.scheduled <= q.condChecks[i].testTime
        <3>1. r.updates
            BY <1>1, <1>2, <2>1
        <3>2. q.nextUpdateTime <= q.condChecks[i].testTime
            BY <1>1
        <3>3. CASE r.locked
            BY <1>1, <3>2, <3>3 DEF SameConditions
        <3>4. CASE ~r.locked
            BY <1>1, <3>1, <3>2, <3>4
        <3> QED BY <3>2, <3>3, <3>4
    <2> QED BY <1>1, <2>1 DEF Timely
<1> QED BY <1>1, <1>3 DEF q

\* A check of several conditions does not turn the updates on: they must be on
\* already.
LEMMA AddCheckTimely ==
    ASSUME design \in Designs, NEW r \in RelayStates, Timely(r), NEW x \in CondChecks,
           x.multi => r.updates
    PROVE  /\ Timely(addCheck(r, x)) /\ SameConditions(addCheck(r, x), r)
           /\ addCheck(r, x).updates
<1> DEFINE u == IF r.updates \/ x.multi THEN Lesser(r.nextUpdateTime, x.testTime)
                ELSE x.testTime
           q == [r EXCEPT !.condChecks = Append(@, x), !.nextUpdateTime = u,
                          !.updates = @ \/ ~x.multi]
<1>1. /\ r.condChecks \in Seq(CondChecks) /\ r.nextUpdateTime \in 0..Inf
      /\ r.updates \in BOOLEAN /\ x.multi \in BOOLEAN /\ x.testTime \in 0..Inf
    BY DEF RelayStates, CondChecks
<1>2. u \in 0..Inf /\ u <= x.testTime /\ (r.updates => u <= r.nextUpdateTime)
    <2> DEFINE a == r.nextUpdateTime
               b == x.testTime
    <2>1. a \in 0..Inf /\ b \in 0..Inf /\ Inf \in Nat
        BY <1>1, DesignFacts
    <2>2. CASE r.updates
        <3>1. u = Lesser(a, b)
            BY <2>2
        <3> HIDE DEF a, b, u
        <3>2. u \in 0..Inf /\ u <= b /\ u <= a
            BY <2>1, <3>1 DEF Lesser
        <3> QED BY <3>2 DEF a, b
    <2>3. CASE ~r.updates
        <3>1. u = b
            BY <2>3
        <3> QED BY <2>1, <2>3, <3>1
    <2> QED BY <2>2, <2>3
<1>3. Append(r.condChecks, x) \in Seq(CondChecks) /\ (r.updates \/ ~x.multi) \in BOOLEAN
    BY <1>1
<1> HIDE DEF u
<1>4. q \in RelayStates
    BY <1>2, <1>3 DEF RelayStates
<1>5. /\ q.condChecks = Append(r.condChecks, x) /\ q.nextUpdateTime = u
      /\ q.updates /\ SameConditions(q, r)
    BY DEF RelayStates, SameConditions
<1>6. \A i \in DOMAIN q.condChecks :
            \/ i \in DOMAIN r.condChecks /\ q.condChecks[i] = r.condChecks[i]
            \/ q.condChecks[i] = x
    BY <1>5, <1>1
<1>7. addCheck(r, x) = alerted(q)
    BY DEF addCheck, u
<1> HIDE DEF q
<1>8. \A i \in DOMAIN q.condChecks : q.nextUpdateTime <= q.condChecks[i].testTime
    <2>1. ASSUME NEW i \in DOMAIN r.condChecks
          PROVE  u <= r.condChecks[i].testTime
        <3> DEFINE a == r.condChecks[i].testTime
        <3>1. r.updates /\ r.nextUpdateTime <= a
            BY DEF Timely
        <3>2. a \in 0..Inf
            BY ConditionsOf DEF CondChecks
        <3> HIDE DEF a
        <3>3. u <= a
            BY <1>1, <1>2, <3>1, <3>2
        <3> QED BY <3>3 DEF a
    <2> QED BY <1>2, <1>5, <1>6, <2>1
<1>9. Timely(alerted(q)) /\ SameConditions(alerted(q), q)
    BY <1>4, <1>5, <1>8, AlertedTimely
<1>10. alerted(q).updates = q.updates
    BY <1>4 DEF alerted, RelayStates
<1> QED BY <1>5, <1>7, <1>9, <1>10 DEF SameConditions

LEMMA TakingTimely ==
    ASSUME NEW r \in RelayStates, Timely(r), NEW x
    PROVE  /\ Timely(Taking(r, x)) /\ SameConditions(Taking(r, x), r)
           /\ Taking(r, x).updates = r.updates
<1> DEFINE q == Taking(r, x)
<1>1. /\ q.condChecks = r.condChecks /\ q.nextUpdateTime = r.nextUpdateTime
      /\ q.scheduled = r.scheduled /\ q.locked = r.locked /\ q.updates = r.updates
      /\ SameConditions(q, r)
    BY DEF Taking, RelayStates, SameConditions
<1> HIDE DEF q
<1>2. Timely(q)
    BY <1>1, TimelySame
<1> QED BY <1>1, <1>2 DEF q

LEMMA TriggerActionTimely ==
    ASSUME design \in Designs, NEW t \in 0..Horizon, NEW r \in RelayStates, Timely(r),
           NEW c \in Conditions, NEW d \in Nat, NEW i \in DOMAIN Triggers[c]
    PROVE  /\ Timely(triggerAction(r, c, i, t, d))
           /\ SameConditions(triggerAction(r, c, i, t, d), r)
           /\ r.updates \/ Triggers[c][i].delay > d => triggerAction(r, c, i, t, d).updates
<1> DEFINE x == Triggers[c][i]
           k == [cond |-> c, action |-> i, testTime |-> t + x.delay, multi |-> FALSE]
<1>1. x.action \in Nat /\ x.delay \in 0..(Inf - Horizon) /\ i \in Nat
    BY TriggerFacts
<1>2. Horizon \in Nat /\ Inf \in Nat /\ Inf > Horizon
    BY DesignFacts
<1>3. CASE x.delay <= d
    <2> DEFINE y == [action |-> x.action, cond |-> c, multi |-> FALSE]
    <2>1. triggerAction(r, c, i, t, d) = Taking(r, y)
        BY <1>3 DEF triggerAction, executeAction, Taking
    <2>2. ~(Triggers[c][i].delay > d)
        BY <1>1, <1>2, <1>3
    <2> HIDE DEF y
    <2> QED BY <2>1, <2>2, TakingTimely
<1>4. CASE ~(x.delay <= d)
    <2>1. triggerAction(r, c, i, t, d) = addCheck(r, k)
        BY <1>4 DEF triggerAction
    <2>2. t + x.delay \in 0..Inf
        BY <1>1, <1>2
    <2>3. k \in CondChecks /\ ~k.multi
        <3> HIDE DEF x
        <3> QED BY <1>1, <2>2 DEF CondChecks
    <2> HIDE DEF k
    <2> QED BY <2>1, <2>3, AddCheckTimely
<1> QED BY <1>3, <1>4

LEMMA MultiCheckTimely ==
    ASSUME design \in Designs, NEW t \in 0..Horizon, NEW r \in RelayStates, Timely(r),
           NEW c \in Conditions, NEW d \in Nat, NEW i \in DOMAIN Multi[c],
           Multi[c][i].delay > d => r.updates
    PROVE  /\ Timely(multiConditionCheck(r, c, i, t, d))
           /\ SameConditions(multiConditionCheck(r, c, i, t, d), r)
           /\ r.updates => multiConditionCheck(r, c, i, t, d).updates
<1> DEFINE x == Multi[c][i]
           k == [cond |-> c, action |-> x.action, testTime |-> t + x.delay, multi |-> TRUE]
<1>1. x.action \in Nat /\ x.delay \in 0..(Inf - Horizon)
    BY MultiFacts
<1>2. Horizon \in Nat /\ Inf \in Nat /\ Inf > Horizon
    BY DesignFacts
<1>3. CASE \E j \in x.conditions : r.cStates[j] # "TRIGGERED"
    BY <1>3 DEF multiConditionCheck, SameConditions
<1>4. CASE (~\E j \in x.conditions : r.cStates[j] # "TRIGGERED") /\ x.delay <= d
    <2> DEFINE y == [action |-> x.action, cond |-> c, multi |-> TRUE]
    <2>1. multiConditionCheck(r, c, i, t, d) = Taking(r, y)
        BY <1>4 DEF multiConditionCheck, executeAction, Taking
    <2> HIDE DEF y
    <2> QED BY <2>1, TakingTimely
<1>5. CASE (~\E j \in x.conditions : r.cStates[j] # "TRIGGERED") /\ ~(x.delay <= d)
    <2>1. multiConditionCheck(r, c, i, t, d) = addCheck(r, k)
        BY <1>5 DEF multiConditionCheck
    <2>2. t + x.delay \in 0..Inf /\ x.delay > d
        BY <1>1, <1>2, <1>5
    <2>3. k \in CondChecks /\ r.updates
        <3>1. r.updates
            BY <2>2
        <3> HIDE DEF x
        <3> QED BY <1>1, <2>2, <3>1 DEF CondChecks
    <2> HIDE DEF k
    <2> QED BY <2>1, <2>3, AddCheckTimely
<1> QED BY <1>3, <1>4, <1>5

\* One delayed action of a single condition is enough to turn the updates on.
LEMMA TriggerActionsTimely ==
    ASSUME design \in Designs, NEW t \in 0..Horizon, NEW lo \in 0..(t + 1), NEW ns,
           NEW r \in Handled(lo, ns), NEW c \in Conditions,
           r.cStates[c] = "TRIGGERED", NEW d \in Nat, Timely(r)
    PROVE  /\ Timely(triggerActions(r, c, t, d))
           /\ SameConditions(triggerActions(r, c, t, d), r)
           /\ (\E i \in DOMAIN Triggers[c] : Triggers[c][i].delay > d)
                    => triggerActions(r, c, t, d).updates
<1> DEFINE S == {s \in Handled(lo, ns) : Timely(s) /\ SameConditions(s, r)}
           n == Len(Triggers[c])
<1>1. n \in Nat /\ DOMAIN Triggers[c] = 1..n
    BY TriggerFacts
<1>2. ASSUME NEW s \in S, NEW i \in 1..n PROVE triggerAction(s, c, i, t, d) \in S
    <2>1. /\ s \in Handled(lo, ns) /\ s.cStates = r.cStates /\ s.cStates[c] = "TRIGGERED"
          /\ s \in RelayStates /\ Timely(s) /\ SameConditions(s, r)
        BY DEF SameConditions, Handled
    <2>2. i \in DOMAIN Triggers[c]
        BY <1>1
    <2> DEFINE q == triggerAction(s, c, i, t, d)
    <2>3. q \in Handled(lo, ns)
        <3> HIDE DEF S, n
        <3> QED BY <2>1, <2>2, TriggerActionHandled
    <2>4. Timely(q) /\ SameConditions(q, s)
        <3> HIDE DEF S, n
        <3> QED BY <2>1, <2>2, TriggerActionTimely
    <2> HIDE DEF q
    <2>5. q \in S
        BY <2>1, <2>3, <2>4 DEF SameConditions
    <2> QED BY <2>5 DEF q
<1>3. r \in S
    BY DEF SameConditions
<1>4. \A s \in S : s \in RelayStates /\ Timely(s) /\ SameConditions(s, r)
    BY DEF Handled
<1> HIDE DEF S, n
<1>5. PICK p : TriggerActionsRun(p, S, n, r, c, t, d)
    <2>1. TriggerActionsClosed(S, n, c, t, d)
        BY <1>2 DEF TriggerActionsClosed
    <2> QED BY <1>1, <1>3, <2>1, TriggerActionsFold
<1>6. /\ p \in [0..n -> S] /\ p[n] = triggerActions(r, c, t, d)
      /\ \A i \in 1..n : p[i] = triggerAction(p[i - 1], c, i, t, d)
    BY <1>5 DEF TriggerActionsRun
<1> DEFINE Z == {i \in 0..n : \A j \in 1..i : Triggers[c][j].delay > d => p[i].updates}
<1>7. 0 \in Z
    BY <1>1
<1>8. ASSUME NEW i \in 1..n, i - 1 \in Z PROVE i \in Z
    <2>1. i - 1 \in 0..n /\ i \in 0..n /\ i \in DOMAIN Triggers[c]
        BY <1>1
    <2>2. p[i - 1] \in S /\ p[i] = triggerAction(p[i - 1], c, i, t, d)
        BY <1>6, <2>1
    <2>3. p[i - 1] \in RelayStates /\ Timely(p[i - 1])
        BY <1>4, <2>2
    <2>4. p[i - 1].updates \/ Triggers[c][i].delay > d => p[i].updates
        BY <2>1, <2>2, <2>3, TriggerActionTimely
    <2>5. ASSUME NEW j \in 1..i, Triggers[c][j].delay > d PROVE p[i].updates
        <3>1. CASE j = i
            BY <2>4, <2>5, <3>1
        <3>2. CASE j # i
            <4>1. j \in 1..(i - 1)
                BY <3>2, <1>1
            <4> QED BY <4>1, <2>4, <2>5, <1>8
        <3> QED BY <3>1, <3>2
    <2> QED BY <2>1, <2>5
<1>9. n \in Z
    <2> HIDE DEF Z
    <2>1. \A i \in 0..n : i \in Z
        BY <1>1, <1>7, <1>8, SetInduction
    <2> QED BY <1>1, <2>1
<1>10. p[n] \in S
    BY <1>1, <1>6
<1> QED BY <1>1, <1>4, <1>6, <1>9, <1>10

LEMMA MultiConditionTimely ==
    ASSUME design \in Designs, NEW t \in 0..Horizon, NEW lo \in 0..(t + 1), NEW ns,
           NEW r \in Handled(lo, ns), NEW c \in Conditions,
           r.cStates[c] = "TRIGGERED", NEW d \in Nat, Timely(r),
           (\E i \in DOMAIN Multi[c] : Multi[c][i].delay > d) => r.updates
    PROVE  /\ Timely(multiConditionCheckExecute(r, c, t, d))
           /\ SameConditions(multiConditionCheckExecute(r, c, t, d), r)
<1> DEFINE S == {s \in Handled(lo, ns) : /\ Timely(s) /\ SameConditions(s, r)
                                         /\ r.updates => s.updates}
           n == Len(Multi[c])
<1>1. n \in Nat /\ DOMAIN Multi[c] = 1..n
    BY MultiFacts
<1>2. ASSUME NEW s \in S, NEW i \in 1..n PROVE multiConditionCheck(s, c, i, t, d) \in S
    <2>1. /\ s \in Handled(lo, ns) /\ s.cStates = r.cStates /\ s.cStates[c] = "TRIGGERED"
          /\ s \in RelayStates /\ Timely(s) /\ SameConditions(s, r)
          /\ r.updates => s.updates
        BY DEF SameConditions, Handled
    <2>2. i \in DOMAIN Multi[c] /\ (Multi[c][i].delay > d => s.updates)
        BY <1>1, <2>1
    <2> DEFINE q == multiConditionCheck(s, c, i, t, d)
    <2>3. q \in Handled(lo, ns)
        <3> HIDE DEF S, n
        <3> QED BY <2>1, <2>2, MultiCheckHandled
    <2>4. Timely(q) /\ SameConditions(q, s) /\ (s.updates => q.updates)
        <3> HIDE DEF S, n
        <3> QED BY <2>1, <2>2, MultiCheckTimely
    <2> HIDE DEF q
    <2>5. q \in S
        BY <2>1, <2>3, <2>4 DEF SameConditions
    <2> QED BY <2>5 DEF q
<1>3. r \in S
    BY DEF SameConditions
<1>4. multiConditionCheckExecute(r, c, t, d) \in S
    <2> HIDE DEF S, n
    <2>1. PICK p : MultiConditionRun(p, S, n, r, c, t, d)
        <3>1. MultiConditionClosed(S, n, c, t, d)
            BY <1>2 DEF MultiConditionClosed
        <3> QED BY <1>1, <1>3, <3>1, MultiConditionFold
    <2> QED BY <1>1, <2>1 DEF MultiConditionRun
<1> QED BY <1>4

\* With the delays above d, a condition that has an action of several
\* conditions has an action of its own.
Accompanied(c, d) ==
    (\E i \in DOMAIN Multi[c] : Multi[c][i].delay > d)
        => \E i \in DOMAIN Triggers[c] : Triggers[c][i].delay > d

\* Nothing else of the conditions changes than that c is TRIGGERED at t.
LEMMA TriggerConditionTimely ==
    ASSUME design \in Designs, NEW t \in 0..Horizon, NEW lo \in 0..(t + 1), NEW ns,
           NEW r \in Handled(lo, ns), NEW c \in Conditions, NEW d \in Nat, Timely(r),
           Accompanied(c, d)
    PROVE  /\ Timely(triggerCondition(r, c, t, d))
           /\ triggerCondition(r, c, t, d).locked = r.locked
<1> DEFINE q == Triggered(r, c, t)
           s == triggerActions(q, c, t, d)
           v == multiConditionCheckExecute(s, c, t, d)
<1>1. q \in Handled(lo, ns) /\ q.cStates = [r.cStates EXCEPT ![c] = "TRIGGERED"]
    BY TriggeredHandled
<1>2. q.cStates[c] = "TRIGGERED"
    BY <1>1 DEF Handled, RelayStates
<1>3. Timely(q) /\ q.locked = r.locked
    <2>1. r \in RelayStates
        BY DEF Handled
    <2>2. /\ q.condChecks = r.condChecks /\ q.nextUpdateTime = r.nextUpdateTime
          /\ q.scheduled = r.scheduled /\ q.locked = r.locked /\ q.updates = r.updates
        BY <2>1 DEF Triggered, RelayStates
    <2> QED BY <2>2, TimelySame
<1> HIDE DEF q
<1>4. s \in Handled(lo, ns) /\ s.cStates = q.cStates
    <2>1. q \in Handled(lo, ns)
        BY <1>1
    <2> QED BY <1>2, <2>1, TriggerActionsHandled
<1>5. /\ Timely(s) /\ SameConditions(s, q)
      /\ (\E i \in DOMAIN Triggers[c] : Triggers[c][i].delay > d) => s.updates
    <2>1. q \in Handled(lo, ns)
        BY <1>1
    <2> QED BY <1>2, <1>3, <2>1, TriggerActionsTimely
<1> HIDE DEF s
<1>6. s.cStates[c] = "TRIGGERED"
    BY <1>2, <1>4
<1>7. (\E i \in DOMAIN Multi[c] : Multi[c][i].delay > d) => s.updates
    BY <1>5 DEF Accompanied
<1>8. Timely(v) /\ SameConditions(v, s)
    <2>1. s \in Handled(lo, ns) /\ Timely(s)
        BY <1>4, <1>5
    <2> QED BY <1>6, <1>7, <2>1, MultiConditionTimely
<1>9. triggerCondition(r, c, t, d) = v
    BY DEF triggerCondition, Triggered, q, s
<1> QED BY <1>3, <1>5, <1>8, <1>9 DEF SameConditions

LEMMA SampleTimely ==
    ASSUME design \in Designs, NEW t \in 0..Horizon, NEW lo \in 0..(t + 1), NEW ns,
           NEW r \in Handled(lo, ns), NEW l, NEW d \in Nat, Timely(r),
           \A c \in Conditions : Accompanied(c, d)
    PROVE  sample(r, l, t, d) \in TimelyFrom(lo, ns, r)
<1> DEFINE S == TimelyFrom(lo, ns, r)
           n == Len(Triggers)
<1>1. n \in Nat /\ DOMAIN Triggers = 1..n /\ Conditions = 1..n
    BY DesignFacts DEF Conditions
<1>2. ASSUME NEW s \in S, NEW i \in 1..n PROVE sampleOne(s, i, l, t, d) \in S
    <2>1. s \in Handled(lo, ns) /\ Timely(s) /\ s.locked = r.locked
        BY DEF TimelyFrom
    <2>2. i \in Conditions /\ Accompanied(i, d)
        BY <1>1
    <2> DEFINE q == triggerCondition(s, i, t, d)
    <2> HIDE DEF S, n
    <2>3. q \in Handled(lo, ns)
        BY <2>1, <2>2, TriggerConditionHandled
    <2>4. Timely(q) /\ q.locked = s.locked
        BY <2>1, <2>2, TriggerConditionTimely
    <2>5. q \in S
        <3> HIDE DEF q
        <3> QED BY <2>1, <2>3, <2>4 DEF S, TimelyFrom
    <2> QED BY <2>5 DEF sampleOne
<1> HIDE DEF S, n
<1>3. SampleClosed(S, n, l, t, d)
    BY <1>2 DEF SampleClosed
<1>4. r \in S
    BY DEF S, TimelyFrom
<1>5. PICK p : SampleRun(p, S, n, r, l, t, d)
    BY <1>1, <1>3, <1>4, SampleFold
<1> QED BY <1>1, <1>5 DEF S, SampleRun

\* The checks of s are not before the time at which the queue has r.
OnTime(s, r) ==
    /\ s.scheduled = r.scheduled /\ s.updates = r.updates /\ s.locked = r.locked
    /\ \A i \in DOMAIN s.condChecks :
            r.updates /\ r.scheduled <= s.condChecks[i].testTime

LEMMA OnTimeSame ==
    ASSUME NEW r, NEW s, NEW q, OnTime(s, r), q.condChecks = s.condChecks,
           q.scheduled = s.scheduled, q.updates = s.updates, q.locked = s.locked
    PROVE  OnTime(q, r)
BY DEF OnTime

LEMMA KeptOnTime ==
    ASSUME NEW r, NEW s \in RelayStates, NEW x \in CondChecks, OnTime(s, r),
           r.updates, r.scheduled <= x.testTime
    PROVE  OnTime(Keeping(s, x), r)
<1> DEFINE q == Keeping(s, x)
<1>1. /\ q.condChecks = Append(s.condChecks, x) /\ q.scheduled = s.scheduled
      /\ q.updates = s.updates /\ q.locked = s.locked
      /\ s.condChecks \in Seq(CondChecks)
    BY DEF Keeping, RelayStates
<1> HIDE DEF q
<1>2. \A i \in DOMAIN q.condChecks :
            \/ i \in DOMAIN s.condChecks /\ q.condChecks[i] = s.condChecks[i]
            \/ q.condChecks[i] = x
    BY <1>1
<1>3. OnTime(q, r)
    BY <1>1, <1>2 DEF OnTime
<1> QED BY <1>3 DEF q

LEMMA TakingOnTime ==
    ASSUME NEW r, NEW s \in RelayStates, NEW x, OnTime(s, r)
    PROVE  OnTime(Taking(s, x), r)
<1> DEFINE q == Taking(s, x)
<1>1. /\ q.condChecks = s.condChecks /\ q.scheduled = s.scheduled
      /\ q.updates = s.updates /\ q.locked = s.locked
    BY DEF Taking, RelayStates
<1> HIDE DEF q
<1>2. OnTime(q, r)
    BY <1>1, OnTimeSame
<1> QED BY <1>2 DEF q

\* A check that is postponed is after t, and the queue was there before t.
LEMMA MultiDueOnTime ==
    ASSUME design \in Designs, NEW t \in 0..Horizon, NEW s \in RelayStates,
           NEW x \in CondChecks, x.action \in DOMAIN Multi[x.cond],
           NEW r, OnTime(s, r), r.updates, r.scheduled \in 0..Inf, r.scheduled <= t
    PROVE  OnTime(multiDue(s, x, t), r)
<1> DEFINE m == Multi[x.cond][x.action]
<1>1. x.cond \in Conditions
    BY DEF CondChecks
<1>2. m.conditions \in SUBSET Conditions /\ m.delay \in 0..(Inf - Horizon)
    BY <1>1, MultiFacts
<1>3. CASE multiDue(s, x, t) = executeAction(s, m.action, x.cond, TRUE)
    <2> DEFINE y == [action |-> m.action, cond |-> x.cond, multi |-> TRUE]
    <2>1. multiDue(s, x, t) = Taking(s, y)
        BY <1>3 DEF executeAction, Taking
    <2> HIDE DEF y
    <2> QED BY <2>1, TakingOnTime
<1>4. CASE multiDue(s, x, t) = s
    BY <1>4
<1>5. ASSUME NEW k \in Young(s, m, t), multiDue(s, x, t) = Postponed(s, x, m, k)
      PROVE  OnTime(multiDue(s, x, t), r)
    <2> DEFINE v == s.triggerTimes[k]
               w == m.delay
               u == v + w
               y == [x EXCEPT !.testTime = u]
               z == r.scheduled
    <2>1. k \in Conditions /\ t - s.triggerTimes[k] < m.delay
        BY <1>2 DEF Young
    <2>2. s.triggerTimes[k] \in 0..Horizon
        BY <2>1 DEF RelayStates
    <2>3. u \in 0..Inf /\ z <= u
        <3>1. /\ v \in 0..Horizon /\ w \in 0..(Inf - Horizon) /\ t - v < w
              /\ Horizon \in Nat /\ Inf \in Nat /\ Inf > Horizon
              /\ z \in 0..Inf /\ z <= t
            BY <1>2, <2>1, <2>2, DesignFacts
        <3> HIDE DEF v, w, z
        <3> QED BY <3>1
    <2> HIDE DEF u, m
    <2>4. y \in CondChecks /\ y.testTime = u
        BY <2>3 DEF CondChecks
    <2>5. multiDue(s, x, t) = Keeping(s, y)
        BY <1>5 DEF u, m, Postponed
    <2> HIDE DEF y
    <2>6. OnTime(Keeping(s, y), r)
        BY <2>3, <2>4, KeptOnTime
    <2> QED BY <2>5, <2>6
<1> HIDE DEF m
<1>6. \/ multiDue(s, x, t) = executeAction(s, m.action, x.cond, TRUE)
      \/ multiDue(s, x, t) = s
      \/ \E k \in Young(s, m, t) : multiDue(s, x, t) = Postponed(s, x, m, k)
    <2>1. m = Multi[x.cond][x.action]
        BY DEF m
    <2> QED BY <2>1, MultiDueCases
<1> QED BY <1>3, <1>4, <1>5, <1>6

LEMMA EvaluateOnTime ==
    ASSUME design \in Designs, NEW t \in 0..Horizon, NEW s \in RelayStates, NEW l,
           NEW x, Evaluable(s, x), NEW r, OnTime(s, r), r.updates,
           r.scheduled \in 0..Inf, r.scheduled <= x.testTime
    PROVE  OnTime(evaluateCondCheck(s, x, t, l), r)
<1>1. /\ x.cond \in Conditions /\ x.testTime \in 0..Inf /\ x \in CondChecks
      /\ x.multi \in BOOLEAN
    BY DEF CondChecks, Evaluable
<1>2. CASE t >= x.testTime /\ ~Check(l[x.cond], s.margin[x.cond])
    <2> DEFINE q == updateRootCount(cleared(s, x.cond))
    <2>1. evaluateCondCheck(s, x, t, l) = q
        BY <1>2 DEF evaluateCondCheck
    <2>2. /\ q.condChecks = s.condChecks /\ q.scheduled = s.scheduled
          /\ q.updates = s.updates /\ q.locked = s.locked
        BY DEF updateRootCount, cleared, RelayStates
    <2> HIDE DEF q
    <2> QED BY <2>1, <2>2, OnTimeSame
<1>3. CASE t >= x.testTime /\ Check(l[x.cond], s.margin[x.cond]) /\ x.multi
    <2>1. evaluateCondCheck(s, x, t, l) = multiDue(s, x, t)
        BY <1>3 DEF evaluateCondCheck
    <2>2. x.action \in DOMAIN Multi[x.cond]
        BY <1>3 DEF Evaluable
    <2>3. r.scheduled <= t
        <3> DEFINE z == r.scheduled
                   y == x.testTime
        <3>1. z \in 0..Inf /\ y \in 0..Inf /\ z <= y /\ y <= t /\ Inf \in Nat /\ Horizon \in Nat
            BY <1>1, <1>3, DesignFacts
        <3> HIDE DEF y, z
        <3>2. z <= t
            BY <3>1
        <3> QED BY <3>2 DEF z
    <2>4. x \in CondChecks
        BY <1>1
    <2> QED BY <2>1, <2>2, <2>3, <2>4, MultiDueOnTime
<1>4. CASE t >= x.testTime /\ Check(l[x.cond], s.margin[x.cond]) /\ ~x.multi
    <2> DEFINE y == [action |-> x.action, cond |-> x.cond, multi |-> FALSE]
    <2>1. evaluateCondCheck(s, x, t, l) = Taking(s, y)
        BY <1>4 DEF evaluateCondCheck, singleDue, executeAction, Taking
    <2> HIDE DEF y
    <2> QED BY <2>1, TakingOnTime
<1>5. CASE ~(t >= x.testTime) /\ s.cStates[x.cond] = "TRIGGERED"
    <2>1. evaluateCondCheck(s, x, t, l) = Keeping(s, x)
        BY <1>5 DEF evaluateCondCheck, Keeping
    <2>2. x \in CondChecks
        BY <1>1
    <2> QED BY <2>1, <2>2, KeptOnTime
<1>6. CASE ~(t >= x.testTime) /\ s.cStates[x.cond] # "TRIGGERED"
    BY <1>6 DEF evaluateCondCheck
<1> QED BY <1>2, <1>3, <1>4, <1>5, <1>6

LEMMA EvaluateAllOnTime ==
    ASSUME design \in Designs, NEW t \in 0..Horizon, NEW lo \in 0..(t + 1), NEW ns,
           NEW s \in Handled(lo, ns), NEW l, NEW checks \in Seq(CondChecks),
           \A j \in DOMAIN checks : Evaluable(s, checks[j]),
           NEW r, r.scheduled \in 0..Inf, OnTime(s, r),
           \A j \in DOMAIN checks : r.updates /\ r.scheduled <= checks[j].testTime
    PROVE  OnTime(evaluateCondChecks(s, checks, t, l), r)
<1> DEFINE S == {q \in Handled(lo, ns) : /\ \A j \in DOMAIN checks : Evaluable(q, checks[j])
                                         /\ OnTime(q, r)}
           n == Len(checks)
<1>1. n \in Nat /\ DOMAIN checks = 1..n
    OBVIOUS
<1>2. s \in S
    OBVIOUS
<1>3. ASSUME NEW z \in S, NEW i \in 1..n PROVE evaluateCondCheck(z, checks[i], t, l) \in S
    <2> DEFINE q == evaluateCondCheck(z, checks[i], t, l)
    <2>1. /\ z \in Handled(lo, ns) /\ \A j \in DOMAIN checks : Evaluable(z, checks[j])
          /\ OnTime(z, r) /\ z \in RelayStates
        BY DEF Handled
    <2>2. /\ Evaluable(z, checks[i]) /\ r.updates /\ r.scheduled <= checks[i].testTime
        BY <1>1, <2>1
    <2> HIDE DEF S, n
    <2>3. /\ q \in Handled(lo, ns)
          /\ \A k \in Conditions : z.cStates[k] # "DISABLED" => q.cStates[k] # "DISABLED"
        BY <2>1, <2>2, EvaluateHandled
    <2>4. OnTime(q, r)
        BY <2>1, <2>2, EvaluateOnTime
    <2> HIDE DEF q
    <2>5. \A j \in DOMAIN checks : Evaluable(q, checks[j])
        BY <2>1, <2>3 DEF Evaluable, CondChecks
    <2> QED BY <2>3, <2>4, <2>5 DEF S, q
<1> HIDE DEF S, n
<1>4. EvaluateClosed(S, n, checks, t, l)
    BY <1>3 DEF EvaluateClosed
<1>5. PICK p : EvaluateRun(p, S, n, s, checks, t, l)
    BY <1>1, <1>2, <1>4, EvaluateFold
<1> QED BY <1>1, <1>5 DEF S, EvaluateRun

\* r may be locked, but the queue had it in time.
LEMMA WaitingTimely ==
    ASSUME design \in Designs, NEW t \in 0..Horizon, NEW ns, NEW r \in Handled(0, ns),
           NEW l, OnTime(r, r)
    PROVE  Waiting(r, l, t) \in TimelyFrom(t + 1, ns, r)
<1> DEFINE start == UpdateStart(r)
           due == evaluateCondChecks(start, r.condChecks, t, l)
           e == earliestCheck(due)
           q == Waiting(r, l, t)
<1>1. t + 1 \in 0..(t + 1) /\ t + 1 \in Nat
    BY DesignFacts
<1>2. /\ start \in Handled(t + 1, ns) /\ r.condChecks \in Seq(CondChecks)
      /\ \A j \in DOMAIN r.condChecks : Evaluable(start, r.condChecks[j])
    BY StartHandled
<1>3. r \in RelayStates /\ r.scheduled \in 0..Inf
    BY DEF Handled, RelayStates
<1>4. OnTime(start, r)
    <2>1. /\ start.condChecks = <<>> /\ start.scheduled = r.scheduled
          /\ start.updates = r.updates /\ start.locked = r.locked
        BY <1>3 DEF UpdateStart, Begun, RelayStates
    <2>2. DOMAIN <<>> = {}
        OBVIOUS
    <2> QED BY <2>1, <2>2 DEF OnTime
<1> HIDE DEF start
<1>5. due \in Handled(t + 1, ns)
    BY <1>1, <1>2, EvaluateAllHandled
<1>6. OnTime(due, r)
    <2>1. \A j \in DOMAIN r.condChecks :
            r.updates /\ r.scheduled <= r.condChecks[j].testTime
        BY DEF OnTime
    <2> QED BY <1>1, <1>2, <1>3, <1>4, <2>1, EvaluateAllOnTime
<1>7. due \in RelayStates /\ Later(due, t + 1, ns)
    BY <1>5 DEF Handled
<1>8. q = [due EXCEPT !.nextUpdateTime = e]
    BY DEF Waiting, due, start
<1> HIDE DEF due
<1>9. \A i \in DOMAIN due.condChecks : e <= due.condChecks[i].testTime
    BY <1>1, <1>7, EarliestIs
<1> HIDE DEF e
<1>10. /\ q.condChecks = due.condChecks /\ q.nextUpdateTime = e
       /\ q.scheduled = due.scheduled /\ q.updates = due.updates
       /\ q.locked = due.locked
    BY <1>7, <1>8 DEF RelayStates
<1>11. q \in Handled(t + 1, ns)
    BY WaitingHandled
<1> HIDE DEF q
<1>12. q.condChecks # <<>> => q.updates
    <2>1. q.condChecks \in Seq(CondChecks)
        BY <1>11 DEF Handled, RelayStates
    <2>2. q.condChecks # <<>> => 1 \in DOMAIN q.condChecks
        BY <2>1
    <2> QED BY <1>6, <1>10, <2>2 DEF OnTime
<1>13. Timely(q) /\ q.locked = r.locked
    BY <1>6, <1>9, <1>10, <1>12 DEF Timely, OnTime
<1> QED BY <1>11, <1>13 DEF TimelyFrom, q

\* The update is not after any check: dropping checks does not move it.
LEMMA ClearIs ==
    ASSUME design \in Designs, NEW r \in RelayStates, Timely(r), NEW c
    PROVE  clearCondChecks(r, c) = Cleaned(r, c, r.nextUpdateTime)
<1>1. PICK u : /\ Earliest(r, c, u)
               /\ clearCondChecks(r, c) = IF u # r.nextUpdateTime
                                          THEN alerted(Cleaned(r, c, u))
                                          ELSE Cleaned(r, c, u)
    BY ClearCases
<1>2. u = r.nextUpdateTime
    <2> DEFINE v == r.nextUpdateTime
    <2>1. u \in 0..Inf /\ u <= v /\ v \in 0..Inf
        BY <1>1 DEF Earliest, RelayStates
    <2>2. u = v \/ v <= u
        BY <1>1 DEF Earliest, Timely
    <2> HIDE DEF v
    <2>3. u = v
        BY <2>1, <2>2
    <2> QED BY <2>3 DEF v
<1> QED BY <1>1, <1>2

LEMMA ClearTimely ==
    ASSUME design \in Designs, NEW r \in RelayStates, Timely(r), NEW c
    PROVE  /\ Timely(clearCondChecks(r, c))
           /\ SameConditions(clearCondChecks(r, c), r)
<1> DEFINE q == clearCondChecks(r, c)
           left == checksWithout(r.condChecks, c)
<1>1. q = Cleaned(r, c, r.nextUpdateTime)
    BY ClearIs
<1>2. /\ left \in Seq(CondChecks)
      /\ \A i \in DOMAIN left : \E j \in DOMAIN r.condChecks :
                left[i] = r.condChecks[j] /\ r.condChecks[j].cond # c
    BY WithoutIs DEF RelayStates
<1>3. /\ q.condChecks = left /\ q.nextUpdateTime = r.nextUpdateTime
      /\ q.scheduled = r.scheduled /\ q.locked = r.locked /\ q.updates = r.updates
      /\ SameConditions(q, r)
    BY <1>1 DEF Cleaned, RelayStates, SameConditions
<1> HIDE DEF q, left
<1>4. left # <<>> => r.condChecks # <<>>
    <2>1. left # <<>> => 1 \in DOMAIN left
        BY <1>2
    <2>2. DOMAIN <<>> = {}
        OBVIOUS
    <2> QED BY <1>2, <2>1, <2>2
<1>5. Timely(q)
    BY <1>2, <1>3, <1>4 DEF Timely
<1> QED BY <1>3, <1>5 DEF q

\* In every condition of the design a delayed action of several conditions is
\* accompanied by a delayed action of the condition alone.
SinglesFirst == \A c \in Conditions : Accompanied(c, 0)

LEMMA RootStepTimely ==
    ASSUME design \in Designs, NEW t \in 0..Horizon, NEW ns, NEW r \in Handled(0, ns),
           NEW k \in Nat, NEW c \in Conditions, NEW mask, NEW s,
           s = [r |-> r, position |-> k], SinglesFirst, Timely(r)
    PROVE  /\ Timely(rootStep(s, c, t, mask).r)
           /\ rootStep(s, c, t, mask).r.locked = r.locked
<1>1. s.r = r /\ s.position = k
    OBVIOUS
<1>2. 0 \in Nat /\ 0 \in 0..(t + 1)
    BY DesignFacts
<1> DEFINE a == triggerCondition(r, c, t, 0)
           b == clearCondChecks(cleared(r, c), c)
<1>3. Timely(a) /\ a.locked = r.locked
    <2>1. Accompanied(c, 0)
        BY DEF SinglesFirst
    <2> QED BY <1>2, <2>1, TriggerConditionTimely
<1>4. Timely(b) /\ b.locked = r.locked
    <2> DEFINE q == cleared(r, c)
    <2>1. q \in Handled(0, ns)
        BY <1>2, ClearedHandled
    <2>2. q \in RelayStates /\ r \in RelayStates
        BY <2>1 DEF Handled
    <2>3. /\ q.condChecks = r.condChecks /\ q.nextUpdateTime = r.nextUpdateTime
          /\ q.scheduled = r.scheduled /\ q.locked = r.locked /\ q.updates = r.updates
        BY <2>2 DEF cleared, RelayStates
    <2> HIDE DEF q
    <2>4. Timely(q)
        BY <2>3, TimelySame
    <2>5. Timely(clearCondChecks(q, c)) /\ SameConditions(clearCondChecks(q, c), q)
        BY <2>2, <2>4, ClearTimely
    <2> QED BY <2>3, <2>5 DEF q, SameConditions
<1>5. rootStep(s, c, t, mask) \in {s, [r |-> a, position |-> k + 1],
                                   [r |-> r, position |-> k + 1],
                                   [r |-> b, position |-> k + 1]}
    BY <1>1 DEF rootStep
<1> HIDE DEF a, b
<1> QED BY <1>1, <1>3, <1>4, <1>5

LEMMA RootTriggerTimely ==
    ASSUME design \in Designs, NEW t \in 0..Horizon, NEW ns, NEW r \in Handled(0, ns),
           NEW mask, SinglesFirst, Timely(r)
    PROVE  /\ Timely(rootTrigger(r, t, mask))
           /\ rootTrigger(r, t, mask).locked = r.locked
<1> DEFINE S == [r : TimelyFrom(0, ns, r), position : Nat]
           n == Len(r.withRoots)
<1>1. /\ n \in Nat /\ DOMAIN r.withRoots = 1..n /\ r \in RelayStates
      /\ \A i \in 1..n : r.withRoots[i] \in Conditions
    BY ElementOf DEF Handled, RelayStates
<1>2. [r |-> Begun(r), position |-> 1] \in S
    <2>1. 0 \in Nat
        OBVIOUS
    <2> DEFINE b == Begun(r)
    <2>2. b \in Handled(0, ns)
        BY <2>1, BegunHandled
    <2>3. /\ b.condChecks = r.condChecks /\ b.nextUpdateTime = r.nextUpdateTime
          /\ b.scheduled = r.scheduled /\ b.locked = r.locked /\ b.updates = r.updates
        BY <1>1 DEF Begun, RelayStates
    <2> HIDE DEF b
    <2>4. Timely(b)
        BY <2>3, TimelySame
    <2>5. b \in TimelyFrom(0, ns, r)
        BY <2>2, <2>3, <2>4 DEF TimelyFrom
    <2> QED BY <2>5 DEF b
<1>3. ASSUME NEW s \in S, NEW i \in 1..n
      PROVE  rootStep(s, r.withRoots[i], t, mask) \in S
    <2> DEFINE q == rootStep(s, r.withRoots[i], t, mask)
               h == s.r
               k == s.position
    <2>1. h \in TimelyFrom(0, ns, r) /\ k \in Nat /\ s = [r |-> h, position |-> k]
        OBVIOUS
    <2>2. h \in Handled(0, ns) /\ Timely(h) /\ h.locked = r.locked
        BY <2>1 DEF TimelyFrom
    <2>3. r.withRoots[i] \in Conditions
        BY <1>1
    <2> HIDE DEF h, k, S, n
    <2>4. /\ q.r \in Handled(0, ns) /\ q.position \in Nat
          /\ q = [r |-> q.r, position |-> q.position]
        BY <2>1, <2>2, <2>3, RootStepHandled
    <2>5. Timely(q.r) /\ q.r.locked = h.locked
        BY <2>1, <2>2, <2>3, RootStepTimely
    <2> HIDE DEF q
    <2>6. q.r \in TimelyFrom(0, ns, r)
        BY <2>2, <2>4, <2>5 DEF TimelyFrom
    <2>7. q \in S
        BY <2>4, <2>6 DEF S
    <2> QED BY <2>7 DEF q
<1> HIDE DEF S, n
<1>4. RootStepsClosed(S, n, r, t, mask)
    BY <1>3 DEF RootStepsClosed
<1>5. PICK p : RootStepsRun(p, S, n, r, t, mask)
    BY <1>1, <1>2, <1>4, RootStepsFold
<1> DEFINE z == rootSteps(r, t, mask)
<1>6. z \in TimelyFrom(0, ns, r)
    <2>1. p[n] \in S /\ p[n].r = z
        BY <1>1, <1>5 DEF RootStepsRun
    <2> QED BY <2>1 DEF S
<1>7. rootTrigger(r, t, mask) = [z EXCEPT !.withRoots = RootsOf(z.cStates)]
    BY DEF rootTrigger, updateRootCount
<1> HIDE DEF z
<1>8. z \in RelayStates /\ Timely(z) /\ z.locked = r.locked
    BY <1>6 DEF TimelyFrom, Handled
<1> DEFINE q == rootTrigger(r, t, mask)
<1>9. /\ q.condChecks = z.condChecks /\ q.nextUpdateTime = z.nextUpdateTime
      /\ q.scheduled = z.scheduled /\ q.locked = z.locked /\ q.updates = z.updates
    BY <1>7, <1>8 DEF RelayStates
<1> HIDE DEF q
<1>10. Timely(q)
    BY <1>8, <1>9, TimelySame
<1> QED BY <1>8, <1>9, <1>10 DEF q

\* The designs whose checks the event queue cannot miss
Continued == Continuous /\ SinglesFirst

TimelyInv == Continued => ~relay.locked /\ Timely(relay)

\* updateA of a continuous relay
LEMMA UpdateATimely ==
    ASSUME design \in Designs, NEW t \in 0..Horizon, NEW ns, NEW r \in Handled(0, ns),
           NEW l, Continued, OnTime(r, r)
    PROVE  updateA(r, l, t) \in TimelyFrom(t + 1, ns, r)
<1> DEFINE w == Waiting(r, l, t)
<1>1. w \in TimelyFrom(t + 1, ns, r)
    BY WaitingTimely
<1>2. t + 1 \in 0..(t + 1) /\ 0 \in Nat
    BY DesignFacts
<1> HIDE DEF w
<1>3. w \in Handled(t + 1, ns) /\ Timely(w) /\ w.locked = r.locked
    BY <1>1 DEF TimelyFrom
<1>4. sample(w, l, t, 0) \in TimelyFrom(t + 1, ns, w)
    <2>1. \A c \in Conditions : Accompanied(c, 0)
        BY DEF Continued, SinglesFirst
    <2> QED BY <1>2, <1>3, <2>1, SampleTimely
<1>5. updateA(r, l, t) = sample(w, l, t, 0)
    BY UpdateACases DEF w, Continued
<1> QED BY <1>3, <1>4, <1>5 DEF TimelyFrom

LEMMA BegunTimely ==
    ASSUME NEW r \in RelayStates, Timely(r), ~r.locked
    PROVE  /\ Timely(Begun(r)) /\ ~Begun(r).locked
           /\ Timely(Hung(Begun(r))) /\ ~Hung(Begun(r)).locked
<1>1. /\ Begun(r).condChecks = r.condChecks /\ Begun(r).nextUpdateTime = r.nextUpdateTime
      /\ Begun(r).scheduled = r.scheduled /\ Begun(r).locked = r.locked
      /\ Begun(r).updates = r.updates
    BY DEF Begun, RelayStates
<1>2. LET q == Hung(Begun(r))
      IN  /\ q.condChecks = r.condChecks /\ q.nextUpdateTime = r.nextUpdateTime
          /\ q.scheduled = r.scheduled /\ q.locked = r.locked
          /\ q.updates = r.updates
    BY DEF Begun, Hung, RelayStates
<1> QED BY <1>1, <1>2, TimelySame

LEMMA OnTimeOf ==
    ASSUME NEW r \in RelayStates, Timely(r), ~r.locked
    PROVE  OnTime(r, r) /\ OnTime(Locked(r), Locked(r))
<1>1. r.condChecks = <<>> => DOMAIN r.condChecks = {}
    OBVIOUS
<1>2. OnTime(r, r)
    BY <1>1 DEF OnTime, Timely
<1> DEFINE q == Locked(r)
<1>3. /\ q.condChecks = r.condChecks /\ q.scheduled = r.scheduled
      /\ q.updates = r.updates
    BY DEF Locked, RelayStates
<1> HIDE DEF q
<1>4. OnTime(q, q)
    BY <1>2, <1>3 DEF OnTime
<1> QED BY <1>2, <1>4 DEF q

\* What the queue learns at the end of update
LEMMA RescheduledTimely ==
    ASSUME NEW r \in RelayStates, Timely(r)
    PROVE  Timely(Rescheduled(r)) /\ ~Rescheduled(r).locked
<1> DEFINE q == Rescheduled(r)
<1>1. /\ q.condChecks = r.condChecks /\ q.nextUpdateTime = r.nextUpdateTime
      /\ q.scheduled = r.nextUpdateTime /\ q.locked = FALSE
      /\ q.updates = r.updates
    BY DEF Rescheduled, RelayStates
<1> HIDE DEF q
<1>2. Timely(q) /\ ~q.locked
    BY <1>1 DEF Timely
<1> QED BY <1>2 DEF q

LEMMA StatusTimely ==
    ASSUME design \in Designs, NEW ns, NEW r \in Handled(0, ns), NEW c \in Conditions,
           NEW st, Timely(r), ~r.locked
    PROVE  /\ Timely(clearCondChecks(Switching(Begun(r), c, "DISABLED"), c))
           /\ ~clearCondChecks(Switching(Begun(r), c, "DISABLED"), c).locked
           /\ Timely(Remargined(Switching(Begun(r), c, st), c, st))
           /\ ~Remargined(Switching(Begun(r), c, st), c, st).locked
<1> DEFINE q == Switching(Begun(r), c, "DISABLED")
           s == Remargined(Switching(Begun(r), c, st), c, st)
<1>1. r \in RelayStates
    BY DEF Handled
<1>2. /\ q.condChecks = r.condChecks /\ q.nextUpdateTime = r.nextUpdateTime
      /\ q.scheduled = r.scheduled /\ q.locked = r.locked /\ q.updates = r.updates
    BY <1>1 DEF Switching, Begun, RelayStates
<1>3. /\ s.condChecks = r.condChecks /\ s.nextUpdateTime = r.nextUpdateTime
      /\ s.scheduled = r.scheduled /\ s.locked = r.locked /\ s.updates = r.updates
    BY <1>1 DEF Remargined, Switching, Begun, RelayStates
<1>4. q \in RelayStates
    <2> DEFINE b == Begun(r)
    <2>1. b \in RelayStates
        <3>1. 0 \in Nat
            OBVIOUS
        <3>2. b \in Handled(0, ns)
            BY <3>1, BegunHandled
        <3> QED BY <3>2 DEF Handled
    <2>2. [b.cStates EXCEPT ![c] = "DISABLED"]
            \in [Conditions -> {"ACTIVE", "TRIGGERED", "DISABLED"}]
        BY <2>1 DEF RelayStates
    <2>3. q = [b EXCEPT !.cStates = [@ EXCEPT ![c] = "DISABLED"]]
        BY DEF Switching
    <2> HIDE DEF b
    <2> QED BY <2>1, <2>2, <2>3 DEF RelayStates
<1> HIDE DEF q, s
<1>5. Timely(q) /\ Timely(s)
    BY <1>2, <1>3, TimelySame
<1>6. Timely(clearCondChecks(q, c)) /\ SameConditions(clearCondChecks(q, c), q)
    BY <1>4, <1>5, ClearTimely
<1> QED BY <1>2, <1>3, <1>5, <1>6 DEF q, s, SameConditions

\* updateRootCount does not concern the queue.
LEMMA UpdateRootsTimely ==
    ASSUME NEW r \in RelayStates, Timely(r)
    PROVE  Timely(updateRootCount(r)) /\ updateRootCount(r).locked = r.locked
<1> DEFINE q == updateRootCount(r)
<1>1. /\ q.condChecks = r.condChecks /\ q.nextUpdateTime = r.nextUpdateTime
      /\ q.scheduled = r.scheduled /\ q.locked = r.locked /\ q.updates = r.updates
    BY DEF updateRootCount, RelayStates
<1> HIDE DEF q
<1>2. Timely(q)
    BY <1>1, TimelySame
<1> QED BY <1>1, <1>2 DEF q

LEMMA DesignFixed ==
    ASSUME [Next]_vars PROVE design' = design
<1>1. CASE advance
    BY <1>1 DEF advance
<1>2. CASE update
    BY <1>2 DEF update
<1>3. ASSUME NEW c \in Conditions, NEW st \in {"ACTIVE", "TRIGGERED", "DISABLED"},
             setConditionStatus(c, st)
      PROVE  design' = design
    BY <1>3 DEF setConditionStatus
<1>4. CASE rootCheck
    BY <1>4 DEF rootCheck
<1>5. CASE powerFlowAdjust
    BY <1>5 DEF powerFlowAdjust
<1>6. ASSUME NEW l \in [Conditions -> 0..2], gridMoves(l) PROVE design' = design
    BY <1>6 DEF gridMoves
<1>7. ASSUME NEW l \in [Conditions -> 0..2], gridJumps(l) PROVE design' = design
    BY <1>7 DEF gridJumps
<1>8. CASE vars' = vars
    BY <1>8 DEF vars
<1> QED BY <1>1, <1>2, <1>3, <1>4, <1>5, <1>6, <1>7, <1>8 DEF Next

LEMMA NextTimely ==
    ASSUME IInv, TimelyInv, [Next]_vars
    PROVE  TimelyInv'
<1> DEFINE ns == relay.nextSampleTime
<1>1. /\ design \in Designs /\ time \in 0..Horizon /\ relay \in Handled(0, ns)
      /\ relay \in RelayStates
    BY DEF IInv, TypeOK
<1>2. design' = design
    BY DesignFixed
<1>3. SUFFICES ASSUME Continued PROVE ~relay'.locked /\ Timely(relay')
    <2>1. Continued' = Continued
        BY <1>2 DEF Continued, Continuous, SinglesFirst, Accompanied, Conditions,
                    Triggers, Multi
    <2>2. Timely(relay)' <=> Timely(relay')
        BY DEF Timely
    <2> QED BY <1>3, <2>1, <2>2 DEF TimelyInv
<1>4. ~relay.locked /\ Timely(relay)
    BY <1>3 DEF TimelyInv
<1>5. /\ Timely(Begun(relay)) /\ ~Begun(relay).locked
      /\ Timely(Hung(Begun(relay))) /\ ~Hung(Begun(relay)).locked
    BY <1>1, <1>4, BegunTimely
<1>6. 0 \in Nat /\ Inf \in Nat /\ 0 \in 0..(time + 1) /\ time + 1 \in Nat
    BY <1>1, DesignFacts
<1>7. CASE advance
    BY <1>5, <1>7 DEF advance
<1>8. CASE update
    <2> DEFINE w == Locked(relay)
               a == updateA(w, level, time)
    <2>1. w \in Handled(0, ns)
        BY <1>1, LockHandled
    <2>2. OnTime(w, w)
        BY <1>1, <1>4, OnTimeOf
    <2>3. relay' = IF updateB(a, time).hung THEN Hung(Begun(relay))
                   ELSE Rescheduled(updateB(a, time))
        BY <1>8 DEF update, Locked, Hung, Rescheduled
    <2> HIDE DEF w
    <2>4. a \in TimelyFrom(time + 1, ns, w)
        BY <1>1, <1>3, <2>1, <2>2, UpdateATimely
    <2> HIDE DEF a, ns
    <2>5. a \in RelayStates /\ Timely(a) /\ a.nextUpdateTime >= time + 1
        BY <2>4 DEF TimelyFrom, Handled, Later
    <2>6. updateB(a, time) = a
        <3> DEFINE v == a.nextUpdateTime
        <3>1. v >= time + 1 /\ v \in 0..Inf /\ time \in 0..Horizon
              /\ Inf \in Nat /\ Horizon \in Nat
            BY <1>1, <2>5, DesignFacts DEF RelayStates
        <3> HIDE DEF v
        <3>2. v > time
            BY <3>1
        <3> QED BY <3>2 DEF v, updateB
    <2>7. Timely(Rescheduled(a)) /\ ~Rescheduled(a).locked
        BY <2>5, RescheduledTimely
    <2> QED BY <1>5, <2>3, <2>6, <2>7
<1>9. ASSUME NEW c \in Conditions, NEW st \in {"ACTIVE", "TRIGGERED", "DISABLED"},
             setConditionStatus(c, st)
      PROVE  ~relay'.locked /\ Timely(relay')
    <2> DEFINE a == clearCondChecks(Switching(Begun(relay), c, "DISABLED"), c)
               b == Remargined(Switching(Begun(relay), c, st), c, st)
    <2>1. a \in Handled(0, ns) /\ (st # "DISABLED" => b \in Handled(0, ns))
        BY <1>1, SetStatusHandled
    <2>2. Timely(a) /\ ~a.locked /\ Timely(b) /\ ~b.locked
        BY <1>1, <1>4, StatusTimely
    <2>3. relay' = IF st = "DISABLED" THEN updateRootCount(a) ELSE updateRootCount(b)
        BY <1>9 DEF setConditionStatus, Switching, Remargined
    <2> HIDE DEF a, b
    <2>4. a \in RelayStates /\ (st # "DISABLED" => b \in RelayStates)
        BY <2>1 DEF Handled
    <2> QED BY <2>2, <2>3, <2>4, UpdateRootsTimely
<1>10. CASE rootCheck
    <2> DEFINE a == updateA(relay, level, time)
    <2>1. OnTime(relay, relay)
        BY <1>1, <1>4, OnTimeOf
    <2>2. a \in TimelyFrom(time + 1, ns, relay)
        <3> HIDE DEF ns
        <3> QED BY <1>1, <1>3, <2>1, UpdateATimely
    <2>3. relay' = IF a.count # 0 THEN updateRootCount(alerted(a)) ELSE a
        BY <1>10 DEF rootCheck
    <2> HIDE DEF a
    <2>4. a \in RelayStates /\ Timely(a) /\ ~a.locked
        BY <1>4, <2>2 DEF TimelyFrom, Handled
    <2>5. Timely(alerted(a)) /\ SameConditions(alerted(a), a)
        <3>1. /\ \A i \in DOMAIN a.condChecks :
                        a.nextUpdateTime <= a.condChecks[i].testTime
              /\ a.condChecks # <<>> => a.updates
            BY <2>4 DEF Timely
        <3> QED BY <1>1, <2>4, <3>1, AlertedTimely
    <2>6. alerted(a) \in RelayStates
        BY <1>1, <2>4, AlertedType
    <2>7. /\ Timely(updateRootCount(alerted(a)))
          /\ updateRootCount(alerted(a)).locked = alerted(a).locked
        BY <2>5, <2>6, UpdateRootsTimely
    <2>8. ~alerted(a).locked
        BY <2>4, <2>5 DEF SameConditions
    <2> QED BY <2>3, <2>4, <2>7, <2>8
<1>11. CASE powerFlowAdjust
    <2> DEFINE b == Begun(relay)
    <2>1. b \in Handled(0, ns)
        BY <1>1, <1>6, BegunHandled
    <2>2. \A c \in Conditions : Accompanied(c, Inf)
        <3>1. ASSUME NEW c \in Conditions, NEW i \in DOMAIN Multi[c]
              PROVE  ~(Multi[c][i].delay > Inf)
            <4> DEFINE d == Multi[c][i].delay
            <4>1. /\ d \in 0..(Inf - Horizon) /\ Inf \in Nat /\ Horizon \in Nat
                BY <1>1, MultiFacts, DesignFacts
            <4> HIDE DEF d
            <4>2. ~(d > Inf)
                BY <4>1
            <4> QED BY <4>2 DEF d
        <3> QED BY <3>1 DEF Accompanied
    <2>3. relay' = sample(b, level, time, Inf)
        BY <1>11 DEF powerFlowAdjust
    <2> HIDE DEF ns
    <2>4. sample(b, level, time, Inf) \in TimelyFrom(0, ns, b)
        <3> HIDE DEF b
        <3>1. Timely(b)
            BY <1>5 DEF b
        <3> QED BY <1>1, <1>6, <2>1, <2>2, <3>1, SampleTimely
    <2> QED BY <1>5, <2>3, <2>4 DEF TimelyFrom
<1>12. ASSUME NEW l \in [Conditions -> 0..2], gridMoves(l)
       PROVE  ~relay'.locked /\ Timely(relay')
    <2>1. \/ relay' = Begun(relay)
          \/ \E mask : relay' = rootTrigger(relay, time, mask)
        BY <1>12 DEF gridMoves
    <2>2. \A mask : /\ Timely(rootTrigger(relay, time, mask))
                    /\ rootTrigger(relay, time, mask).locked = relay.locked
        <3>1. SinglesFirst
            BY <1>3 DEF Continued
        <3> QED BY <1>1, <1>4, <3>1, RootTriggerTimely
    <2> QED BY <1>4, <1>5, <2>1, <2>2
<1>13. ASSUME NEW l \in [Conditions -> 0..2], gridJumps(l)
       PROVE  ~relay'.locked /\ Timely(relay')
    BY <1>5, <1>13 DEF gridJumps
<1>14. CASE vars' = vars
    BY <1>4, <1>14 DEF vars
<1> QED BY <1>7, <1>8, <1>9, <1>10, <1>11, <1>12, <1>13, <1>14 DEF Next

LEMMA InitQueued ==
    ASSUME Init PROVE TimelyInv
<1>1. DOMAIN <<>> = {}
    OBVIOUS
<1>2. relay.condChecks = <<>> /\ relay.locked = FALSE
    BY DEF Init
<1> QED BY <1>1, <1>2 DEF TimelyInv, Timely

\* The event queue holds the relay for the first of its checks or before,
\* after any handler, for every continuous relay in which delayed actions of
\* several conditions are accompanied (SinglesFirst): alone they ask for no
\* update, and the check would wait for ever.
THEOREM ChecksOnTime == Spec => [](SinglesFirst => ChecksScheduled)
<1>1. Init => TimelyInv
    BY InitQueued
<1>2. IInv /\ TimelyInv /\ [Next]_vars => TimelyInv'
    BY NextTimely
<1>3. TimelyInv => (SinglesFirst => ChecksScheduled)
    <2>1. DOMAIN <<>> = {}
        OBVIOUS
    <2> QED BY <2>1 DEF TimelyInv, Continued, Timely, ChecksScheduled
<1> QED BY <1>1, <1>2, <1>3, RelayInvariant, PTL DEF Spec

-----------------------------------------------------------------------------
(* What the actions of one condition do                                    *)

OldCheck(x, r) == \E j \in DOMAIN r.condChecks : x = r.condChecks[j]
OldAction(x, r) == \E j \in DOMAIN r.taken : x = r.taken[j]

\* A check that condition c adds when it is triggered at t
NewCheck(x, c, t) ==
    /\ x.cond = c
    /\ ~x.multi => /\ x.action \in DOMAIN Triggers[c]
                   /\ x.testTime = t + Triggers[c][x.action].delay

\* An action that condition c takes at once
NewAction(x, c, d) ==
    /\ x.cond = c
    /\ ~x.multi => \E j \in DOMAIN Triggers[c] : /\ x.action = Triggers[c][j].action
                                                 /\ Triggers[c][j].delay <= d
    /\ x.multi => \E j \in DOMAIN Multi[c] : Multi[c][j].delay <= d

\* The relay between r and the end of the actions of c
Acted(s, r, c, t, d) ==
    /\ SameConditions(s, r)
    /\ \A i \in DOMAIN s.condChecks : \/ OldCheck(s.condChecks[i], r)
                                      \/ NewCheck(s.condChecks[i], c, t)
    /\ \A i \in DOMAIN s.taken : \/ OldAction(s.taken[i], r)
                                 \/ NewAction(s.taken[i], c, d)

LEMMA AddCheckActed ==
    ASSUME NEW s \in RelayStates, NEW r, NEW c, NEW t, NEW d, Acted(s, r, c, t, d),
           NEW x \in CondChecks, NewCheck(x, c, t)
    PROVE  Acted(addCheck(s, x), r, c, t, d)
<1> DEFINE u == IF s.updates \/ x.multi THEN Lesser(s.nextUpdateTime, x.testTime)
                ELSE x.testTime
           q == [s EXCEPT !.condChecks = Append(@, x), !.nextUpdateTime = u,
                          !.updates = @ \/ ~x.multi]
           v == addCheck(s, x)
<1>1. v = alerted(q)
    BY DEF addCheck
<1> HIDE DEF u
<1>2. /\ v.condChecks = Append(s.condChecks, x) /\ v.taken = s.taken
      /\ SameConditions(v, s) /\ s.condChecks \in Seq(CondChecks)
    <2>1. /\ q.condChecks = Append(s.condChecks, x) /\ q.taken = s.taken
          /\ SameConditions(q, s) /\ s.condChecks \in Seq(CondChecks)
        BY DEF RelayStates, SameConditions
    <2>2. /\ alerted(q).condChecks = q.condChecks /\ alerted(q).taken = q.taken
          /\ SameConditions(alerted(q), q)
        BY DEF alerted, RelayStates, SameConditions
    <2> HIDE DEF q, v
    <2> QED BY <1>1, <2>1, <2>2 DEF SameConditions
<1> HIDE DEF v
<1>3. \A i \in DOMAIN v.condChecks :
            \/ i \in DOMAIN s.condChecks /\ v.condChecks[i] = s.condChecks[i]
            \/ v.condChecks[i] = x
    BY <1>2
<1>4. Acted(v, r, c, t, d)
    BY <1>2, <1>3 DEF Acted, SameConditions
<1> QED BY <1>4 DEF v

LEMMA TakingActed ==
    ASSUME NEW s \in RelayStates, NEW r, NEW c, NEW t, NEW d, Acted(s, r, c, t, d),
           NEW x \in ActionsTaken, NewAction(x, c, d)
    PROVE  Acted(Taking(s, x), r, c, t, d)
<1> DEFINE v == Taking(s, x)
<1>1. /\ v.condChecks = s.condChecks /\ v.taken = Append(s.taken, x)
      /\ SameConditions(v, s) /\ s.taken \in Seq(ActionsTaken)
    BY DEF Taking, RelayStates, SameConditions
<1> HIDE DEF v
<1>2. \A i \in DOMAIN v.taken :
            \/ i \in DOMAIN s.taken /\ v.taken[i] = s.taken[i]
            \/ v.taken[i] = x
    BY <1>1
<1>3. Acted(v, r, c, t, d)
    BY <1>1, <1>2 DEF Acted, SameConditions
<1> QED BY <1>3 DEF v

LEMMA TriggerActionActed ==
    ASSUME design \in Designs, NEW t \in 0..Horizon, NEW s \in RelayStates, NEW r,
           NEW c \in Conditions, NEW d \in Nat, Acted(s, r, c, t, d),
           NEW i \in DOMAIN Triggers[c]
    PROVE  Acted(triggerAction(s, c, i, t, d), r, c, t, d)
<1> DEFINE x == Triggers[c][i]
           k == [cond |-> c, action |-> i, testTime |-> t + x.delay, multi |-> FALSE]
<1>1. x.action \in Nat /\ x.delay \in 0..(Inf - Horizon) /\ i \in Nat
    BY TriggerFacts
<1>2. Horizon \in Nat /\ Inf \in Nat /\ Inf > Horizon
    BY DesignFacts
<1>3. CASE x.delay <= d
    <2> DEFINE y == [action |-> x.action, cond |-> c, multi |-> FALSE]
    <2>1. triggerAction(s, c, i, t, d) = Taking(s, y)
        BY <1>3 DEF triggerAction, executeAction, Taking
    <2>2. y \in ActionsTaken /\ NewAction(y, c, d)
        BY <1>1, <1>3 DEF ActionsTaken, NewAction
    <2> HIDE DEF y
    <2> QED BY <2>1, <2>2, TakingActed
<1>4. CASE ~(x.delay <= d)
    <2>1. triggerAction(s, c, i, t, d) = addCheck(s, k)
        BY <1>4 DEF triggerAction
    <2>2. t + x.delay \in 0..Inf
        BY <1>1, <1>2
    <2>3. k \in CondChecks
        <3> HIDE DEF x
        <3> QED BY <1>1, <2>2 DEF CondChecks
    <2>4. NewCheck(k, c, t)
        BY DEF NewCheck
    <2> HIDE DEF k
    <2> QED BY <2>1, <2>3, <2>4, AddCheckActed
<1> QED BY <1>3, <1>4

LEMMA MultiCheckActed ==
    ASSUME design \in Designs, NEW t \in 0..Horizon, NEW s \in RelayStates, NEW r,
           NEW c \in Conditions, NEW d \in Nat, Acted(s, r, c, t, d),
           NEW i \in DOMAIN Multi[c]
    PROVE  Acted(multiConditionCheck(s, c, i, t, d), r, c, t, d)
<1> DEFINE x == Multi[c][i]
           k == [cond |-> c, action |-> x.action, testTime |-> t + x.delay, multi |-> TRUE]
<1>1. x.action \in Nat /\ x.delay \in 0..(Inf - Horizon)
    BY MultiFacts
<1>2. Horizon \in Nat /\ Inf \in Nat /\ Inf > Horizon
    BY DesignFacts
<1>3. CASE \E j \in x.conditions : s.cStates[j] # "TRIGGERED"
    BY <1>3 DEF multiConditionCheck
<1>4. CASE (~\E j \in x.conditions : s.cStates[j] # "TRIGGERED") /\ x.delay <= d
    <2> DEFINE y == [action |-> x.action, cond |-> c, multi |-> TRUE]
    <2>1. multiConditionCheck(s, c, i, t, d) = Taking(s, y)
        BY <1>4 DEF multiConditionCheck, executeAction, Taking
    <2>2. y \in ActionsTaken /\ NewAction(y, c, d)
        BY <1>1, <1>4 DEF ActionsTaken, NewAction
    <2> HIDE DEF y
    <2> QED BY <2>1, <2>2, TakingActed
<1>5. CASE (~\E j \in x.conditions : s.cStates[j] # "TRIGGERED") /\ ~(x.delay <= d)
    <2>1. multiConditionCheck(s, c, i, t, d) = addCheck(s, k)
        BY <1>5 DEF multiConditionCheck
    <2>2. t + x.delay \in 0..Inf
        BY <1>1, <1>2
    <2>3. k \in CondChecks /\ NewCheck(k, c, t)
        <3> HIDE DEF x
        <3> QED BY <1>1, <2>2 DEF CondChecks, NewCheck
    <2> HIDE DEF k
    <2> QED BY <2>1, <2>3, AddCheckActed
<1> QED BY <1>3, <1>4, <1>5

LEMMA TriggerConditionActed ==
    ASSUME design \in Designs, NEW t \in 0..Horizon, NEW lo \in 0..(t + 1), NEW ns,
           NEW r \in Handled(lo, ns), NEW c \in Conditions, NEW d \in Nat
    PROVE  Acted(triggerCondition(r, c, t, d), Triggered(r, c, t), c, t, d)
<1> DEFINE q == Triggered(r, c, t)
           v == triggerActions(q, c, t, d)
           S == {z \in Handled(lo, ns) : Acted(z, q, c, t, d)}
           n == Len(Triggers[c])
           m == Len(Multi[c])
<1>1. q \in Handled(lo, ns) /\ q.cStates = [r.cStates EXCEPT ![c] = "TRIGGERED"]
    BY TriggeredHandled
<1>2. q.cStates[c] = "TRIGGERED"
    BY <1>1 DEF Handled, RelayStates
<1>3. triggerCondition(r, c, t, d) = multiConditionCheckExecute(v, c, t, d)
    BY DEF triggerCondition, Triggered
<1> HIDE DEF q
<1>4. n \in Nat /\ DOMAIN Triggers[c] = 1..n /\ m \in Nat /\ DOMAIN Multi[c] = 1..m
    BY TriggerFacts, MultiFacts
<1>5. Acted(q, q, c, t, d)
    BY DEF Acted, SameConditions, OldCheck, OldAction
<1>6. \A z \in S : /\ z \in Handled(lo, ns) /\ z \in RelayStates /\ Acted(z, q, c, t, d)
                   /\ z.cStates[c] = "TRIGGERED"
    BY <1>2 DEF Handled, Acted, SameConditions
<1>7. q \in S
    BY <1>1, <1>5
<1>8. \A z \in Handled(lo, ns) : Acted(z, q, c, t, d) => z \in S
    OBVIOUS
<1> HIDE DEF S, n, m
<1>9. v \in S
    <2>1. ASSUME NEW z \in S, NEW i \in 1..n PROVE triggerAction(z, c, i, t, d) \in S
        <3>1. /\ z \in Handled(lo, ns) /\ z \in RelayStates /\ Acted(z, q, c, t, d)
              /\ z.cStates[c] = "TRIGGERED" /\ i \in DOMAIN Triggers[c]
            BY <1>4, <1>6
        <3>2. triggerAction(z, c, i, t, d) \in Handled(lo, ns)
            BY <3>1, TriggerActionHandled
        <3>3. Acted(triggerAction(z, c, i, t, d), q, c, t, d)
            BY <3>1, TriggerActionActed
        <3> QED BY <1>8, <3>2, <3>3
    <2>2. TriggerActionsClosed(S, n, c, t, d)
        BY <2>1 DEF TriggerActionsClosed
    <2>3. PICK p : TriggerActionsRun(p, S, n, q, c, t, d)
        BY <1>4, <1>7, <2>2, TriggerActionsFold
    <2> QED BY <1>4, <2>3 DEF TriggerActionsRun
<1> HIDE DEF v
<1>10. multiConditionCheckExecute(v, c, t, d) \in S
    <2>1. ASSUME NEW z \in S, NEW i \in 1..m
          PROVE  multiConditionCheck(z, c, i, t, d) \in S
        <3>1. /\ z \in Handled(lo, ns) /\ z \in RelayStates /\ Acted(z, q, c, t, d)
              /\ z.cStates[c] = "TRIGGERED" /\ i \in DOMAIN Multi[c]
            BY <1>4, <1>6
        <3>2. multiConditionCheck(z, c, i, t, d) \in Handled(lo, ns)
            BY <3>1, MultiCheckHandled
        <3>3. Acted(multiConditionCheck(z, c, i, t, d), q, c, t, d)
            BY <3>1, MultiCheckActed
        <3> QED BY <1>8, <3>2, <3>3
    <2>2. MultiConditionClosed(S, m, c, t, d)
        BY <2>1 DEF MultiConditionClosed
    <2>3. PICK p : MultiConditionRun(p, S, m, v, c, t, d)
        BY <1>4, <1>9, <2>2, MultiConditionFold
    <2> QED BY <1>4, <2>3 DEF MultiConditionRun
<1> QED BY <1>3, <1>6, <1>10 DEF q

-----------------------------------------------------------------------------
(* Roots                                                                   *)

\* w are the conditions up to m that have roots, each of them once.
RootsUpTo(w, cs, m) ==
    /\ \A k \in DOMAIN w : HasRoot(cs[w[k]]) /\ w[k] <= m
    /\ \A c \in 1..m : HasRoot(cs[c]) => \E k \in DOMAIN w : w[k] = c
    /\ \A k, j \in DOMAIN w : w[k] = w[j] => k = j

LEMMA RootsUpToStep ==
    ASSUME NEW n \in Nat, NEW w \in Seq(1..n), NEW cs, NEW i \in 1..n,
           RootsUpTo(w, cs, i - 1)
    PROVE  RootsUpTo(IF HasRoot(cs[i]) THEN Append(w, i) ELSE w, cs, i)
<1>1. \A k \in DOMAIN w : w[k] \in 1..n /\ w[k] <= i - 1 /\ HasRoot(cs[w[k]])
    BY ElementOf DEF RootsUpTo
<1>2. CASE ~HasRoot(cs[i])
    <2>1. \A k \in DOMAIN w : w[k] <= i
        BY <1>1
    <2>2. \A c \in 1..i : c = i \/ c \in 1..(i - 1)
        OBVIOUS
    <2> QED BY <1>1, <1>2, <2>1, <2>2 DEF RootsUpTo
<1>3. CASE HasRoot(cs[i])
    <2> DEFINE q == Append(w, i)
               m == Len(w)
    <2>1. /\ m \in Nat /\ DOMAIN w = 1..m /\ DOMAIN q = 1..(m + 1)
          /\ \A k \in 1..m : q[k] = w[k]
          /\ q[m + 1] = i
        OBVIOUS
    <2> HIDE DEF q, m
    <2>2. \A k \in DOMAIN q : HasRoot(cs[q[k]]) /\ q[k] <= i
        <3>1. ASSUME NEW k \in DOMAIN q PROVE HasRoot(cs[q[k]]) /\ q[k] <= i
            <4>1. CASE k \in 1..m
                <5>1. q[k] = w[k] /\ w[k] \in 1..n /\ w[k] <= i - 1 /\ HasRoot(cs[w[k]])
                    BY <1>1, <2>1, <4>1
                <5>2. w[k] <= i
                    BY <5>1
                <5> QED BY <5>1, <5>2
            <4>2. CASE k = m + 1
                BY <1>3, <2>1, <4>2
            <4> QED BY <2>1, <4>1, <4>2
        <3> QED BY <3>1
    <2>3. \A c \in 1..i : HasRoot(cs[c]) => \E k \in DOMAIN q : q[k] = c
        <3>1. ASSUME NEW c \in 1..i, HasRoot(cs[c]) PROVE \E k \in DOMAIN q : q[k] = c
            <4>1. CASE c = i
                <5>1. m + 1 \in DOMAIN q
                    BY <2>1
                <5> QED BY <2>1, <4>1, <5>1
            <4>2. CASE c \in 1..(i - 1)
                <5>1. PICK k \in DOMAIN w : w[k] = c
                    BY <3>1, <4>2 DEF RootsUpTo
                <5>2. k \in DOMAIN q /\ q[k] = c
                    BY <2>1, <5>1
                <5> QED BY <5>2
            <4> QED BY <4>1, <4>2
        <3> QED BY <3>1
    <2>4. \A k, j \in DOMAIN q : q[k] = q[j] => k = j
        <3>1. \A k \in 1..m : q[k] # i
            <4>1. ASSUME NEW k \in 1..m PROVE q[k] # i
                <5>1. q[k] = w[k] /\ w[k] \in 1..n /\ w[k] <= i - 1
                    BY <1>1, <2>1
                <5>2. w[k] < i
                    BY <5>1
                <5> QED BY <5>1, <5>2
            <4> QED BY <4>1
        <3>2. \A k, j \in 1..m : q[k] = q[j] => k = j
            BY <2>1 DEF RootsUpTo
        <3>3. \A k \in DOMAIN q : k \in 1..m \/ k = m + 1
            <4>1. m \in Nat /\ DOMAIN q = 1..(m + 1)
                BY <2>1
            <4> QED BY <4>1
        <3> QED BY <2>1, <3>1, <3>2, <3>3
    <2>5. RootsUpTo(q, cs, i)
        BY <2>2, <2>3, <2>4 DEF RootsUpTo
    <2> QED BY <1>3, <2>5 DEF q
<1> QED BY <1>2, <1>3

OnceEach(w) == \A k, j \in DOMAIN w : w[k] = w[j] => k = j

\* w are the conditions that have roots.
RootsExact(w, cs) ==
    /\ \A k \in DOMAIN w : HasRoot(cs[w[k]])
    /\ \A c \in Conditions : HasRoot(cs[c]) => \E k \in DOMAIN w : w[k] = c
    /\ OnceEach(w)

LEMMA RootsOfExact ==
    ASSUME design \in Designs, NEW cs
    PROVE  RootsExact(RootsOf(cs), cs)
<1> DEFINE n == Len(Triggers)
           S == Seq(1..n)
<1>1. n \in Nat /\ DOMAIN Triggers = 1..n /\ Conditions = 1..n
    BY DesignFacts DEF Conditions
<1>2. <<>> \in S /\ \A s \in S : \A i \in 1..n : Append(s, i) \in S
    BY <1>1
<1>3. \A s \in S : s \in Seq(1..n)
    OBVIOUS
<1> HIDE DEF S, n
<1>4. RootsClosed(S, n, cs)
    BY <1>2 DEF RootsClosed
<1>5. PICK p : RootsRun(p, S, n, cs)
    BY <1>1, <1>2, <1>4, RootsFold
<1>6. /\ p \in [0..n -> S] /\ p[0] = <<>> /\ p[n] = RootsOf(cs)
      /\ \A i \in 1..n : p[i] = IF HasRoot(cs[i]) THEN Append(p[i - 1], i) ELSE p[i - 1]
    BY <1>5 DEF RootsRun
<1> DEFINE Z == {i \in 0..n : RootsUpTo(p[i], cs, i)}
<1>7. 0 \in Z
    <2>1. DOMAIN <<>> = {} /\ 1..0 = {} /\ 0 \in 0..n
        BY <1>1
    <2>2. RootsUpTo(<<>>, cs, 0)
        BY <2>1 DEF RootsUpTo
    <2> QED BY <1>6, <2>1, <2>2
<1>8. ASSUME NEW i \in 1..n, i - 1 \in Z PROVE i \in Z
    <2>1. i - 1 \in 0..n /\ i \in 0..n /\ RootsUpTo(p[i - 1], cs, i - 1)
        BY <1>1, <1>8
    <2>2. p[i - 1] \in Seq(1..n)
        BY <1>3, <1>6, <2>1
    <2> DEFINE w == p[i - 1]
    <2>3. w \in Seq(1..n) /\ RootsUpTo(w, cs, i - 1)
        BY <2>1, <2>2
    <2>4. p[i] = IF HasRoot(cs[i]) THEN Append(w, i) ELSE w
        BY <1>6
    <2> HIDE DEF w
    <2>5. RootsUpTo(IF HasRoot(cs[i]) THEN Append(w, i) ELSE w, cs, i)
        BY <1>1, <2>3, RootsUpToStep
    <2>6. RootsUpTo(p[i], cs, i)
        BY <2>4, <2>5
    <2> QED BY <2>1, <2>6
<1>9. n \in Z
    <2> HIDE DEF Z
    <2>1. \A i \in 0..n : i \in Z
        BY <1>1, <1>7, <1>8, SetInduction
    <2> QED BY <1>1, <2>1
<1>10. RootsUpTo(p[n], cs, n)
    BY <1>9
<1> QED BY <1>1, <1>6, <1>10 DEF RootsUpTo, RootsExact, OnceEach

\* Clearing the checks of c leaves the conditions alone.
LEMMA ClearSame ==
    ASSUME design \in Designs, NEW r \in RelayStates, NEW c
    PROVE  /\ SameConditions(clearCondChecks(r, c), r)
           /\ clearCondChecks(r, c).taken = r.taken
           /\ clearCondChecks(r, c).condChecks = checksWithout(r.condChecks, c)
<1>1. PICK u : /\ Earliest(r, c, u)
               /\ clearCondChecks(r, c) = IF u # r.nextUpdateTime
                                          THEN alerted(Cleaned(r, c, u))
                                          ELSE Cleaned(r, c, u)
    BY ClearCases
<1> DEFINE q == Cleaned(r, c, u)
<1>2. /\ q.condChecks = checksWithout(r.condChecks, c) /\ q.taken = r.taken
      /\ SameConditions(q, r)
    BY DEF Cleaned, RelayStates, SameConditions
<1>3. /\ alerted(q).condChecks = q.condChecks /\ alerted(q).taken = q.taken
      /\ SameConditions(alerted(q), q)
    BY DEF Cleaned, alerted, RelayStates, SameConditions
<1> HIDE DEF q
<1>4. clearCondChecks(r, c) \in {q, alerted(q)}
    BY <1>1 DEF q
<1> QED BY <1>2, <1>3, <1>4 DEF SameConditions

\* From r to h the roots of the conditions in D were crossed at t, and what was
\* taken was taken by conditions that were ACTIVE in r.
Turned(h, r, D, t) ==
    /\ \A c \in D : IF r.cStates[c] = "ACTIVE"
                    THEN /\ h.cStates[c] = "TRIGGERED" /\ h.margin[c] = TRUE
                         /\ h.triggerTimes[c] = t
                    ELSE h.cStates[c] = "ACTIVE" /\ h.margin[c] = FALSE
    /\ \A c \in Conditions \ D : /\ h.cStates[c] = r.cStates[c]
                                 /\ h.margin[c] = r.margin[c]
                                 /\ h.triggerTimes[c] = r.triggerTimes[c]
    /\ \A i \in DOMAIN h.taken :
            /\ h.taken[i].cond \in D /\ r.cStates[h.taken[i].cond] = "ACTIVE"
            /\ NewAction(h.taken[i], h.taken[i].cond, 0)

LEMMA TriggerTurns ==
    ASSUME design \in Designs, NEW t \in 0..Horizon, NEW ns, NEW h \in Handled(0, ns),
           NEW r \in RelayStates, NEW D \in SUBSET Conditions, Turned(h, r, D, t),
           NEW c \in Conditions \ D, r.cStates[c] = "ACTIVE"
    PROVE  Turned(triggerCondition(h, c, t, 0), r, D \cup {c}, t)
<1> DEFINE q == Triggered(h, c, t)
           a == triggerCondition(h, c, t, 0)
<1>1. 0 \in Nat /\ 0 \in 0..(t + 1) /\ h \in RelayStates
    BY DesignFacts DEF Handled
<1>2. Acted(a, q, c, t, 0)
    BY <1>1, TriggerConditionActed
<1>3. /\ q.cStates = [h.cStates EXCEPT ![c] = "TRIGGERED"]
      /\ q.margin = [h.margin EXCEPT ![c] = TRUE]
      /\ q.triggerTimes = [h.triggerTimes EXCEPT ![c] = t]
      /\ q.taken = h.taken
    BY <1>1 DEF Triggered, RelayStates
<1>4. /\ DOMAIN h.cStates = Conditions /\ DOMAIN h.margin = Conditions
      /\ DOMAIN h.triggerTimes = Conditions
    BY <1>1 DEF RelayStates
<1> HIDE DEF q, a
<1>5. a.cStates = q.cStates /\ a.margin = q.margin /\ a.triggerTimes = q.triggerTimes
    BY <1>2 DEF Acted, SameConditions
<1>6. a.cStates[c] = "TRIGGERED" /\ a.margin[c] = TRUE /\ a.triggerTimes[c] = t
    BY <1>3, <1>4, <1>5
<1>7. \A k \in Conditions : k # c => /\ a.cStates[k] = h.cStates[k]
                                     /\ a.margin[k] = h.margin[k]
                                     /\ a.triggerTimes[k] = h.triggerTimes[k]
    BY <1>3, <1>4, <1>5
<1>8. \A i \in DOMAIN a.taken :
            /\ a.taken[i].cond \in D \cup {c} /\ r.cStates[a.taken[i].cond] = "ACTIVE"
            /\ NewAction(a.taken[i], a.taken[i].cond, 0)
    <2>1. ASSUME NEW i \in DOMAIN a.taken
          PROVE  /\ a.taken[i].cond \in D \cup {c} /\ r.cStates[a.taken[i].cond] = "ACTIVE"
                 /\ NewAction(a.taken[i], a.taken[i].cond, 0)
        <3>1. CASE OldAction(a.taken[i], q)
            BY <1>3, <3>1 DEF OldAction, Turned
        <3>2. CASE NewAction(a.taken[i], c, 0)
            <4>1. a.taken[i].cond = c
                BY <3>2 DEF NewAction
            <4> QED BY <3>2, <4>1
        <3> QED BY <1>2, <3>1, <3>2 DEF Acted
    <2> QED BY <2>1
<1>9. Turned(a, r, D \cup {c}, t)
    BY <1>6, <1>7, <1>8 DEF Turned
<1> QED BY <1>9 DEF a

LEMMA ClearTurns ==
    ASSUME design \in Designs, NEW t \in 0..Horizon, NEW ns, NEW h \in Handled(0, ns),
           NEW r \in RelayStates, NEW D \in SUBSET Conditions, Turned(h, r, D, t),
           NEW c \in Conditions \ D, r.cStates[c] # "ACTIVE"
    PROVE  Turned(clearCondChecks(cleared(h, c), c), r, D \cup {c}, t)
<1> DEFINE q == cleared(h, c)
           b == clearCondChecks(q, c)
<1>1. h \in RelayStates /\ q \in RelayStates
    <2>1. 0 \in Nat
        OBVIOUS
    <2>2. q \in Handled(0, ns)
        BY <2>1, ClearedHandled
    <2> QED BY <2>2 DEF Handled
<1>2. /\ q.cStates = [h.cStates EXCEPT ![c] = "ACTIVE"]
      /\ q.margin = [h.margin EXCEPT ![c] = FALSE]
      /\ q.triggerTimes = h.triggerTimes /\ q.taken = h.taken
    BY <1>1 DEF cleared, RelayStates
<1>3. DOMAIN h.cStates = Conditions /\ DOMAIN h.margin = Conditions
    BY <1>1 DEF RelayStates
<1> HIDE DEF q
<1>4. SameConditions(b, q) /\ b.taken = q.taken
    BY <1>1, ClearSame
<1> HIDE DEF b
<1>5. b.cStates = q.cStates /\ b.margin = q.margin /\ b.triggerTimes = q.triggerTimes
    BY <1>4 DEF SameConditions
<1>6. b.cStates[c] = "ACTIVE" /\ b.margin[c] = FALSE
    BY <1>2, <1>3, <1>5
<1>7. \A k \in Conditions : k # c => /\ b.cStates[k] = h.cStates[k]
                                     /\ b.margin[k] = h.margin[k]
                                     /\ b.triggerTimes[k] = h.triggerTimes[k]
    BY <1>2, <1>3, <1>5
<1>8. b.taken = h.taken
    BY <1>2, <1>4
<1>9. Turned(b, r, D \cup {c}, t)
    BY <1>6, <1>7, <1>8 DEF Turned
<1> QED BY <1>9 DEF b, q

\* The loop of rootTrigger has come to the relay h and the position k.
StandsAt(s, h, k) == s.r = h /\ s.position = k

\* A turn of the loop at the position k, where the condition c has its root
StepTurned(z, r, D, c, t, k, mask) ==
    /\ z.position = k + 1
    /\ k \in mask => Turned(z.r, r, D \cup {c}, t)
    /\ k \notin mask => Turned(z.r, r, D, t)


\* One turn of the loop of rootTrigger: the condition has a root, so the offset
\* goes on with it.
LEMMA RootStepTurns ==
    ASSUME design \in Designs, NEW t \in 0..Horizon, NEW ns, NEW h \in Handled(0, ns),
           NEW r \in RelayStates, NEW D \in SUBSET Conditions, Turned(h, r, D, t),
           NEW c \in Conditions, c \notin D, HasRoot(r.cStates[c]), NEW k \in Nat,
           NEW mask, NEW s, StandsAt(s, h, k)
    PROVE  StepTurned(rootStep(s, c, t, mask), r, D, c, t, k, mask)
<1>1. s.r = h /\ s.position = k /\ h.cStates[c] = r.cStates[c]
    BY DEF Turned, StandsAt
<1> DEFINE a == triggerCondition(h, c, t, 0)
           b == clearCondChecks(cleared(h, c), c)
<1> DEFINE z == rootStep(s, c, t, mask)
           Good == /\ z.position = k + 1
                   /\ k \in mask => Turned(z.r, r, D \cup {c}, t)
                   /\ k \notin mask => Turned(z.r, r, D, t)
<1>2. ASSUME r.cStates[c] = "ACTIVE" PROVE Good
    <2>1. Turned(a, r, D \cup {c}, t)
        BY <1>2, TriggerTurns
    <2>2. rootStep(s, c, t, mask) = [r |-> IF k \in mask THEN a ELSE h, position |-> k + 1]
        BY <1>1, <1>2 DEF rootStep
    <2> HIDE DEF a
    <2> QED BY <2>1, <2>2
<1>3. ASSUME r.cStates[c] # "ACTIVE" PROVE Good
    <2>1. r.cStates[c] = "TRIGGERED" /\ Resettable
        BY <1>3 DEF HasRoot
    <2>2. Turned(b, r, D \cup {c}, t)
        BY <1>3, ClearTurns
    <2>3. rootStep(s, c, t, mask) = [r |-> IF k \in mask THEN b ELSE h, position |-> k + 1]
        BY <1>1, <2>1 DEF rootStep
    <2> HIDE DEF b
    <2> QED BY <2>2, <2>3
<1> QED BY <1>2, <1>3 DEF StepTurned

\* The conditions at the positions of mask up to i
Crossed(w, mask, i) == {w[k] : k \in mask \cap (1..i)}

LEMMA CrossedStep ==
    ASSUME NEW n \in Nat, NEW w, DOMAIN w = 1..n, NEW mask, NEW i \in 1..n,
           OnceEach(w)
    PROVE  /\ w[i] \notin Crossed(w, mask, i - 1)
           /\ i \in mask => Crossed(w, mask, i) = Crossed(w, mask, i - 1) \cup {w[i]}
           /\ i \notin mask => Crossed(w, mask, i) = Crossed(w, mask, i - 1)
<1>1. \A k \in 1..i : k = i \/ k \in 1..(i - 1)
    OBVIOUS
<1>2. i \in 1..i /\ i \notin 1..(i - 1) /\ \A k \in 1..(i - 1) : k \in 1..i /\ k \in 1..n /\ k # i
    OBVIOUS
<1>3. w[i] \notin Crossed(w, mask, i - 1)
    BY <1>2 DEF Crossed, OnceEach
<1>4. \A z : z \in Crossed(w, mask, i)
                <=> z \in Crossed(w, mask, i - 1) \/ (i \in mask /\ z = w[i])
    BY <1>1, <1>2 DEF Crossed
<1>5. ASSUME i \in mask PROVE Crossed(w, mask, i) = Crossed(w, mask, i - 1) \cup {w[i]}
    BY <1>4, <1>5
<1>6. ASSUME i \notin mask PROVE Crossed(w, mask, i) = Crossed(w, mask, i - 1)
    BY <1>4, <1>6
<1> QED BY <1>3, <1>5, <1>6

\* rootTrigger turns exactly the conditions whose roots the solver found.
LEMMA RootTriggerTurns ==
    ASSUME design \in Designs, NEW t \in 0..Horizon, NEW ns, NEW r \in Handled(0, ns),
           NEW mask \in SUBSET (DOMAIN r.withRoots), RootsExact(r.withRoots, r.cStates)
    PROVE  Turned(rootTrigger(r, t, mask), r, {r.withRoots[k] : k \in mask}, t)
<1> DEFINE S == [r : Handled(0, ns), position : Nat]
           w == r.withRoots
           n == Len(w)
<1>1. /\ n \in Nat /\ DOMAIN w = 1..n /\ r \in RelayStates
      /\ \A i \in 1..n : w[i] \in Conditions
    BY ElementOf DEF Handled, RelayStates
<1>2. /\ OnceEach(w)
      /\ \A k \in DOMAIN w : HasRoot(r.cStates[w[k]])
    BY DEF RootsExact
<1>3. PICK p : RootStepsRun(p, S, n, r, t, mask)
    BY RootPath
<1> DEFINE z == rootSteps(r, t, mask)
<1>4. /\ p \in [0..n -> S] /\ p[0] = [r |-> Begun(r), position |-> 1] /\ p[n].r = z
      /\ \A i \in 1..n : p[i] = rootStep(p[i - 1], w[i], t, mask)
    BY <1>3 DEF RootStepsRun
<1>5. \A i \in 0..n : Crossed(w, mask, i) \in SUBSET Conditions
    <2>1. \A i \in 0..n : \A k \in 1..i : k \in 1..n
        BY <1>1
    <2> QED BY <1>1, <2>1 DEF Crossed
<1> HIDE DEF n, w, z
<1> DEFINE Z == {i \in 0..n : /\ p[i].position = i + 1
                              /\ Turned(p[i].r, r, Crossed(w, mask, i), t)}
<1>6. 0 \in Z
    <2> DEFINE b == Begun(r)
    <2>1. /\ b.cStates = r.cStates /\ b.margin = r.margin
          /\ b.triggerTimes = r.triggerTimes /\ b.taken = <<>>
        BY <1>1 DEF Begun, RelayStates
    <2>2. DOMAIN <<>> = {} /\ Crossed(w, mask, 0) = {} /\ 0 \in 0..n
        BY <1>1 DEF Crossed
    <2> HIDE DEF b
    <2>3. Turned(b, r, Crossed(w, mask, 0), t)
        BY <2>1, <2>2 DEF Turned
    <2> QED BY <1>4, <2>2, <2>3 DEF b
<1>7. ASSUME NEW i \in 1..n, i - 1 \in Z PROVE i \in Z
    <2> DEFINE s == p[i - 1]
               h == s.r
               D == Crossed(w, mask, i - 1)
               c == w[i]
               q == rootStep(s, c, t, mask)
    <2>1. i - 1 \in 0..n /\ i \in 0..n /\ i \in DOMAIN w /\ (i - 1) + 1 = i /\ i \in Nat
        BY <1>1
    <2>2. s \in S /\ s.position = i /\ Turned(h, r, D, t)
        BY <1>4, <1>7, <2>1
    <2>3. h \in Handled(0, ns) /\ StandsAt(s, h, i)
        BY <2>2 DEF StandsAt
    <2>4. p[i] = q
        BY <1>4
    <2>5. /\ c \notin D
          /\ i \in mask => Crossed(w, mask, i) = D \cup {c}
          /\ i \notin mask => Crossed(w, mask, i) = D
        BY <1>1, <1>2, CrossedStep
    <2>6. c \in Conditions /\ HasRoot(r.cStates[c])
        BY <1>1, <1>2, <2>1
    <2>7. D \in SUBSET Conditions
        BY <1>5, <2>1
    <2>8. r \in RelayStates /\ i \in Nat /\ Turned(h, r, D, t) /\ c \notin D
        BY <1>1, <2>1, <2>2, <2>5
    <2> HIDE DEF s, h, D, c
    <2>9. StepTurned(q, r, D, c, t, i, mask)
        BY <2>3, <2>6, <2>7, <2>8, RootStepTurns
    <2> HIDE DEF q
    <2>10. q.position = i + 1 /\ Turned(q.r, r, Crossed(w, mask, i), t)
        <3>1. CASE i \in mask
            BY <2>5, <2>9, <3>1 DEF StepTurned
        <3>2. CASE i \notin mask
            BY <2>5, <2>9, <3>2 DEF StepTurned
        <3> QED BY <3>1, <3>2
    <2> QED BY <2>1, <2>4, <2>10
<1>8. n \in Z
    <2> HIDE DEF Z
    <2>1. \A i \in 0..n : i \in Z
        BY <1>1, <1>6, <1>7, SetInduction
    <2> QED BY <1>1, <2>1
<1>9. Turned(z, r, Crossed(w, mask, n), t)
    BY <1>4, <1>8
<1>10. Crossed(w, mask, n) = {r.withRoots[k] : k \in mask}
    <2>1. mask \cap (1..n) = mask
        BY <1>1 DEF w
    <2> QED BY <2>1 DEF Crossed, w
<1>11. z \in RelayStates
    <2>1. n \in 0..n
        BY <1>1
    <2>2. p[n] \in S
        BY <1>4, <2>1
    <2>3. p[n].r \in Handled(0, ns)
        BY <2>2
    <2> QED BY <1>4, <2>3 DEF Handled
<1>12. LET q == rootTrigger(r, t, mask)
       IN  /\ q.cStates = z.cStates /\ q.margin = z.margin /\ q.taken = z.taken
           /\ q.triggerTimes = z.triggerTimes
    BY <1>11 DEF rootTrigger, updateRootCount, RelayStates, z
<1> QED BY <1>9, <1>10, <1>12 DEF Turned

\* The relay knows which of its conditions have roots.
Exact(r) == RootsExact(r.withRoots, r.cStates)

\* The same conditions are DISABLED.
SameDisabled(q, r) ==
    \A c \in Conditions : q.cStates[c] = "DISABLED" <=> r.cStates[c] = "DISABLED"

\* In a relay that can reset a condition has a root unless it is DISABLED.
LEMMA ExactSame ==
    ASSUME design \in Designs, Resettable, NEW r \in RelayStates, NEW q \in RelayStates,
           Exact(r), q.withRoots = r.withRoots, SameDisabled(q, r)
    PROVE  Exact(q)
<1>1. \A c \in Conditions : HasRoot(q.cStates[c]) <=> HasRoot(r.cStates[c])
    BY DEF SameDisabled, HasRoot, RelayStates
<1>2. \A k \in DOMAIN r.withRoots : r.withRoots[k] \in Conditions
    BY ElementOf DEF RelayStates
<1> QED BY <1>1, <1>2 DEF Exact, RootsExact

LEMMA UpdateRootsExact ==
    ASSUME design \in Designs, NEW r \in RelayStates
    PROVE  Exact(updateRootCount(r))
<1>1. /\ updateRootCount(r).withRoots = RootsOf(r.cStates)
      /\ updateRootCount(r).cStates = r.cStates
    BY DEF updateRootCount, RelayStates
<1> QED BY <1>1, RootsOfExact DEF Exact

LEMMA TriggerConditionExact ==
    ASSUME design \in Designs, Resettable, NEW t \in 0..Horizon, NEW lo \in 0..(t + 1),
           NEW ns, NEW r \in Handled(lo, ns), NEW c \in Conditions, NEW d \in Nat,
           r.cStates[c] # "DISABLED", Exact(r)
    PROVE  Exact(triggerCondition(r, c, t, d))
<1> DEFINE q == triggerCondition(r, c, t, d)
           b == Triggered(r, c, t)
<1>1. q \in Handled(lo, ns) /\ q.cStates = [r.cStates EXCEPT ![c] = "TRIGGERED"]
    BY TriggerConditionHandled
<1>2. Acted(q, b, c, t, d)
    BY TriggerConditionActed
<1>3. b.withRoots = r.withRoots
    BY DEF Triggered, Handled, RelayStates
<1> HIDE DEF q, b
<1>4. q.withRoots = r.withRoots
    BY <1>2, <1>3 DEF Acted, SameConditions
<1>5. q \in RelayStates /\ r \in RelayStates
    BY <1>1 DEF Handled
<1>6. SameDisabled(q, r)
    BY <1>1, <1>5 DEF SameDisabled, RelayStates
<1>7. Exact(q)
    BY <1>4, <1>5, <1>6, ExactSame
<1> QED BY <1>7 DEF q

ExactIn(lo, ns) == {r \in Handled(lo, ns) : Exact(r)}

LEMMA SampleExact ==
    ASSUME design \in Designs, Resettable, NEW t \in 0..Horizon, NEW lo \in 0..(t + 1),
           NEW ns, NEW r \in ExactIn(lo, ns), NEW l, NEW d \in Nat
    PROVE  sample(r, l, t, d) \in ExactIn(lo, ns)
<1> DEFINE S == ExactIn(lo, ns)
           n == Len(Triggers)
<1>1. n \in Nat /\ DOMAIN Triggers = 1..n /\ Conditions = 1..n
    BY DesignFacts DEF Conditions
<1>2. ASSUME NEW s \in S, NEW i \in 1..n PROVE sampleOne(s, i, l, t, d) \in S
    <2>1. s \in Handled(lo, ns) /\ Exact(s)
        BY DEF ExactIn
    <2>2. i \in Conditions
        BY <1>1
    <2> DEFINE q == triggerCondition(s, i, t, d)
    <2> HIDE DEF S, n
    <2>3. q \in Handled(lo, ns)
        BY <2>1, <2>2, TriggerConditionHandled
    <2>4. ASSUME s.cStates[i] = "ACTIVE" PROVE q \in S
        <3>1. s.cStates[i] # "DISABLED"
            BY <2>4
        <3>2. Exact(q)
            BY <2>1, <2>2, <3>1, TriggerConditionExact
        <3> HIDE DEF q
        <3> QED BY <2>3, <3>2 DEF S, ExactIn
    <2> HIDE DEF q
    <2> QED BY <2>4 DEF sampleOne, q
<1> HIDE DEF S, n
<1>3. SampleClosed(S, n, l, t, d)
    BY <1>2 DEF SampleClosed
<1>4. r \in S
    BY DEF S
<1>5. PICK p : SampleRun(p, S, n, r, l, t, d)
    BY <1>1, <1>3, <1>4, SampleFold
<1> QED BY <1>1, <1>5 DEF S, SampleRun

\* The action of several conditions leaves the conditions alone.
LEMMA MultiDueSame ==
    ASSUME design \in Designs, NEW t \in 0..Horizon, NEW r \in RelayStates,
           NEW x \in CondChecks, x.action \in DOMAIN Multi[x.cond]
    PROVE  SameConditions(multiDue(r, x, t), r)
<1> DEFINE m == Multi[x.cond][x.action]
           y == [action |-> m.action, cond |-> x.cond, multi |-> TRUE]
<1>1. SameConditions(r, r) /\ SameConditions(Taking(r, y), r)
    BY DEF SameConditions, Taking, RelayStates
<1>2. \A k : SameConditions(Postponed(r, x, m, k), r)
    BY DEF SameConditions, Postponed, Keeping, RelayStates
<1>3. executeAction(r, m.action, x.cond, TRUE) = Taking(r, y)
    BY DEF Taking, executeAction
<1>4. m = Multi[x.cond][x.action]
    OBVIOUS
<1> HIDE DEF m, y
<1>5. \/ multiDue(r, x, t) = executeAction(r, m.action, x.cond, TRUE)
      \/ multiDue(r, x, t) = r
      \/ \E k \in Young(r, m, t) : multiDue(r, x, t) = Postponed(r, x, m, k)
    BY <1>4, MultiDueCases
<1> QED BY <1>1, <1>2, <1>3, <1>5

LEMMA EvaluateExact ==
    ASSUME design \in Designs, Resettable, NEW t \in 0..Horizon, NEW lo \in 0..(t + 1),
           NEW ns, NEW r \in Handled(lo, ns), NEW l, NEW x, Evaluable(r, x), Exact(r)
    PROVE  Exact(evaluateCondCheck(r, x, t, l))
<1> DEFINE a == cleared(r, x.cond)
           b == singleDue(r, x)
           m == multiDue(r, x, t)
           k == Keeping(r, x)
<1>1. r \in RelayStates /\ x \in CondChecks /\ x.cond \in Conditions
      /\ (x.multi => x.action \in DOMAIN Multi[x.cond])
    BY DEF Handled, Evaluable, CondChecks
<1>2. a \in RelayStates
    <2>1. lo \in Nat
        BY DesignFacts
    <2> QED BY <1>1, <2>1, ClearedHandled DEF Handled
<1>3. Exact(updateRootCount(a))
    BY <1>2, UpdateRootsExact
<1>4. /\ b.withRoots = r.withRoots /\ b.cStates = r.cStates
      /\ k.withRoots = r.withRoots /\ k.cStates = r.cStates
    BY <1>1 DEF singleDue, executeAction, Keeping, RelayStates
<1>5. ASSUME x.multi PROVE m.withRoots = r.withRoots /\ m.cStates = r.cStates
    BY <1>1, <1>5, MultiDueSame DEF SameConditions
<1>6. evaluateCondCheck(r, x, t, l) = IF t >= x.testTime
        THEN IF ~Check(l[x.cond], r.margin[x.cond]) THEN updateRootCount(a)
             ELSE IF x.multi THEN m ELSE b
        ELSE IF r.cStates[x.cond] = "TRIGGERED" THEN k ELSE r
    BY DEF evaluateCondCheck, Keeping
<1> HIDE DEF a, b, m, k
<1> QED BY <1>3, <1>4, <1>5, <1>6 DEF Exact

LEMMA EvaluateAllExact ==
    ASSUME design \in Designs, Resettable, NEW t \in 0..Horizon, NEW lo \in 0..(t + 1),
           NEW ns, NEW r \in ExactIn(lo, ns), NEW l, NEW checks \in Seq(CondChecks),
           \A j \in DOMAIN checks : Evaluable(r, checks[j])
    PROVE  evaluateCondChecks(r, checks, t, l) \in ExactIn(lo, ns)
<1> DEFINE S == {s \in ExactIn(lo, ns) : \A j \in DOMAIN checks : Evaluable(s, checks[j])}
           n == Len(checks)
<1>1. n \in Nat /\ DOMAIN checks = 1..n
    OBVIOUS
<1>2. r \in S
    OBVIOUS
<1>3. ASSUME NEW s \in S, NEW i \in 1..n PROVE evaluateCondCheck(s, checks[i], t, l) \in S
    <2> DEFINE q == evaluateCondCheck(s, checks[i], t, l)
    <2>1. /\ s \in Handled(lo, ns) /\ Exact(s)
          /\ \A j \in DOMAIN checks : Evaluable(s, checks[j])
        BY DEF ExactIn
    <2>2. Evaluable(s, checks[i])
        BY <1>1, <2>1
    <2> HIDE DEF S, n
    <2>3. /\ q \in Handled(lo, ns)
          /\ \A k \in Conditions : s.cStates[k] # "DISABLED" => q.cStates[k] # "DISABLED"
        BY <2>1, <2>2, EvaluateHandled
    <2>4. Exact(q)
        BY <2>1, <2>2, EvaluateExact
    <2> HIDE DEF q
    <2>5. \A j \in DOMAIN checks : Evaluable(q, checks[j])
        BY <2>1, <2>3 DEF Evaluable, CondChecks
    <2> QED BY <2>3, <2>4, <2>5 DEF S, q, ExactIn
<1> HIDE DEF S, n
<1>4. EvaluateClosed(S, n, checks, t, l)
    BY <1>3 DEF EvaluateClosed
<1>5. PICK p : EvaluateRun(p, S, n, r, checks, t, l)
    BY <1>1, <1>2, <1>4, EvaluateFold
<1> QED BY <1>1, <1>5 DEF S, EvaluateRun

LEMMA WaitingExact ==
    ASSUME design \in Designs, Resettable, NEW t \in 0..Horizon, NEW ns,
           NEW r \in ExactIn(0, ns), NEW l
    PROVE  Waiting(r, l, t) \in ExactIn(t + 1, ns)
<1> DEFINE b == UpdateStart(r)
           due == evaluateCondChecks(b, r.condChecks, t, l)
           q == Waiting(r, l, t)
<1>1. t + 1 \in 0..(t + 1) /\ r \in Handled(0, ns) /\ Exact(r)
    BY DesignFacts DEF ExactIn
<1>2. /\ b \in Handled(t + 1, ns) /\ r.condChecks \in Seq(CondChecks)
      /\ \A j \in DOMAIN r.condChecks : Evaluable(b, r.condChecks[j])
    BY <1>1, StartHandled
<1>3. b.withRoots = r.withRoots /\ b.cStates = r.cStates
    BY <1>1 DEF UpdateStart, Begun, Handled, RelayStates
<1> HIDE DEF b
<1>4. b \in ExactIn(t + 1, ns)
    BY <1>1, <1>2, <1>3 DEF Exact, ExactIn
<1>5. due \in ExactIn(t + 1, ns)
    BY <1>1, <1>2, <1>4, EvaluateAllExact
<1>6. q \in Handled(t + 1, ns)
    BY <1>1, WaitingHandled
<1>7. q = [due EXCEPT !.nextUpdateTime = earliestCheck(due)]
    BY DEF Waiting, due, b
<1> HIDE DEF due, q
<1>8. q.withRoots = due.withRoots /\ q.cStates = due.cStates
    BY <1>5, <1>7 DEF ExactIn, Handled, RelayStates
<1> QED BY <1>5, <1>6, <1>8 DEF Exact, ExactIn, q

\* Relay::updateA
LEMMA UpdateAExact ==
    ASSUME design \in Designs, Resettable, NEW t \in 0..Horizon, NEW ns,
           NEW r \in ExactIn(0, ns), NEW l
    PROVE  Exact(updateA(r, l, t))
<1> DEFINE w == Waiting(r, l, t)
           s == sample(w, l, t, 0)
<1>1. t + 1 \in 0..(t + 1) /\ 0 \in Nat
    BY DesignFacts
<1>2. w \in ExactIn(t + 1, ns)
    BY WaitingExact
<1> HIDE DEF w
<1>3. s \in ExactIn(t + 1, ns)
    BY <1>1, <1>2, SampleExact
<1>4. /\ sampleDue(w, l, t).withRoots = s.withRoots
      /\ sampleDue(w, l, t).cStates = s.cStates
    BY <1>3 DEF sampleDue, ExactIn, Handled, RelayStates
<1>5. updateA(r, l, t) \in {s, sampleDue(w, l, t), w}
    BY UpdateACases DEF w, s
<1> HIDE DEF s
<1> QED BY <1>2, <1>3, <1>4, <1>5 DEF Exact, ExactIn

LEMMA RootStepsType ==
    ASSUME design \in Designs, NEW t \in 0..Horizon, NEW ns, NEW r \in Handled(0, ns),
           NEW mask
    PROVE  rootSteps(r, t, mask) \in RelayStates
<1> DEFINE n == Len(r.withRoots)
           S == [r : Handled(0, ns), position : Nat]
<1>1. n \in Nat
    BY DEF Handled, RelayStates
<1>2. PICK p : RootStepsRun(p, S, n, r, t, mask)
    BY RootPath
<1> HIDE DEF n
<1>3. p \in [0..n -> S] /\ p[n].r = rootSteps(r, t, mask) /\ n \in 0..n
    BY <1>1, <1>2 DEF RootStepsRun
<1>4. p[n] \in S
    BY <1>3
<1>5. p[n].r \in Handled(0, ns)
    BY <1>4
<1> QED BY <1>3, <1>5 DEF Handled

ExactInv == Continuous /\ Resettable => Exact(relay)

LEMMA NextExact ==
    ASSUME IInv, ExactInv, [Next]_vars
    PROVE  ExactInv'
<1> DEFINE ns == relay.nextSampleTime
<1>1. /\ design \in Designs /\ time \in 0..Horizon /\ relay \in Handled(0, ns)
      /\ relay \in RelayStates
    BY DEF IInv, TypeOK
<1>2. design' = design
    BY DesignFixed
<1>3. SUFFICES ASSUME Continuous, Resettable PROVE Exact(relay')
    <2>1. Resettable' = Resettable /\ Continuous' = Continuous
        BY <1>2 DEF Resettable, Continuous
    <2>2. Exact(relay)' <=> Exact(relay')
        BY <1>2 DEF Exact, RootsExact, HasRoot, Resettable, Conditions, Triggers
    <2> QED BY <1>3, <2>1, <2>2 DEF ExactInv
<1>4. Exact(relay) /\ relay \in ExactIn(0, ns)
    BY <1>1, <1>3 DEF ExactInv, ExactIn
<1>5. Exact(Begun(relay)) /\ Exact(Hung(Begun(relay)))
    BY <1>1, <1>4 DEF Exact, Begun, Hung, RelayStates
<1>6. 0 \in Nat /\ Inf \in Nat /\ 0 \in 0..(time + 1)
    BY <1>1, DesignFacts
<1>7. CASE advance
    BY <1>5, <1>7 DEF advance
<1>8. CASE update
    <2> DEFINE w == Locked(relay)
               a == updateA(w, level, time)
               b == updateB(a, time)
    <2>1. w \in ExactIn(0, ns)
        BY <1>1, <1>4, LockHandled DEF ExactIn, Exact, Locked, RelayStates
    <2>2. relay' = IF b.hung THEN Hung(Begun(relay)) ELSE Rescheduled(b)
        BY <1>8 DEF update, Locked, Hung, Rescheduled
    <2> HIDE DEF w, ns
    <2>3. Exact(a)
        BY <1>1, <1>3, <2>1, UpdateAExact
    <2>4. \E m : b \in Handled(0, m)
        BY <1>1, UpdateHandled DEF w
    <2>5. b \in RelayStates
        BY <2>4 DEF Handled
    <2>6. a \in RelayStates
        BY <1>1, <2>1, UpdateAHandled DEF Handled, ExactIn
    <2>7. b.withRoots = a.withRoots /\ b.cStates = a.cStates
        BY <2>6 DEF updateB, RelayStates
    <2> HIDE DEF a, b
    <2>8. Rescheduled(b).withRoots = b.withRoots /\ Rescheduled(b).cStates = b.cStates
        BY <2>5 DEF Rescheduled, RelayStates
    <2> QED BY <1>5, <2>2, <2>3, <2>7, <2>8 DEF Exact
<1>9. ASSUME NEW c \in Conditions, NEW st \in {"ACTIVE", "TRIGGERED", "DISABLED"},
             setConditionStatus(c, st)
      PROVE  Exact(relay')
    <2> DEFINE a == clearCondChecks(Switching(Begun(relay), c, "DISABLED"), c)
               b == Remargined(Switching(Begun(relay), c, st), c, st)
    <2>1. a \in Handled(0, ns) /\ (st # "DISABLED" => b \in Handled(0, ns))
        BY <1>1, SetStatusHandled
    <2>2. relay' = IF st = "DISABLED" THEN updateRootCount(a) ELSE updateRootCount(b)
        BY <1>9 DEF setConditionStatus, Switching, Remargined
    <2> HIDE DEF a, b
    <2>3. a \in RelayStates /\ (st # "DISABLED" => b \in RelayStates)
        BY <2>1 DEF Handled
    <2> QED BY <1>1, <2>2, <2>3, UpdateRootsExact
<1>10. CASE rootCheck
    <2> DEFINE a == updateA(relay, level, time)
    <2> HIDE DEF ns
    <2>1. Exact(a)
        BY <1>1, <1>3, <1>4, UpdateAExact
    <2>2. a \in RelayStates
        BY <1>1, UpdateAHandled DEF Handled
    <2>3. relay' = IF a.count # 0 THEN updateRootCount(alerted(a)) ELSE a
        BY <1>10 DEF rootCheck
    <2> HIDE DEF a
    <2>4. Exact(updateRootCount(alerted(a)))
        BY <1>1, <2>2, AlertedType, UpdateRootsExact
    <2> QED BY <2>1, <2>3, <2>4
<1>11. CASE powerFlowAdjust
    <2> DEFINE b == Begun(relay)
    <2>1. b \in Handled(0, ns)
        BY <1>1, <1>6, BegunHandled
    <2>2. b \in ExactIn(0, ns)
        BY <1>5, <2>1 DEF ExactIn
    <2>3. relay' = sample(b, level, time, Inf)
        BY <1>11 DEF powerFlowAdjust
    <2> HIDE DEF b, ns
    <2>4. sample(b, level, time, Inf) \in ExactIn(0, ns)
        BY <1>1, <1>3, <1>6, <2>2, SampleExact
    <2> QED BY <2>3, <2>4 DEF ExactIn
<1>12. ASSUME NEW l \in [Conditions -> 0..2], gridMoves(l)
       PROVE  Exact(relay')
    <2>1. \/ relay' = Begun(relay)
          \/ \E mask : relay' = rootTrigger(relay, time, mask)
        BY <1>12 DEF gridMoves
    <2>2. ASSUME NEW mask PROVE Exact(rootTrigger(relay, time, mask))
        <3> DEFINE z == rootSteps(relay, time, mask)
        <3>1. z \in RelayStates
            BY <1>1, RootStepsType
        <3> HIDE DEF z
        <3>2. Exact(updateRootCount(z))
            BY <1>1, <3>1, UpdateRootsExact
        <3> QED BY <3>2 DEF z, rootTrigger
    <2> QED BY <1>5, <2>1, <2>2
<1>13. ASSUME NEW l \in [Conditions -> 0..2], gridJumps(l)
       PROVE  Exact(relay')
    BY <1>5, <1>13 DEF gridJumps
<1>14. CASE vars' = vars
    BY <1>4, <1>14 DEF vars
<1> QED BY <1>7, <1>8, <1>9, <1>10, <1>11, <1>12, <1>13, <1>14 DEF Next

LEMMA InitExact ==
    ASSUME Init PROVE ExactInv
<1>1. design \in Designs
    BY DEF Init
<1>2. Continuous => relay.withRoots = RootsOf(relay.cStates)
    BY DEF Init
<1> QED BY <1>1, <1>2, RootsOfExact DEF ExactInv, Exact

\* What the solver found at the roots of l, as in gridMoves
Mask(l) ==
    {p \in DOMAIN relay.withRoots :
        Check(l[relay.withRoots[p]], relay.margin[relay.withRoots[p]])
            # Check(level[relay.withRoots[p]], relay.margin[relay.withRoots[p]])}

\* When the solver of a relay that can reset stops at a root, every ACTIVE
\* condition that has become true there is triggered, however many roots are
\* found at once and whatever happened before, jumps and setConditionStatus
\* included: the offsets of the roots are always those of the conditions.
THEOREM RootsAlwaysTrigger == Spec /\ Resettable => RootsTrigger
<1> DEFINE Step == Continuous /\ (\E l \in [Conditions -> 0..2] : gridMoves(l)) =>
                       \A c \in Conditions :
                           /\ relay.cStates[c] = "ACTIVE" /\ ~Check(level[c], relay.margin[c])
                           /\ Check(level'[c], relay.margin[c])
                           => relay'.cStates[c] = "TRIGGERED"
<1>1. IInv /\ ExactInv /\ Resettable => Step
    <2>1. SUFFICES ASSUME IInv, ExactInv, Resettable, Continuous, NEW l \in [Conditions -> 0..2], gridMoves(l),
                          NEW c \in Conditions, relay.cStates[c] = "ACTIVE",
                          ~Check(level[c], relay.margin[c]),
                          Check(level'[c], relay.margin[c])
                   PROVE  relay'.cStates[c] = "TRIGGERED"
        BY <2>1
    <2> DEFINE ns == relay.nextSampleTime
               mask == Mask(l)
               D == {relay.withRoots[k] : k \in mask}
    <2>2. /\ design \in Designs /\ time \in 0..Horizon /\ relay \in Handled(0, ns)
          /\ RootsExact(relay.withRoots, relay.cStates)
        BY <2>1 DEF IInv, TypeOK, ExactInv, Exact
    <2>3. level' = l /\ relay' = IF mask # {} THEN rootTrigger(relay, time, mask)
                                               ELSE Begun(relay)
        BY <2>1 DEF gridMoves, Mask
    <2>4. PICK p \in DOMAIN relay.withRoots : relay.withRoots[p] = c
        BY <2>1, <2>2 DEF RootsExact, HasRoot
    <2>5. p \in mask /\ c \in D
        BY <2>1, <2>3, <2>4 DEF Mask
    <2>6. mask \in SUBSET DOMAIN relay.withRoots
        BY DEF Mask
    <2> HIDE DEF mask, ns
    <2>7. Turned(rootTrigger(relay, time, mask), relay, D, time)
        BY <2>2, <2>6, RootTriggerTurns
    <2> HIDE DEF D
    <2>8. rootTrigger(relay, time, mask).cStates[c] = "TRIGGERED"
        BY <2>1, <2>5, <2>7 DEF Turned
    <2> QED BY <2>3, <2>5, <2>8
<1>2. IInv /\ ExactInv /\ Resettable /\ [Next]_vars => ExactInv' /\ Resettable'
    BY NextExact, DesignFixed DEF Resettable
<1>3. Init => ExactInv
    BY InitExact
<1> QED BY <1>1, <1>2, <1>3, RelayInvariant, PTL DEF Spec, RootsTrigger

-----------------------------------------------------------------------------
(* A delayed action waits for the whole of its delay.                      *)

\* The check x is one of a condition that is TRIGGERED; if it is a check of
\* this condition alone it comes when the delay has passed since then.
CheckKept(x, r) ==
    /\ r.cStates[x.cond] = "TRIGGERED"
    /\ ~x.multi => /\ x.action \in DOMAIN Triggers[x.cond]
                   /\ x.testTime = r.triggerTimes[x.cond]
                                        + Triggers[x.cond][x.action].delay

Consistent(r) == \A i \in DOMAIN r.condChecks : CheckKept(r.condChecks[i], r)

LEMMA TriggerConsistent ==
    ASSUME design \in Designs, NEW t \in 0..Horizon, NEW lo \in 0..(t + 1), NEW ns,
           NEW r \in Handled(lo, ns), NEW c \in Conditions, NEW d \in Nat,
           r.cStates[c] = "ACTIVE", Consistent(r)
    PROVE  Consistent(triggerCondition(r, c, t, d))
<1> DEFINE b == Triggered(r, c, t)
           q == triggerCondition(r, c, t, d)
<1>1. r \in RelayStates
    BY DEF Handled
<1>2. Acted(q, b, c, t, d)
    BY TriggerConditionActed
<1>3. /\ b.cStates = [r.cStates EXCEPT ![c] = "TRIGGERED"]
      /\ b.triggerTimes = [r.triggerTimes EXCEPT ![c] = t]
      /\ b.condChecks = r.condChecks
    BY <1>1 DEF Triggered, RelayStates
<1>4. DOMAIN r.cStates = Conditions /\ DOMAIN r.triggerTimes = Conditions
    BY <1>1 DEF RelayStates
<1> HIDE DEF b, q
<1>5. q.cStates = b.cStates /\ q.triggerTimes = b.triggerTimes
    BY <1>2 DEF Acted, SameConditions
<1>6. q.cStates[c] = "TRIGGERED" /\ q.triggerTimes[c] = t
    BY <1>3, <1>4, <1>5
<1>7. \A k \in Conditions : k # c => /\ q.cStates[k] = r.cStates[k]
                                     /\ q.triggerTimes[k] = r.triggerTimes[k]
    BY <1>3, <1>4, <1>5
<1>8. ASSUME NEW i \in DOMAIN q.condChecks PROVE CheckKept(q.condChecks[i], q)
    <2> DEFINE x == q.condChecks[i]
    <2>1. CASE OldCheck(x, b)
        <3>1. PICK j \in DOMAIN r.condChecks : x = r.condChecks[j]
            BY <1>3, <2>1 DEF OldCheck
        <3>2. CheckKept(x, r) /\ x.cond \in Conditions
            BY <1>1, <3>1, ConditionsOf DEF Consistent
        <3> HIDE DEF x
        <3>3. x.cond # c
            BY <3>2 DEF CheckKept
        <3>4. CheckKept(x, q)
            BY <1>7, <3>2, <3>3 DEF CheckKept
        <3> QED BY <3>4 DEF x
    <2>2. CASE NewCheck(x, c, t)
        <3> HIDE DEF x
        <3>1. CheckKept(x, q)
            BY <1>6, <2>2 DEF CheckKept, NewCheck
        <3> QED BY <3>1 DEF x
    <2> QED BY <1>2, <2>1, <2>2 DEF Acted
<1>9. Consistent(q)
    BY <1>8 DEF Consistent
<1> QED BY <1>9 DEF q

LEMMA ClearConsistent ==
    ASSUME design \in Designs, NEW ns, NEW r \in Handled(0, ns), NEW c \in Conditions,
           Consistent(r)
    PROVE  Consistent(clearCondChecks(cleared(r, c), c))
<1> DEFINE q == cleared(r, c)
           b == clearCondChecks(q, c)
<1>1. r \in RelayStates /\ q \in RelayStates
    <2>1. 0 \in Nat
        OBVIOUS
    <2>2. q \in Handled(0, ns)
        BY <2>1, ClearedHandled
    <2> QED BY <2>2 DEF Handled
<1>2. /\ q.cStates = [r.cStates EXCEPT ![c] = "ACTIVE"]
      /\ q.triggerTimes = r.triggerTimes /\ q.condChecks = r.condChecks
    BY <1>1 DEF cleared, RelayStates
<1>3. DOMAIN r.cStates = Conditions /\ r.condChecks \in Seq(CondChecks)
    BY <1>1 DEF RelayStates
<1> HIDE DEF q
<1>4. SameConditions(b, q) /\ b.condChecks = checksWithout(r.condChecks, c)
    BY <1>1, <1>2, ClearSame
<1> HIDE DEF b
<1>5. \A k \in Conditions : k # c => b.cStates[k] = r.cStates[k]
    BY <1>2, <1>3, <1>4 DEF SameConditions
<1>6. b.triggerTimes = r.triggerTimes
    BY <1>2, <1>4 DEF SameConditions
<1>7. ASSUME NEW i \in DOMAIN b.condChecks PROVE CheckKept(b.condChecks[i], b)
    <2> DEFINE x == b.condChecks[i]
    <2>1. PICK j \in DOMAIN r.condChecks : x = r.condChecks[j] /\ r.condChecks[j].cond # c
        BY <1>3, <1>4, WithoutIs
    <2>2. CheckKept(x, r) /\ x.cond \in Conditions /\ x.cond # c
        BY <1>1, <2>1, ConditionsOf DEF Consistent
    <2> HIDE DEF x
    <2>3. CheckKept(x, b)
        BY <1>5, <1>6, <2>2 DEF CheckKept
    <2> QED BY <2>3 DEF x
<1>8. Consistent(b)
    BY <1>7 DEF Consistent
<1> QED BY <1>8 DEF b, q

LEMMA RootStepConsistent ==
    ASSUME design \in Designs, NEW t \in 0..Horizon, NEW ns, NEW h \in Handled(0, ns),
           NEW c \in Conditions, NEW mask, NEW s, s.r = h, Consistent(h)
    PROVE  Consistent(rootStep(s, c, t, mask).r)
<1> DEFINE a == triggerCondition(h, c, t, 0)
           b == clearCondChecks(cleared(h, c), c)
<1>1. 0 \in Nat /\ 0 \in 0..(t + 1)
    BY DesignFacts
<1>2. CASE h.cStates[c] = "ACTIVE"
    <2>1. Consistent(a)
        BY <1>1, <1>2, TriggerConsistent
    <2>2. rootStep(s, c, t, mask).r = IF s.position \in mask THEN a ELSE h
        BY <1>2 DEF rootStep
    <2> HIDE DEF a
    <2> QED BY <2>1, <2>2
<1>3. CASE h.cStates[c] # "ACTIVE"
    <2>1. Consistent(b)
        BY ClearConsistent
    <2>2. rootStep(s, c, t, mask).r \in {h, b}
        BY <1>3 DEF rootStep
    <2> HIDE DEF b
    <2> QED BY <2>1, <2>2
<1> QED BY <1>2, <1>3

LEMMA RootTriggerConsistent ==
    ASSUME design \in Designs, NEW t \in 0..Horizon, NEW ns, NEW r \in Handled(0, ns),
           NEW mask, Consistent(r)
    PROVE  Consistent(rootTrigger(r, t, mask))
<1> DEFINE S == [r : Handled(0, ns), position : Nat]
           w == r.withRoots
           n == Len(w)
           z == rootSteps(r, t, mask)
<1>1. /\ n \in Nat /\ r \in RelayStates /\ \A i \in 1..n : w[i] \in Conditions
    BY ElementOf DEF Handled, RelayStates
<1>2. PICK p : RootStepsRun(p, S, n, r, t, mask)
    BY RootPath
<1>3. /\ p \in [0..n -> S] /\ p[0] = [r |-> Begun(r), position |-> 1] /\ p[n].r = z
      /\ \A i \in 1..n : p[i] = rootStep(p[i - 1], w[i], t, mask)
    BY <1>2 DEF RootStepsRun
<1> HIDE DEF n, w, z
<1> DEFINE Z == {i \in 0..n : Consistent(p[i].r)}
<1>4. 0 \in Z
    <2> DEFINE b == Begun(r)
    <2>1. /\ b.cStates = r.cStates /\ b.triggerTimes = r.triggerTimes
          /\ b.condChecks = r.condChecks
        BY <1>1 DEF Begun, RelayStates
    <2> HIDE DEF b
    <2>2. Consistent(b)
        BY <2>1 DEF Consistent, CheckKept
    <2>3. p[0].r = b /\ 0 \in 0..n
        BY <1>1, <1>3 DEF b
    <2> QED BY <2>2, <2>3
<1>5. ASSUME NEW i \in 1..n, i - 1 \in Z PROVE i \in Z
    <2> DEFINE s == p[i - 1]
               h == s.r
    <2>1. i - 1 \in 0..n /\ i \in 0..n /\ w[i] \in Conditions
        BY <1>1
    <2>2. s \in S /\ Consistent(h)
        BY <1>3, <1>5, <2>1
    <2>3. h \in Handled(0, ns)
        BY <2>2
    <2>4. p[i] = rootStep(s, w[i], t, mask)
        BY <1>3
    <2>5. s.r = h
        OBVIOUS
    <2> HIDE DEF s, h
    <2>6. Consistent(rootStep(s, w[i], t, mask).r)
        BY <2>1, <2>2, <2>3, <2>5, RootStepConsistent
    <2> QED BY <2>1, <2>4, <2>6
<1>6. n \in Z
    <2> HIDE DEF Z
    <2>1. \A i \in 0..n : i \in Z
        BY <1>1, <1>4, <1>5, SetInduction
    <2> QED BY <1>1, <2>1
<1>7. Consistent(z)
    BY <1>3, <1>6
<1>8. z \in RelayStates
    BY RootStepsType DEF z
<1>9. LET q == rootTrigger(r, t, mask)
      IN  /\ q.cStates = z.cStates /\ q.triggerTimes = z.triggerTimes
          /\ q.condChecks = z.condChecks
    BY <1>8 DEF rootTrigger, updateRootCount, RelayStates, z
<1> QED BY <1>7, <1>9 DEF Consistent, CheckKept

\* Why the action x was taken: for one condition, the delay of a trigger that
\* has the position or the action of x has passed; for several conditions, they
\* are all TRIGGERED for the delay, or there is no delay.
SingleDue(x, r, t) ==
    \E j \in DOMAIN Triggers[x.cond] :
        /\ x.action = j \/ x.action = Triggers[x.cond][j].action
        /\ r.triggerTimes[x.cond] + Triggers[x.cond][j].delay <= t

SeveralDue(x, r, t) ==
    \E j \in DOMAIN Multi[x.cond] :
        \/ Multi[x.cond][j].delay = 0
        \/ /\ x.action = Multi[x.cond][j].action
           /\ \A k \in Multi[x.cond][j].conditions :
                /\ r.cStates[k] = "TRIGGERED"
                /\ r.triggerTimes[k] + Multi[x.cond][j].delay <= t

ActionDue(x, r, t) ==
    /\ r.cStates[x.cond] = "TRIGGERED"
    /\ ~x.multi => SingleDue(x, r, t)
    /\ x.multi => SeveralDue(x, r, t)

Justified(r, t) == \A i \in DOMAIN r.taken : ActionDue(r.taken[i], r, t)

\* The states of updateA while no condition changes
Calmly(q, r, t) == SameConditions(q, r) /\ Consistent(q) /\ Justified(q, t)

LEMMA TakingCalm ==
    ASSUME NEW s \in RelayStates, NEW r, NEW t, Calmly(s, r, t), NEW x \in ActionsTaken,
           ActionDue(x, r, t)
    PROVE  Calmly(Taking(s, x), r, t)
<1> DEFINE v == Taking(s, x)
<1>1. /\ v.condChecks = s.condChecks /\ v.taken = Append(s.taken, x)
      /\ SameConditions(v, s) /\ s.taken \in Seq(ActionsTaken)
    BY DEF Taking, RelayStates, SameConditions
<1> HIDE DEF v
<1>2. \A i \in DOMAIN v.taken :
            \/ i \in DOMAIN s.taken /\ v.taken[i] = s.taken[i]
            \/ v.taken[i] = x
    BY <1>1
<1>3. /\ v.cStates = s.cStates /\ v.triggerTimes = s.triggerTimes
      /\ s.cStates = r.cStates /\ s.triggerTimes = r.triggerTimes
      /\ SameConditions(v, r)
    BY <1>1 DEF Calmly, SameConditions
<1>4. Consistent(v)
    BY <1>1, <1>3 DEF Calmly, Consistent, CheckKept
<1>5. \A y : /\ ActionDue(y, s, t) <=> ActionDue(y, v, t)
             /\ ActionDue(y, r, t) <=> ActionDue(y, v, t)
    BY <1>3 DEF ActionDue, SingleDue, SeveralDue
<1>6. Justified(v, t)
    BY <1>2, <1>5 DEF Calmly, Justified
<1>7. Calmly(v, r, t)
    BY <1>3, <1>4, <1>6 DEF Calmly
<1> QED BY <1>7 DEF v

LEMMA KeptCalm ==
    ASSUME NEW s \in RelayStates, NEW r, NEW t, Calmly(s, r, t), NEW x \in CondChecks,
           CheckKept(x, r)
    PROVE  Calmly(Keeping(s, x), r, t)
<1> DEFINE q == Keeping(s, x)
<1>1. /\ q.condChecks = Append(s.condChecks, x) /\ q.taken = s.taken
      /\ SameConditions(q, s) /\ s.condChecks \in Seq(CondChecks)
    BY DEF Keeping, RelayStates, SameConditions
<1> HIDE DEF q
<1>2. \A i \in DOMAIN q.condChecks :
            \/ i \in DOMAIN s.condChecks /\ q.condChecks[i] = s.condChecks[i]
            \/ q.condChecks[i] = x
    BY <1>1
<1>3. /\ q.cStates = s.cStates /\ q.triggerTimes = s.triggerTimes
      /\ s.cStates = r.cStates /\ s.triggerTimes = r.triggerTimes
      /\ SameConditions(q, r)
    BY <1>1 DEF Calmly, SameConditions
<1>4. Consistent(q)
    BY <1>2, <1>3 DEF Calmly, Consistent, CheckKept
<1>5. \A y : ActionDue(y, s, t) <=> ActionDue(y, q, t)
    BY <1>3 DEF ActionDue, SingleDue, SeveralDue
<1>6. Justified(q, t)
    BY <1>1, <1>5 DEF Calmly, Justified
<1>7. Calmly(q, r, t)
    BY <1>3, <1>4, <1>6 DEF Calmly
<1> QED BY <1>7 DEF q

\* The check of several conditions
LEMMA MultiDueCalm ==
    ASSUME design \in Designs, NEW t \in 0..Horizon, NEW s \in RelayStates,
           NEW r, Calmly(s, r, t), NEW x \in CondChecks, CheckKept(x, r), x.multi = TRUE,
           x.action \in DOMAIN Multi[x.cond]
    PROVE  Calmly(multiDue(s, x, t), r, t)
<1> DEFINE m == Multi[x.cond][x.action]
<1>1. x.cond \in Conditions
    BY DEF CondChecks
<1>2. /\ m.conditions \in SUBSET Conditions /\ m.delay \in 0..(Inf - Horizon)
      /\ m.action \in Nat
    BY <1>1, MultiFacts
<1>3. s.cStates = r.cStates /\ s.triggerTimes = r.triggerTimes
    BY DEF Calmly, SameConditions
<1>4. ASSUME multiDue(s, x, t) = executeAction(s, m.action, x.cond, TRUE),
             Hindering(s, m, t) = {}
      PROVE  Calmly(multiDue(s, x, t), r, t)
    <2> DEFINE y == [action |-> m.action, cond |-> x.cond, multi |-> TRUE]
    <2>1. multiDue(s, x, t) = Taking(s, y)
        BY <1>4 DEF executeAction, Taking
    <2>2. y \in ActionsTaken /\ y.cond = x.cond /\ y.action = m.action /\ y.multi = TRUE
        BY <1>1, <1>2 DEF ActionsTaken
    <2>3. ASSUME NEW k \in m.conditions
          PROVE  r.cStates[k] = "TRIGGERED" /\ r.triggerTimes[k] + m.delay <= t
        <3>1. k \notin Unset(s, m) /\ k \notin Young(s, m, t)
            BY <1>4 DEF Hindering
        <3> DEFINE v == r.triggerTimes[k]
                   w == m.delay
        <3>2. r.cStates[k] = "TRIGGERED" /\ ~(t - v < w)
            BY <1>3, <3>1 DEF Unset, Young
        <3>3. v \in 0..Horizon /\ w \in 0..(Inf - Horizon) /\ Horizon \in Nat /\ Inf \in Nat
            BY <1>2, <1>3, DesignFacts DEF RelayStates
        <3> HIDE DEF v, w
        <3>4. v + w <= t
            BY <3>2, <3>3
        <3> QED BY <3>2, <3>4 DEF v, w
    <2> HIDE DEF y
    <2>4. SeveralDue(y, r, t)
        BY <2>2, <2>3 DEF SeveralDue
    <2>5. ActionDue(y, r, t)
        BY <2>2, <2>4 DEF ActionDue, CheckKept
    <2>6. Calmly(Taking(s, y), r, t)
        BY <2>2, <2>5, TakingCalm
    <2> QED BY <2>1, <2>6
<1>5. CASE multiDue(s, x, t) = s
    BY <1>5
<1>6. ASSUME NEW k \in Young(s, m, t), multiDue(s, x, t) = Postponed(s, x, m, k)
      PROVE  Calmly(multiDue(s, x, t), r, t)
    <2> DEFINE v == s.triggerTimes[k]
               w == m.delay
               u == v + w
               y == [x EXCEPT !.testTime = u]
    <2>1. k \in Conditions
        BY <1>2 DEF Young
    <2>2. s.triggerTimes[k] \in 0..Horizon
        BY <2>1 DEF RelayStates
    <2>3. u \in 0..Inf
        <3>1. /\ v \in 0..Horizon /\ w \in 0..(Inf - Horizon)
              /\ Horizon \in Nat /\ Inf \in Nat /\ Inf > Horizon
            BY <1>2, <2>2, DesignFacts
        <3> HIDE DEF v, w
        <3> QED BY <3>1
    <2> HIDE DEF u, m
    <2>4. y \in CondChecks /\ y.cond = x.cond /\ y.multi = TRUE
        BY <2>3 DEF CondChecks
    <2>5. multiDue(s, x, t) = Keeping(s, y)
        BY <1>6 DEF u, m, Postponed
    <2> HIDE DEF y
    <2>6. CheckKept(y, r)
        BY <2>4 DEF CheckKept
    <2>7. Calmly(Keeping(s, y), r, t)
        BY <2>4, <2>6, KeptCalm
    <2> QED BY <2>5, <2>7
<1> HIDE DEF m
<1>7. \/ /\ multiDue(s, x, t) = executeAction(s, m.action, x.cond, TRUE)
         /\ Hindering(s, m, t) = {}
      \/ multiDue(s, x, t) = s
      \/ \E k \in Young(s, m, t) : multiDue(s, x, t) = Postponed(s, x, m, k)
    <2>1. m = Multi[x.cond][x.action]
        BY DEF m
    <2> QED BY <2>1, MultiDueCases
<1> QED BY <1>4, <1>5, <1>6, <1>7

\* A check of a condition that is still true
LEMMA EvaluateCalm ==
    ASSUME design \in Designs, NEW t \in 0..Horizon, NEW s \in RelayStates, NEW l,
           NEW r, Calmly(s, r, t), NEW x, Evaluable(s, x), CheckKept(x, r),
           Check(l[x.cond], r.margin[x.cond])
    PROVE  Calmly(evaluateCondCheck(s, x, t, l), r, t)
<1>1. /\ x.cond \in Conditions /\ x.testTime \in 0..Inf /\ x \in CondChecks
      /\ x.multi \in BOOLEAN /\ x.action \in Nat
    BY DEF CondChecks, Evaluable
<1>2. /\ s.cStates = r.cStates /\ s.margin = r.margin /\ s.triggerTimes = r.triggerTimes
      /\ Check(l[x.cond], s.margin[x.cond]) /\ s.cStates[x.cond] = "TRIGGERED"
    BY DEF Calmly, SameConditions, CheckKept
<1>3. CASE t >= x.testTime /\ x.multi
    <2>1. evaluateCondCheck(s, x, t, l) = multiDue(s, x, t)
        BY <1>2, <1>3 DEF evaluateCondCheck
    <2>2. x.action \in DOMAIN Multi[x.cond] /\ x.multi = TRUE
        BY <1>1, <1>3 DEF Evaluable
    <2>3. x \in CondChecks
        BY <1>1
    <2> QED BY <2>1, <2>2, <2>3, MultiDueCalm
<1>4. CASE t >= x.testTime /\ ~x.multi
    <2> DEFINE y == [action |-> x.action, cond |-> x.cond, multi |-> FALSE]
    <2>1. evaluateCondCheck(s, x, t, l) = Taking(s, y)
        BY <1>2, <1>4 DEF evaluateCondCheck, singleDue, executeAction, Taking
    <2>2. y \in ActionsTaken /\ y.cond = x.cond /\ y.action = x.action /\ y.multi = FALSE
        BY <1>1 DEF ActionsTaken
    <2>3. SingleDue(y, r, t)
        <3> DEFINE u == r.triggerTimes[x.cond] + Triggers[x.cond][x.action].delay
        <3>1. x.action \in DOMAIN Triggers[x.cond] /\ u = x.testTime
            BY <1>4 DEF CheckKept
        <3>2. u <= t
            <4> HIDE DEF u
            <4> QED BY <1>1, <1>4, <3>1, DesignFacts
        <3> HIDE DEF y
        <3> QED BY <2>2, <3>1, <3>2 DEF SingleDue
    <2> HIDE DEF y
    <2>4. ActionDue(y, r, t)
        BY <2>2, <2>3 DEF ActionDue, CheckKept
    <2> QED BY <2>1, <2>2, <2>4, TakingCalm
<1>5. CASE ~(t >= x.testTime)
    <2>1. evaluateCondCheck(s, x, t, l) = Keeping(s, x)
        BY <1>2, <1>5 DEF evaluateCondCheck, Keeping
    <2>2. x \in CondChecks
        BY <1>1
    <2> QED BY <2>1, <2>2, KeptCalm
<1> QED BY <1>1, <1>3, <1>4, <1>5

\* The conditions of r are as the grid l shows them.
Settled(r, l) ==
    \A c \in Conditions : /\ r.cStates[c] = "ACTIVE" => ~Check(l[c], r.margin[c])
                          /\ r.cStates[c] = "TRIGGERED" => Check(l[c], r.margin[c])

LEMMA EvaluateAllCalm ==
    ASSUME design \in Designs, NEW t \in 0..Horizon, NEW lo \in 0..(t + 1), NEW ns,
           NEW b \in Handled(lo, ns), NEW l, NEW checks \in Seq(CondChecks),
           \A j \in DOMAIN checks : Evaluable(b, checks[j]) /\ CheckKept(checks[j], b),
           Calmly(b, b, t), Settled(b, l)
    PROVE  Calmly(evaluateCondChecks(b, checks, t, l), b, t)
<1> DEFINE S == {s \in Handled(lo, ns) : Calmly(s, b, t)}
           n == Len(checks)
<1>1. n \in Nat /\ DOMAIN checks = 1..n
    OBVIOUS
<1>2. b \in S
    OBVIOUS
<1>3. ASSUME NEW s \in S, NEW i \in 1..n PROVE evaluateCondCheck(s, checks[i], t, l) \in S
    <2> DEFINE x == checks[i]
               q == evaluateCondCheck(s, x, t, l)
    <2>1. s \in Handled(lo, ns) /\ s \in RelayStates /\ Calmly(s, b, t)
        BY DEF Handled
    <2>2. Evaluable(b, x) /\ CheckKept(x, b)
        BY <1>1
    <2> HIDE DEF S, n, x
    <2>3. Evaluable(s, x)
        BY <2>1, <2>2 DEF Evaluable, Calmly, SameConditions
    <2>4. Check(l[x.cond], b.margin[x.cond])
        BY <2>2 DEF Settled, CheckKept, Evaluable, CondChecks
    <2>5. q \in Handled(lo, ns)
        BY <2>1, <2>3, EvaluateHandled
    <2>6. Calmly(q, b, t)
        BY <2>1, <2>2, <2>3, <2>4, EvaluateCalm
    <2> HIDE DEF q
    <2>7. q \in S
        BY <2>5, <2>6 DEF S
    <2> QED BY <2>7 DEF q, x
<1> HIDE DEF S, n
<1>4. EvaluateClosed(S, n, checks, t, l)
    BY <1>3 DEF EvaluateClosed
<1>5. PICK p : EvaluateRun(p, S, n, b, checks, t, l)
    BY <1>1, <1>2, <1>4, EvaluateFold
<1> QED BY <1>1, <1>5 DEF S, EvaluateRun

\* No condition is found true that is not TRIGGERED already.
LEMMA SampleNone ==
    ASSUME design \in Designs, NEW t, NEW r, NEW l, NEW d, Settled(r, l)
    PROVE  sample(r, l, t, d) = r
<1> DEFINE S == {r}
           n == Len(Triggers)
<1>1. n \in Nat /\ DOMAIN Triggers = 1..n /\ Conditions = 1..n
    BY DesignFacts DEF Conditions
<1>2. \A i \in 1..n : sampleOne(r, i, l, t, d) = r
    BY <1>1 DEF sampleOne, Settled
<1> HIDE DEF n
<1>3. SampleClosed(S, n, l, t, d)
    BY <1>2 DEF SampleClosed
<1>4. r \in S
    OBVIOUS
<1> HIDE DEF S
<1>5. PICK p : SampleRun(p, S, n, r, l, t, d)
    BY <1>1, <1>3, <1>4, SampleFold
<1> QED BY <1>1, <1>5 DEF S, SampleRun

\* updateA of a continuous relay that knows how the grid is
LEMMA UpdateACalm ==
    ASSUME design \in Designs, NEW t \in 0..Horizon, NEW ns, NEW r \in Handled(0, ns),
           NEW l, Continuous, Consistent(r), Settled(r, l)
    PROVE  Calmly(updateA(r, l, t), r, t) /\ updateA(r, l, t) = Waiting(r, l, t)
<1> DEFINE b == UpdateStart(r)
           due == evaluateCondChecks(b, r.condChecks, t, l)
           w == Waiting(r, l, t)
<1>1. t + 1 \in 0..(t + 1) /\ r \in RelayStates
    BY DesignFacts DEF Handled
<1>2. /\ b \in Handled(t + 1, ns) /\ r.condChecks \in Seq(CondChecks)
      /\ \A j \in DOMAIN r.condChecks : Evaluable(b, r.condChecks[j])
    BY StartHandled
<1>3. /\ b.cStates = r.cStates /\ b.margin = r.margin /\ b.triggerTimes = r.triggerTimes
      /\ b.withRoots = r.withRoots /\ b.locked = r.locked
      /\ b.condChecks = <<>> /\ b.taken = <<>>
    BY <1>1 DEF UpdateStart, Begun, RelayStates
<1>4. DOMAIN <<>> = {}
    OBVIOUS
<1> HIDE DEF b
<1>5. Calmly(b, b, t) /\ SameConditions(b, r)
    BY <1>3, <1>4 DEF Calmly, SameConditions, Consistent, Justified
<1>6. Settled(b, l)
    BY <1>3 DEF Settled
<1>7. \A j \in DOMAIN r.condChecks : CheckKept(r.condChecks[j], b)
    BY <1>3 DEF Consistent, CheckKept
<1>8. due \in Handled(t + 1, ns)
    BY <1>1, <1>2, EvaluateAllHandled
<1>9. Calmly(due, b, t)
    BY <1>1, <1>2, <1>5, <1>6, <1>7, EvaluateAllCalm
<1>10. w = [due EXCEPT !.nextUpdateTime = earliestCheck(due)]
    BY DEF Waiting, due, b
<1> HIDE DEF due, w
<1>11. /\ w.condChecks = due.condChecks /\ w.taken = due.taken
       /\ w.cStates = due.cStates /\ w.margin = due.margin
       /\ w.triggerTimes = due.triggerTimes /\ w.withRoots = due.withRoots
       /\ w.locked = due.locked
    BY <1>8, <1>10 DEF Handled, RelayStates
<1>12. SameConditions(w, r)
    BY <1>5, <1>9, <1>11 DEF Calmly, SameConditions
<1>13. Consistent(w)
    BY <1>9, <1>11 DEF Calmly, Consistent, CheckKept
<1>14. Justified(w, t)
    <2>1. \A y : ActionDue(y, due, t) <=> ActionDue(y, w, t)
        BY <1>11 DEF ActionDue, SingleDue, SeveralDue
    <2> QED BY <1>9, <1>11, <2>1 DEF Calmly, Justified
<1>15. Settled(w, l)
    BY <1>12 DEF Settled, SameConditions
<1>16. updateA(r, l, t) = sample(w, l, t, 0)
    BY UpdateACases DEF w
<1>17. sample(w, l, t, 0) = w
    BY <1>15, SampleNone
<1> QED BY <1>12, <1>13, <1>14, <1>16, <1>17 DEF Calmly, w

\* The relays whose conditions change at roots only: continuous, and nothing
\* but rootCheck comes between the solver and the event queue.
Calm == Continuous /\ Resettable /\ Allowed \subseteq {"rootCheck"}

\* What the relay, the grid and the history know of a condition agrees.
Follows(r, l, s, t) ==
    \A c \in Conditions :
        \/ /\ r.cStates[c] = "ACTIVE" /\ r.margin[c] = FALSE
           /\ ~Check(l[c], FALSE) /\ s[c] = Inf
        \/ /\ r.cStates[c] = "TRIGGERED" /\ r.margin[c] = TRUE
           /\ Check(l[c], TRUE) /\ s[c] = r.triggerTimes[c] /\ s[c] <= t

HeldInv ==
    Calm => /\ Follows(relay, level, since, time) /\ Consistent(relay)
            /\ Justified(relay, time)

LEMMA FollowsSettled ==
    ASSUME NEW r, NEW l, NEW s, NEW t, Follows(r, l, s, t)
    PROVE  Settled(r, l)
BY DEF Follows, Settled

\* A handler that leaves the conditions alone
LEMMA WatchSame ==
    ASSUME design \in Designs, time \in 0..Horizon, relay \in RelayStates,
           NEW l, NEW r, Follows(relay, level, since, time), Watch(l, r),
           r.cStates = relay.cStates, r.margin = relay.margin,
           r.triggerTimes = relay.triggerTimes,
           \A c \in Conditions : Check(l[c], relay.margin[c]) <=> Check(level[c], relay.margin[c])
    PROVE  Follows(r, l, since', time)
<1>1. \A c \in Conditions : relay.triggerTimes[c] # Inf
    <2>1. \A c \in Conditions : relay.triggerTimes[c] \in 0..Horizon
        BY DEF RelayStates
    <2>2. \A u \in 0..Horizon : u # Inf
        BY DesignFacts
    <2> QED BY <2>1, <2>2
<1>2. ASSUME NEW c \in Conditions
      PROVE  since'[c] = IF ~Check(l[c], r.margin[c]) THEN Inf
                         ELSE IF since[c] = Inf THEN time ELSE since[c]
    BY DEF Watch
<1>3. \A c \in Conditions : since'[c] = since[c]
    BY <1>1, <1>2 DEF Follows
<1> QED BY <1>3 DEF Follows

\* What does not concern the conditions, the checks and the actions
LEMMA HeldSame ==
    ASSUME NEW q, NEW r, NEW t, q.cStates = r.cStates, q.triggerTimes = r.triggerTimes,
           q.condChecks = r.condChecks, q.taken = r.taken
    PROVE  /\ Consistent(r) => Consistent(q)
           /\ Justified(r, t) => Justified(q, t)
<1>1. \A y : ActionDue(y, r, t) <=> ActionDue(y, q, t)
    BY DEF ActionDue, SingleDue, SeveralDue
<1>2. Justified(r, t) => Justified(q, t)
    BY <1>1 DEF Justified
<1> QED BY <1>2 DEF Consistent, CheckKept

LEMMA BegunHeld ==
    ASSUME NEW r \in RelayStates, NEW t, Consistent(r), NEW q, q \in {Begun(r), Hung(Begun(r))}
    PROVE  /\ Consistent(q) /\ Justified(q, t)
           /\ q.cStates = r.cStates /\ q.margin = r.margin
           /\ q.triggerTimes = r.triggerTimes
<1>1. /\ q.cStates = r.cStates /\ q.margin = r.margin /\ q.triggerTimes = r.triggerTimes
      /\ q.condChecks = r.condChecks /\ q.taken = <<>>
    BY DEF Begun, Hung, RelayStates
<1>2. DOMAIN <<>> = {}
    OBVIOUS
<1>3. Justified(q, t)
    BY <1>1, <1>2 DEF Justified
<1> QED BY <1>1, <1>3 DEF Consistent, CheckKept

\* A root is crossed in exactly the conditions whose truth changes.
LEMMA MaskTurns ==
    ASSUME NEW l, relay.withRoots \in Seq(Conditions),
           \A c \in Conditions : \E p \in DOMAIN relay.withRoots : relay.withRoots[p] = c
    PROVE  \A c \in Conditions :
                c \in {relay.withRoots[p] : p \in Mask(l)}
                    <=> Check(l[c], relay.margin[c]) # Check(level[c], relay.margin[c])
BY DEF Mask

\* The actions that the conditions take at their roots have no delay.
LEMMA TurnedJustified ==
    ASSUME design \in Designs, NEW t \in 0..Horizon, NEW q, NEW r,
           NEW D \in SUBSET Conditions, Turned(q, r, D, t)
    PROVE  Justified(q, t)
<1>1. ASSUME NEW i \in DOMAIN q.taken PROVE ActionDue(q.taken[i], q, t)
    <2> DEFINE x == q.taken[i]
               c == x.cond
    <2>1. c \in D /\ r.cStates[c] = "ACTIVE" /\ NewAction(x, c, 0)
        BY DEF Turned
    <2>2. c \in Conditions /\ q.cStates[c] = "TRIGGERED" /\ q.triggerTimes[c] = t
        BY <2>1 DEF Turned
    <2> HIDE DEF x
    <2>3. ASSUME ~x.multi PROVE SingleDue(x, q, t)
        <3>1. PICK j \in DOMAIN Triggers[c] : /\ x.action = Triggers[c][j].action
                                              /\ Triggers[c][j].delay <= 0
            BY <2>1, <2>3 DEF NewAction
        <3> DEFINE w == Triggers[c][j].delay
        <3>2. w \in 0..(Inf - Horizon) /\ w <= 0 /\ Inf \in Nat /\ Horizon \in Nat
            BY <2>2, <3>1, TriggerFacts, DesignFacts
        <3> HIDE DEF w
        <3>3. t + w <= t
            BY <3>2
        <3> QED BY <2>2, <3>1, <3>3 DEF SingleDue, w
    <2>4. ASSUME x.multi PROVE SeveralDue(x, q, t)
        <3>1. PICK j \in DOMAIN Multi[c] : Multi[c][j].delay <= 0
            BY <2>1, <2>4 DEF NewAction
        <3> DEFINE w == Multi[c][j].delay
        <3>2. w \in 0..(Inf - Horizon) /\ w <= 0 /\ Inf \in Nat /\ Horizon \in Nat
            BY <2>2, <3>1, MultiFacts, DesignFacts
        <3> HIDE DEF w
        <3>3. w = 0
            BY <3>2
        <3> QED BY <3>3 DEF SeveralDue, w
    <2>5. ActionDue(x, q, t)
        BY <2>2, <2>3, <2>4 DEF ActionDue
    <2> QED BY <2>5 DEF x
<1> QED BY <1>1 DEF Justified

\* The grid moves across the roots in D.
LEMMA TurnedFollows ==
    ASSUME design \in Designs, time \in 0..Horizon, relay \in RelayStates,
           NEW l, NEW q, Follows(relay, level, since, time), Watch(l, q),
           NEW D \in SUBSET Conditions, Turned(q, relay, D, time),
           \A c \in Conditions :
                c \in D <=> Check(l[c], relay.margin[c]) # Check(level[c], relay.margin[c])
    PROVE  Follows(q, l, since', time)
<1> DEFINE Good(c) ==
        \/ /\ q.cStates[c] = "ACTIVE" /\ q.margin[c] = FALSE
           /\ ~Check(l[c], FALSE) /\ since'[c] = Inf
        \/ /\ q.cStates[c] = "TRIGGERED" /\ q.margin[c] = TRUE
           /\ Check(l[c], TRUE) /\ since'[c] = q.triggerTimes[c] /\ since'[c] <= time
<1>1. SUFFICES ASSUME NEW c \in Conditions PROVE Good(c)
    BY DEF Follows
<1>2. since'[c] = IF ~Check(l[c], q.margin[c]) THEN Inf
                  ELSE IF since[c] = Inf THEN time ELSE since[c]
    BY DEF Watch
<1>3. relay.triggerTimes[c] # Inf /\ time <= time
    <2>1. relay.triggerTimes[c] \in 0..Horizon
        BY DEF RelayStates
    <2>2. \A u \in 0..Horizon : u # Inf /\ u <= u
        BY DesignFacts
    <2> QED BY <2>1, <2>2
<1>4. \/ /\ relay.cStates[c] = "ACTIVE" /\ relay.margin[c] = FALSE
         /\ ~Check(level[c], FALSE) /\ since[c] = Inf
      \/ /\ relay.cStates[c] = "TRIGGERED" /\ relay.margin[c] = TRUE
         /\ Check(level[c], TRUE) /\ since[c] = relay.triggerTimes[c] /\ since[c] <= time
    BY DEF Follows
<1>5. Check(l[c], FALSE) => Check(l[c], TRUE)
    BY DEF Check
<1>6. CASE c \in D /\ relay.cStates[c] = "ACTIVE"
    <2>1. q.cStates[c] = "TRIGGERED" /\ q.margin[c] = TRUE /\ q.triggerTimes[c] = time
        BY <1>6 DEF Turned
    <2>2. Check(l[c], TRUE)
        <3>1. Check(l[c], FALSE) # Check(level[c], FALSE) /\ ~Check(level[c], FALSE)
            BY <1>4, <1>6
        <3>2. Check(level[c], FALSE) \in BOOLEAN /\ Check(l[c], FALSE) \in BOOLEAN
            BY DEF Check
        <3> QED BY <1>5, <3>1, <3>2
    <2> QED BY <1>2, <1>3, <1>4, <1>6, <2>1, <2>2
<1>7. CASE c \in D /\ relay.cStates[c] # "ACTIVE"
    <2>1. q.cStates[c] = "ACTIVE" /\ q.margin[c] = FALSE
        BY <1>7 DEF Turned
    <2>2. ~Check(l[c], TRUE)
        <3>1. Check(l[c], TRUE) # Check(level[c], TRUE) /\ Check(level[c], TRUE)
            BY <1>4, <1>7
        <3>2. Check(level[c], TRUE) \in BOOLEAN /\ Check(l[c], TRUE) \in BOOLEAN
            BY DEF Check
        <3> QED BY <3>1, <3>2
    <2> QED BY <1>2, <1>5, <2>1, <2>2
<1>8. CASE c \notin D
    <2>1. /\ q.cStates[c] = relay.cStates[c] /\ q.margin[c] = relay.margin[c]
          /\ q.triggerTimes[c] = relay.triggerTimes[c]
        BY <1>8 DEF Turned
    <2>2. Check(l[c], relay.margin[c]) = Check(level[c], relay.margin[c])
        BY <1>8
    <2> QED BY <1>2, <1>3, <1>4, <2>1, <2>2
<1> QED BY <1>6, <1>7, <1>8

LEMMA NextHeld ==
    ASSUME IInv, ExactInv, HeldInv, [Next]_vars
    PROVE  HeldInv'
<1> DEFINE ns == relay.nextSampleTime
<1>1. /\ design \in Designs /\ time \in 0..Horizon /\ relay \in Handled(0, ns)
      /\ relay \in RelayStates /\ since \in [Conditions -> 0..Inf]
    BY DEF IInv, TypeOK
<1>2. design' = design
    BY DesignFixed
<1>3. SUFFICES ASSUME Calm
               PROVE  /\ Follows(relay', level', since', time') /\ Consistent(relay')
                      /\ Justified(relay', time')
    <2>1. Calm' = Calm
        BY <1>2 DEF Calm, Continuous, Resettable, Allowed
    <2>2. Follows(relay, level, since, time)' <=> Follows(relay', level', since', time')
        BY <1>2 DEF Follows, Check, Conditions, Triggers
    <2>3. Consistent(relay)' <=> Consistent(relay')
        BY <1>2 DEF Consistent, CheckKept, Triggers
    <2>4. Justified(relay, time)' <=> Justified(relay', time')
        BY <1>2 DEF Justified, ActionDue, SingleDue, SeveralDue, Triggers, Multi
    <2> QED BY <1>3, <2>1, <2>2, <2>3, <2>4 DEF HeldInv
<1>4. /\ Follows(relay, level, since, time) /\ Consistent(relay) /\ Justified(relay, time)
      /\ Exact(relay) /\ Continuous /\ Resettable
    BY <1>3 DEF HeldInv, ExactInv, Calm
<1>5. Settled(relay, level)
    BY <1>4, FollowsSettled
<1>6. ~("jump" \in Allowed) /\ ~("powerFlowAdjust" \in Allowed) /\ ~("setConditionStatus" \in Allowed)
    BY <1>3 DEF Calm
<1>7. CASE advance
    <2>1. /\ relay' = Begun(relay) /\ level' = level /\ since' = since /\ time' = time + 1
        BY <1>7 DEF advance
    <2> DEFINE q == Begun(relay)
    <2>2. /\ Consistent(q) /\ Justified(q, time')
          /\ q.cStates = relay.cStates /\ q.margin = relay.margin
          /\ q.triggerTimes = relay.triggerTimes
        BY <1>1, <1>4, BegunHeld
    <2> HIDE DEF q
    <2>3. \A c \in Conditions : since[c] <= time => since[c] <= time + 1
        <3>1. ASSUME NEW u \in 0..Inf, u <= time PROVE u <= time + 1
            BY <1>1, <3>1, DesignFacts
        <3> QED BY <1>1, <3>1
    <2>4. Follows(q, level, since, time + 1)
        BY <1>4, <2>2, <2>3 DEF Follows
    <2> QED BY <2>1, <2>2, <2>4 DEF q
<1>8. CASE update
    <2> DEFINE w == Locked(relay)
               a == updateA(w, level, time)
               b == updateB(a, time)
    <2>1. w \in Handled(0, ns)
        BY <1>1, LockHandled
    <2>2. /\ w.cStates = relay.cStates /\ w.margin = relay.margin
          /\ w.triggerTimes = relay.triggerTimes /\ w.condChecks = relay.condChecks
          /\ w.taken = relay.taken
        BY <1>1 DEF Locked, RelayStates
    <2>3. /\ relay' = IF b.hung THEN Hung(Begun(relay)) ELSE Rescheduled(b)
          /\ Watch(level, relay') /\ level' = level /\ time' = time
        BY <1>8 DEF update, Locked, Hung, Rescheduled
    <2> HIDE DEF w, ns
    <2>4. Consistent(w) /\ Settled(w, level)
        BY <1>4, <1>5, <2>2, HeldSame DEF Settled
    <2>5. Calmly(a, w, time)
        BY <1>1, <1>4, <2>1, <2>4, UpdateACalm
    <2>6. a \in RelayStates
        BY <1>1, <2>1, UpdateAHandled DEF Handled
    <2>7. b \in RelayStates
        <3>1. \E m : b \in Handled(0, m)
            BY <1>1, UpdateHandled DEF w
        <3> QED BY <3>1 DEF Handled
    <2>8. /\ b.cStates = a.cStates /\ b.margin = a.margin
          /\ b.triggerTimes = a.triggerTimes /\ b.condChecks = a.condChecks
          /\ b.taken = a.taken
        BY <2>6 DEF updateB, RelayStates
    <2> HIDE DEF a, b
    <2> DEFINE q == Rescheduled(b)
    <2>9. /\ q.cStates = b.cStates /\ q.margin = b.margin
          /\ q.triggerTimes = b.triggerTimes /\ q.condChecks = b.condChecks
          /\ q.taken = b.taken
        BY <2>7 DEF Rescheduled, RelayStates
    <2> HIDE DEF q
    <2>10. Consistent(q) /\ Justified(q, time)
        <3>1. Consistent(a) /\ Justified(a, time)
            BY <2>5 DEF Calmly
        <3>2. /\ q.cStates = a.cStates /\ q.triggerTimes = a.triggerTimes
              /\ q.condChecks = a.condChecks /\ q.taken = a.taken
            BY <2>8, <2>9
        <3> QED BY <3>1, <3>2, HeldSame
    <2>11. /\ q.cStates = relay.cStates /\ q.margin = relay.margin
           /\ q.triggerTimes = relay.triggerTimes
        BY <2>2, <2>5, <2>8, <2>9 DEF Calmly, SameConditions
    <2> DEFINE h == Hung(Begun(relay))
    <2>12. /\ Consistent(h) /\ Justified(h, time)
           /\ h.cStates = relay.cStates /\ h.margin = relay.margin
           /\ h.triggerTimes = relay.triggerTimes
        BY <1>1, <1>4, BegunHeld
    <2>13. relay' = h \/ relay' = q
        BY <2>3 DEF q
    <2> HIDE DEF h
    <2>14. /\ Consistent(relay') /\ Justified(relay', time)
           /\ relay'.cStates = relay.cStates /\ relay'.margin = relay.margin
           /\ relay'.triggerTimes = relay.triggerTimes
        BY <2>10, <2>11, <2>12, <2>13
    <2>15. Follows(relay', level, since', time)
        BY <1>1, <1>4, <2>3, <2>14, WatchSame
    <2> QED BY <2>3, <2>14, <2>15
<1>9. ASSUME NEW c \in Conditions, NEW st \in {"ACTIVE", "TRIGGERED", "DISABLED"},
             setConditionStatus(c, st)
      PROVE  FALSE
    BY <1>6, <1>9 DEF setConditionStatus
<1>10. CASE rootCheck
    <2> DEFINE a == updateA(relay, level, time)
               q == updateRootCount(alerted(a))
    <2> HIDE DEF ns
    <2>1. Calmly(a, relay, time)
        BY <1>1, <1>4, <1>5, UpdateACalm
    <2>2. a \in RelayStates
        BY <1>1, UpdateAHandled DEF Handled
    <2>3. /\ relay' = IF a.count # 0 THEN q ELSE a
          /\ Watch(level, a) /\ level' = level /\ time' = time
        BY <1>10 DEF rootCheck
    <2> HIDE DEF a
    <2>4. /\ q.cStates = a.cStates /\ q.margin = a.margin
          /\ q.triggerTimes = a.triggerTimes /\ q.condChecks = a.condChecks
          /\ q.taken = a.taken
        BY <2>2 DEF alerted, updateRootCount, RelayStates
    <2> HIDE DEF q
    <2>5. Consistent(a) /\ Justified(a, time)
        BY <2>1 DEF Calmly
    <2>6. Consistent(q) /\ Justified(q, time)
        BY <2>4, <2>5, HeldSame
    <2>7. a.cStates = relay.cStates /\ a.margin = relay.margin
          /\ a.triggerTimes = relay.triggerTimes
        BY <2>1 DEF Calmly, SameConditions
    <2>8. Follows(a, level, since', time)
        BY <1>1, <1>4, <2>3, <2>7, WatchSame
    <2>9. Follows(q, level, since', time)
        BY <2>4, <2>8 DEF Follows
    <2> QED BY <2>3, <2>5, <2>6, <2>8, <2>9
<1>11. CASE powerFlowAdjust
    BY <1>6, <1>11 DEF powerFlowAdjust
<1>12. ASSUME NEW l \in [Conditions -> 0..2], gridMoves(l)
       PROVE  /\ Follows(relay', level', since', time') /\ Consistent(relay')
              /\ Justified(relay', time')
    <2> DEFINE mask == Mask(l)
               D == {relay.withRoots[p] : p \in mask}
               q == rootTrigger(relay, time, mask)
               b == Begun(relay)
    <2>1. /\ relay' = IF mask # {} THEN q ELSE b
          /\ Watch(l, relay') /\ level' = l /\ time' = time
        BY <1>4, <1>12 DEF gridMoves, Mask
    <2>2. \A c \in Conditions : HasRoot(relay.cStates[c])
        BY <1>4 DEF HasRoot, Follows
    <2>3. \A c \in Conditions : \E p \in DOMAIN relay.withRoots : relay.withRoots[p] = c
        BY <1>4, <2>2 DEF Exact, RootsExact
    <2>4. relay.withRoots \in Seq(Conditions) /\ mask \in SUBSET DOMAIN relay.withRoots
        BY <1>1 DEF RelayStates, Mask
    <2>5. D \in SUBSET Conditions
        BY <2>4, ElementOf
    <2>6. \A c \in Conditions :
            c \in D <=> Check(l[c], relay.margin[c]) # Check(level[c], relay.margin[c])
        BY <2>3, <2>4, MaskTurns
    <2>7. mask = {} => D = {}
        OBVIOUS
    <2> HIDE DEF mask, ns
    <2>8. Turned(q, relay, D, time)
        BY <1>1, <1>4, <2>4, RootTriggerTurns DEF Exact
    <2>9. Consistent(q)
        BY <1>1, <1>4, RootTriggerConsistent
    <2>10. /\ Consistent(b) /\ Justified(b, time)
           /\ b.cStates = relay.cStates /\ b.margin = relay.margin
           /\ b.triggerTimes = relay.triggerTimes
        BY <1>1, <1>4, BegunHeld
    <2> HIDE DEF D, q, b
    <2>11. CASE mask # {}
        <3>1. Justified(q, time)
            BY <1>1, <2>5, <2>8, TurnedJustified
        <3>2. Follows(q, l, since', time)
            BY <1>1, <1>4, <2>1, <2>5, <2>6, <2>8, <2>11, TurnedFollows
        <3> QED BY <2>1, <2>9, <2>11, <3>1, <3>2
    <2>12. CASE mask = {}
        <3>1. \A c \in Conditions :
                Check(l[c], relay.margin[c]) <=> Check(level[c], relay.margin[c])
            BY <2>6, <2>7, <2>12
        <3>2. Follows(b, l, since', time)
            BY <1>1, <1>4, <2>1, <2>10, <2>12, <3>1, WatchSame
        <3> QED BY <2>1, <2>10, <2>12, <3>2
    <2> QED BY <2>11, <2>12
<1>13. ASSUME NEW l \in [Conditions -> 0..2], gridJumps(l)
       PROVE  FALSE
    BY <1>6, <1>13 DEF gridJumps
<1>14. CASE vars' = vars
    BY <1>4, <1>14 DEF vars
<1> QED BY <1>7, <1>8, <1>9, <1>10, <1>11, <1>12, <1>13, <1>14 DEF Next

LEMMA InitHeld ==
    ASSUME Init PROVE HeldInv
<1>1. DOMAIN <<>> = {}
    OBVIOUS
<1>2. /\ relay.condChecks = <<>> /\ relay.taken = <<>>
      /\ \A c \in Conditions : /\ relay.cStates[c] = "ACTIVE" /\ relay.margin[c] = FALSE
                               /\ level[c] = 0 /\ since[c] = Inf
    BY DEF Init
<1>3. Follows(relay, level, since, time)
    BY <1>2 DEF Follows, Check
<1> QED BY <1>1, <1>2, <1>3 DEF HeldInv, Consistent, Justified

\* The actions of every condition have their positions as numbers: the checks
\* hold the position, and evaluateCondCheck uses it as the number.
Straight == \A c \in Conditions : \A i \in DOMAIN Triggers[c] : Triggers[c][i].action = i

\* The actions of several conditions are delayed, and of different numbers.
Separate ==
    \A c \in Conditions : \A i, j \in DOMAIN Multi[c] :
        Multi[c][i].delay > 0 /\ (Multi[c][i].action = Multi[c][j].action => i = j)

LEMMA HeldInvariant == Spec => []HeldInv
<1>1. Init => ExactInv /\ HeldInv
    BY InitExact, InitHeld
<1>2. IInv /\ ExactInv /\ HeldInv /\ [Next]_vars => ExactInv' /\ HeldInv'
    BY NextExact, NextHeld
<1> QED BY <1>1, <1>2, RelayInvariant, PTL DEF Spec

\* A continuous relay that can reset takes a delayed action only when its
\* condition has been true for the whole of the delay, however often it was
\* cleared and triggered again and however many roots were found at once: for
\* every design whose conditions change at roots (Calm) and whose actions have
\* their positions as numbers (Straight).
THEOREM DelaysAreHeld == Spec => [](Calm /\ Straight => HeldForDelay)
<1>1. IInv /\ HeldInv => (Calm /\ Straight => HeldForDelay)
    <2>1. SUFFICES ASSUME IInv, HeldInv, Calm, Straight, NEW x \in Taken, ~x.multi,
                          NEW i \in DOMAIN Triggers[x.cond],
                          Triggers[x.cond][i].action = x.action
                   PROVE  since[x.cond] + Triggers[x.cond][i].delay <= time
        BY DEF HeldForDelay
    <2>2. x.cond \in Conditions
        BY <2>1, ConditionsOf DEF Taken, IInv, TypeOK
    <2>3. ActionDue(x, relay, time)
        BY <2>1 DEF HeldInv, Justified, Taken
    <2>4. PICK j \in DOMAIN Triggers[x.cond] :
                /\ x.action = j \/ x.action = Triggers[x.cond][j].action
                /\ relay.triggerTimes[x.cond] + Triggers[x.cond][j].delay <= time
        BY <2>1, <2>3 DEF ActionDue, SingleDue
    <2>5. j = i
        BY <2>1, <2>2, <2>4 DEF Straight
    <2>6. since[x.cond] = relay.triggerTimes[x.cond]
        BY <2>1, <2>2, <2>3 DEF HeldInv, Follows, ActionDue
    <2> QED BY <2>4, <2>5, <2>6
<1> QED BY <1>1, RelayInvariant, HeldInvariant, PTL

\* An action of several conditions is taken only when all of them have been true
\* together for the whole of its delay: the check that finds one of them too
\* young waits for it, and the one that finds it cleared is dropped.
THEOREM TogetherIsHeld == Spec => [](Calm /\ Separate => HeldTogether)
<1>1. IInv /\ HeldInv => (Calm /\ Separate => HeldTogether)
    <2>1. SUFFICES ASSUME IInv, HeldInv, Calm, Separate, NEW x \in Taken, x.multi,
                          NEW i \in DOMAIN Multi[x.cond],
                          Multi[x.cond][i].action = x.action,
                          NEW c \in Multi[x.cond][i].conditions
                   PROVE  since[c] + Multi[x.cond][i].delay <= time
        BY DEF HeldTogether
    <2>2. x.cond \in Conditions /\ design \in Designs
        BY <2>1, ConditionsOf DEF Taken, IInv, TypeOK
    <2>3. ActionDue(x, relay, time)
        BY <2>1 DEF HeldInv, Justified, Taken
    <2>4. PICK j \in DOMAIN Multi[x.cond] :
                \/ Multi[x.cond][j].delay = 0
                \/ /\ x.action = Multi[x.cond][j].action
                   /\ \A k \in Multi[x.cond][j].conditions :
                        /\ relay.cStates[k] = "TRIGGERED"
                        /\ relay.triggerTimes[k] + Multi[x.cond][j].delay <= time
        BY <2>1, <2>3 DEF ActionDue, SeveralDue
    <2>5. Multi[x.cond][j].delay > 0
        BY <2>1, <2>2 DEF Separate
    <2>6. Multi[x.cond][j].delay # 0
        BY <2>5
    <2>7. j = i
        BY <2>1, <2>2, <2>4, <2>6 DEF Separate
    <2>8. /\ relay.cStates[c] = "TRIGGERED"
          /\ relay.triggerTimes[c] + Multi[x.cond][i].delay <= time
        BY <2>4, <2>6, <2>7
    <2>9. c \in Conditions
        BY <2>1, <2>2, MultiFacts
    <2>10. since[c] = relay.triggerTimes[c]
        BY <2>1, <2>8, <2>9 DEF HeldInv, Follows
    <2> QED BY <2>8, <2>10
<1> QED BY <1>1, RelayInvariant, HeldInvariant, PTL

-----------------------------------------------------------------------------
(* The lock of the event queue                                             *)

\* The relays without a delay: no handler adds a check.
AtOnce ==
    \A c \in Conditions : /\ \A i \in DOMAIN Triggers[c] : Triggers[c][i].delay = 0
                          /\ \A i \in DOMAIN Multi[c] : Multi[c][i].delay = 0

\* s holds the lock, and hangs, as r does.
LockedAs(s, r) == s.locked = r.locked /\ s.hung = r.hung

LEMMA TakingLock ==
    ASSUME NEW r, NEW s \in RelayStates, LockedAs(s, r), NEW x
    PROVE  LockedAs(Taking(s, x), r)
<1> DEFINE q == Taking(s, x)
<1>1. q.locked = s.locked /\ q.hung = s.hung
    BY DEF Taking, RelayStates
<1> HIDE DEF q
<1>2. LockedAs(q, r)
    BY <1>1 DEF LockedAs
<1> QED BY <1>2 DEF q

\* An alert without the lock does not hang.
LEMMA AlertedLock ==
    ASSUME NEW r, NEW s \in RelayStates, LockedAs(s, r), ~r.locked
    PROVE  LockedAs(alerted(s), r)
<1> DEFINE u == IF s.updates THEN s.nextUpdateTime ELSE Inf
           q == [s EXCEPT !.scheduled = u]
<1>1. alerted(s) = q
    BY DEF alerted, LockedAs
<1> HIDE DEF u
<1>2. q.locked = s.locked /\ q.hung = s.hung
    BY DEF RelayStates
<1> HIDE DEF q
<1> QED BY <1>1, <1>2 DEF LockedAs

LEMMA AddCheckLock ==
    ASSUME design \in Designs, NEW r, NEW s \in RelayStates, LockedAs(s, r), ~r.locked,
           NEW x \in CondChecks
    PROVE  LockedAs(addCheck(s, x), r)
<1> DEFINE u == IF s.updates \/ x.multi THEN Lesser(s.nextUpdateTime, x.testTime)
                ELSE x.testTime
           q == [s EXCEPT !.condChecks = Append(@, x), !.nextUpdateTime = u,
                          !.updates = @ \/ ~x.multi]
<1>1. addCheck(s, x) = alerted(q)
    BY DEF addCheck
<1>2. u \in 0..Inf /\ Append(s.condChecks, x) \in Seq(CondChecks)
      /\ (s.updates \/ ~x.multi) \in BOOLEAN
    BY DesignFacts DEF Lesser, CondChecks, RelayStates
<1> HIDE DEF u
<1>3. q \in RelayStates
    BY <1>2 DEF RelayStates
<1>4. q.locked = s.locked /\ q.hung = s.hung
    BY DEF RelayStates
<1> HIDE DEF q
<1>5. LockedAs(q, r)
    BY <1>4 DEF LockedAs
<1> QED BY <1>1, <1>3, <1>5, AlertedLock

LEMMA TriggerActionLock ==
    ASSUME design \in Designs, NEW t \in 0..Horizon, NEW s \in RelayStates, NEW r,
           LockedAs(s, r), NEW c \in Conditions, NEW d \in Nat, ~r.locked \/ AtOnce,
           NEW i \in DOMAIN Triggers[c]
    PROVE  LockedAs(triggerAction(s, c, i, t, d), r)
<1> DEFINE x == Triggers[c][i]
           e == x.delay
           k == [cond |-> c, action |-> i, testTime |-> t + e, multi |-> FALSE]
<1>1. e \in 0..(Inf - Horizon) /\ Inf \in Nat /\ Horizon \in Nat /\ i \in Nat
    <2>1. e \in 0..(Inf - Horizon) /\ Inf \in Nat /\ Horizon \in Nat
        BY TriggerFacts, DesignFacts
    <2>2. Len(Triggers[c]) \in Nat /\ DOMAIN Triggers[c] = 1..Len(Triggers[c])
        BY TriggerFacts
    <2>3. i \in Nat
        BY <2>2
    <2> QED BY <2>1, <2>3
<1>2. CASE e <= d
    <2> DEFINE y == [action |-> x.action, cond |-> c, multi |-> FALSE]
    <2>1. triggerAction(s, c, i, t, d) = Taking(s, y)
        BY <1>2 DEF triggerAction, executeAction, Taking
    <2> HIDE DEF y
    <2> QED BY <2>1, TakingLock
<1>3. CASE ~(e <= d)
    <2>1. triggerAction(s, c, i, t, d) = addCheck(s, k)
        BY <1>3 DEF triggerAction
    <2>2. ~r.locked
        <3>1. AtOnce => e = 0
            BY DEF AtOnce
        <3> HIDE DEF e
        <3>2. e # 0
            BY <1>1, <1>3
        <3> QED BY <3>1, <3>2
    <2>3. k \in CondChecks
        <3> HIDE DEF e
        <3>1. t + e \in 0..Inf
            BY <1>1
        <3> QED BY <1>1, <3>1 DEF CondChecks
    <2> HIDE DEF k
    <2> QED BY <2>1, <2>2, <2>3, AddCheckLock
<1> QED BY <1>2, <1>3

LEMMA MultiCheckLock ==
    ASSUME design \in Designs, NEW t \in 0..Horizon, NEW s \in RelayStates, NEW r,
           LockedAs(s, r), NEW c \in Conditions, NEW d \in Nat, ~r.locked \/ AtOnce,
           NEW i \in DOMAIN Multi[c]
    PROVE  LockedAs(multiConditionCheck(s, c, i, t, d), r)
<1> DEFINE x == Multi[c][i]
           e == x.delay
           k == [cond |-> c, action |-> x.action, testTime |-> t + e, multi |-> TRUE]
<1>1. /\ e \in 0..(Inf - Horizon) /\ Inf \in Nat /\ Horizon \in Nat
      /\ x.action \in Nat
    BY MultiFacts, DesignFacts
<1>2. CASE \E j \in x.conditions : s.cStates[j] # "TRIGGERED"
    BY <1>2 DEF multiConditionCheck
<1>3. CASE (~\E j \in x.conditions : s.cStates[j] # "TRIGGERED") /\ e <= d
    <2> DEFINE y == [action |-> x.action, cond |-> c, multi |-> TRUE]
    <2>1. multiConditionCheck(s, c, i, t, d) = Taking(s, y)
        BY <1>3 DEF multiConditionCheck, executeAction, Taking
    <2> HIDE DEF y
    <2> QED BY <2>1, TakingLock
<1>4. CASE (~\E j \in x.conditions : s.cStates[j] # "TRIGGERED") /\ ~(e <= d)
    <2>1. multiConditionCheck(s, c, i, t, d) = addCheck(s, k)
        BY <1>4 DEF multiConditionCheck
    <2>2. ~r.locked
        <3>1. AtOnce => e = 0
            BY DEF AtOnce
        <3> HIDE DEF e
        <3>2. e # 0
            BY <1>1, <1>4
        <3> QED BY <3>1, <3>2
    <2>3. k \in CondChecks
        <3> HIDE DEF e
        <3>1. t + e \in 0..Inf
            BY <1>1
        <3> QED BY <1>1, <3>1 DEF CondChecks
    <2> HIDE DEF k
    <2> QED BY <2>1, <2>2, <2>3, AddCheckLock
<1> QED BY <1>2, <1>3, <1>4

LEMMA TriggerConditionLock ==
    ASSUME design \in Designs, NEW t \in 0..Horizon, NEW lo \in 0..(t + 1), NEW ns,
           NEW r, NEW s \in Handled(lo, ns), LockedAs(s, r), NEW c \in Conditions,
           NEW d \in Nat, ~r.locked \/ AtOnce
    PROVE  LockedAs(triggerCondition(s, c, t, d), r)
<1> DEFINE q == Triggered(s, c, t)
           v == triggerActions(q, c, t, d)
           S == {z \in Handled(lo, ns) : LockedAs(z, r) /\ z.cStates = q.cStates}
           n == Len(Triggers[c])
           m == Len(Multi[c])
<1>1. q \in Handled(lo, ns) /\ q.cStates = [s.cStates EXCEPT ![c] = "TRIGGERED"]
    BY TriggeredHandled
<1>2. q.cStates[c] = "TRIGGERED"
    BY <1>1 DEF Handled, RelayStates
<1>3. LockedAs(q, r)
    <2>1. s \in RelayStates
        BY DEF Handled
    <2>2. q.locked = s.locked /\ q.hung = s.hung
        BY <2>1 DEF Triggered, RelayStates
    <2> HIDE DEF q
    <2> QED BY <2>2 DEF LockedAs
<1>4. triggerCondition(s, c, t, d) = multiConditionCheckExecute(v, c, t, d)
    BY DEF triggerCondition, Triggered
<1> HIDE DEF q
<1>5. n \in Nat /\ DOMAIN Triggers[c] = 1..n /\ m \in Nat /\ DOMAIN Multi[c] = 1..m
    BY TriggerFacts, MultiFacts
<1>6. \A z \in S : /\ z \in Handled(lo, ns) /\ z \in RelayStates /\ LockedAs(z, r)
                   /\ z.cStates = q.cStates /\ z.cStates[c] = "TRIGGERED"
    BY <1>2 DEF Handled
<1>7. q \in S
    BY <1>1, <1>3
<1>8. \A z \in Handled(lo, ns) : LockedAs(z, r) /\ z.cStates = q.cStates => z \in S
    OBVIOUS
<1> HIDE DEF S, n, m
<1>9. v \in S
    <2>1. ASSUME NEW z \in S, NEW i \in 1..n PROVE triggerAction(z, c, i, t, d) \in S
        <3>1. /\ z \in Handled(lo, ns) /\ z \in RelayStates /\ LockedAs(z, r)
              /\ z.cStates[c] = "TRIGGERED" /\ i \in DOMAIN Triggers[c]
            BY <1>5, <1>6
        <3>2. /\ triggerAction(z, c, i, t, d) \in Handled(lo, ns)
              /\ triggerAction(z, c, i, t, d).cStates = z.cStates
            BY <3>1, TriggerActionHandled
        <3>3. LockedAs(triggerAction(z, c, i, t, d), r)
            BY <3>1, TriggerActionLock
        <3> QED BY <1>6, <1>8, <3>2, <3>3
    <2>2. TriggerActionsClosed(S, n, c, t, d)
        BY <2>1 DEF TriggerActionsClosed
    <2>3. PICK p : TriggerActionsRun(p, S, n, q, c, t, d)
        BY <1>5, <1>7, <2>2, TriggerActionsFold
    <2> QED BY <1>5, <2>3 DEF TriggerActionsRun
<1> HIDE DEF v
<1>10. multiConditionCheckExecute(v, c, t, d) \in S
    <2>1. ASSUME NEW z \in S, NEW i \in 1..m
          PROVE  multiConditionCheck(z, c, i, t, d) \in S
        <3>1. /\ z \in Handled(lo, ns) /\ z \in RelayStates /\ LockedAs(z, r)
              /\ z.cStates[c] = "TRIGGERED" /\ i \in DOMAIN Multi[c]
            BY <1>5, <1>6
        <3>2. /\ multiConditionCheck(z, c, i, t, d) \in Handled(lo, ns)
              /\ multiConditionCheck(z, c, i, t, d).cStates = z.cStates
            BY <3>1, MultiCheckHandled
        <3>3. LockedAs(multiConditionCheck(z, c, i, t, d), r)
            BY <3>1, MultiCheckLock
        <3> QED BY <1>6, <1>8, <3>2, <3>3
    <2>2. MultiConditionClosed(S, m, c, t, d)
        BY <2>1 DEF MultiConditionClosed
    <2>3. PICK p : MultiConditionRun(p, S, m, v, c, t, d)
        BY <1>5, <1>9, <2>2, MultiConditionFold
    <2> QED BY <1>5, <2>3 DEF MultiConditionRun
<1> QED BY <1>4, <1>6, <1>10

LEMMA SampleLock ==
    ASSUME design \in Designs, NEW t \in 0..Horizon, NEW lo \in 0..(t + 1), NEW ns,
           NEW r \in Handled(lo, ns), NEW l, NEW d \in Nat, ~r.locked \/ AtOnce
    PROVE  LockedAs(sample(r, l, t, d), r)
<1> DEFINE S == {s \in Handled(lo, ns) : LockedAs(s, r)}
           n == Len(Triggers)
<1>1. n \in Nat /\ DOMAIN Triggers = 1..n /\ Conditions = 1..n
    BY DesignFacts DEF Conditions
<1>2. ASSUME NEW s \in S, NEW i \in 1..n PROVE sampleOne(s, i, l, t, d) \in S
    <2>1. s \in Handled(lo, ns) /\ LockedAs(s, r) /\ i \in Conditions
        BY <1>1
    <2> DEFINE q == triggerCondition(s, i, t, d)
    <2> HIDE DEF n
    <2>2. q \in Handled(lo, ns)
        BY <2>1, TriggerConditionHandled
    <2>3. LockedAs(q, r)
        BY <2>1, TriggerConditionLock
    <2>4. q \in S
        <3> HIDE DEF q
        <3> QED BY <2>2, <2>3
    <2> QED BY <2>4 DEF sampleOne
<1>3. r \in S
    BY DEF LockedAs
<1>4. \A s \in S : LockedAs(s, r)
    OBVIOUS
<1> HIDE DEF S, n
<1>5. SampleClosed(S, n, l, t, d)
    BY <1>2 DEF SampleClosed
<1>6. PICK p : SampleRun(p, S, n, r, l, t, d)
    BY <1>1, <1>3, <1>5, SampleFold
<1> QED BY <1>1, <1>4, <1>6 DEF SampleRun

\* To look at a check raises no alert, with or without the lock.
LEMMA EvaluateLock ==
    ASSUME design \in Designs, NEW t \in 0..Horizon, NEW s \in RelayStates, NEW l,
           NEW x, Evaluable(s, x), NEW r, LockedAs(s, r)
    PROVE  LockedAs(evaluateCondCheck(s, x, t, l), r)
<1> DEFINE q == updateRootCount(cleared(s, x.cond))
           k == Keeping(s, x)
<1>1. q.locked = s.locked /\ q.hung = s.hung
    BY DEF updateRootCount, cleared, RelayStates
<1>2. \A y : Keeping(s, y).locked = s.locked /\ Keeping(s, y).hung = s.hung
    BY DEF Keeping, RelayStates
<1>3. \A y : Taking(s, y).locked = s.locked /\ Taking(s, y).hung = s.hung
    BY DEF Taking, RelayStates
<1>4. \/ evaluateCondCheck(s, x, t, l) = q
      \/ \E y : evaluateCondCheck(s, x, t, l) = Keeping(s, y)
      \/ \E y : evaluateCondCheck(s, x, t, l) = Taking(s, y)
      \/ evaluateCondCheck(s, x, t, l) = s
      \/ evaluateCondCheck(s, x, t, l) = multiDue(s, x, t)
    BY DEF evaluateCondCheck, singleDue, executeAction, Taking, Keeping
<1>5. \/ \E y : multiDue(s, x, t) = Keeping(s, y)
      \/ \E y : multiDue(s, x, t) = Taking(s, y)
      \/ multiDue(s, x, t) = s
    BY DEF multiDue, executeAction, Taking, Keeping
<1> HIDE DEF q
<1> QED BY <1>1, <1>2, <1>3, <1>4, <1>5 DEF LockedAs

LEMMA EvaluateAllLock ==
    ASSUME design \in Designs, NEW t \in 0..Horizon, NEW lo \in 0..(t + 1), NEW ns,
           NEW s \in Handled(lo, ns), NEW l, NEW checks \in Seq(CondChecks),
           \A j \in DOMAIN checks : Evaluable(s, checks[j])
    PROVE  LockedAs(evaluateCondChecks(s, checks, t, l), s)
<1> DEFINE S == {q \in Handled(lo, ns) : /\ \A j \in DOMAIN checks : Evaluable(q, checks[j])
                                         /\ LockedAs(q, s)}
           n == Len(checks)
<1>1. n \in Nat /\ DOMAIN checks = 1..n
    OBVIOUS
<1>2. s \in S
    BY DEF LockedAs
<1>3. ASSUME NEW z \in S, NEW i \in 1..n PROVE evaluateCondCheck(z, checks[i], t, l) \in S
    <2> DEFINE q == evaluateCondCheck(z, checks[i], t, l)
    <2>1. /\ z \in Handled(lo, ns) /\ \A j \in DOMAIN checks : Evaluable(z, checks[j])
          /\ LockedAs(z, s) /\ z \in RelayStates
        BY DEF Handled
    <2>2. Evaluable(z, checks[i])
        BY <1>1, <2>1
    <2> HIDE DEF S, n
    <2>3. /\ q \in Handled(lo, ns)
          /\ \A k \in Conditions : z.cStates[k] # "DISABLED" => q.cStates[k] # "DISABLED"
        BY <2>1, <2>2, EvaluateHandled
    <2>4. LockedAs(q, s)
        BY <2>1, <2>2, EvaluateLock
    <2> HIDE DEF q
    <2>5. \A j \in DOMAIN checks : Evaluable(q, checks[j])
        BY <2>1, <2>3 DEF Evaluable, CondChecks
    <2> QED BY <2>3, <2>4, <2>5 DEF S, q
<1> HIDE DEF S, n
<1>4. EvaluateClosed(S, n, checks, t, l)
    BY <1>3 DEF EvaluateClosed
<1>5. PICK p : EvaluateRun(p, S, n, s, checks, t, l)
    BY <1>1, <1>2, <1>4, EvaluateFold
<1> QED BY <1>1, <1>5 DEF S, EvaluateRun

LEMMA WaitingLock ==
    ASSUME design \in Designs, NEW t \in 0..Horizon, NEW ns, NEW r \in Handled(0, ns),
           NEW l
    PROVE  LockedAs(Waiting(r, l, t), r)
<1> DEFINE start == UpdateStart(r)
           due == evaluateCondChecks(start, r.condChecks, t, l)
           e == earliestCheck(due)
           q == Waiting(r, l, t)
<1>1. t + 1 \in 0..(t + 1)
    BY DesignFacts
<1>2. /\ start \in Handled(t + 1, ns) /\ r.condChecks \in Seq(CondChecks)
      /\ \A j \in DOMAIN r.condChecks : Evaluable(start, r.condChecks[j])
    BY StartHandled
<1>3. start.locked = r.locked /\ start.hung = r.hung
    BY DEF UpdateStart, Begun, RelayStates, Handled
<1>4. q = [due EXCEPT !.nextUpdateTime = e]
    BY DEF Waiting
<1> HIDE DEF start
<1>5. due \in Handled(t + 1, ns)
    BY <1>1, <1>2, EvaluateAllHandled
<1>6. LockedAs(due, start)
    BY <1>1, <1>2, EvaluateAllLock
<1> HIDE DEF due, e, q
<1>7. q.locked = due.locked /\ q.hung = due.hung
    BY <1>4, <1>5 DEF Handled, RelayStates
<1>8. LockedAs(q, r)
    BY <1>3, <1>6, <1>7 DEF LockedAs
<1> QED BY <1>8 DEF q

LEMMA UpdateALock ==
    ASSUME design \in Designs, NEW t \in 0..Horizon, NEW ns, NEW r \in Handled(0, ns),
           NEW l, ~r.locked \/ AtOnce
    PROVE  LockedAs(updateA(r, l, t), r)
<1> DEFINE w == Waiting(r, l, t)
           s == sample(w, l, t, 0)
           q == sampleDue(w, l, t)
<1>1. w \in Handled(t + 1, ns) /\ LockedAs(w, r)
    BY WaitingHandled, WaitingLock
<1>2. t + 1 \in 0..(t + 1) /\ 0 \in Nat
    BY DesignFacts
<1>3. updateA(r, l, t) = IF Continuous THEN s ELSE IF t >= r.nextSampleTime
                         THEN q ELSE w
    BY UpdateACases
<1> HIDE DEF w
<1>4. ~w.locked \/ AtOnce
    BY <1>1 DEF LockedAs
<1>5. s \in Handled(t + 1, ns)
    BY <1>1, <1>2, SampleHandled
<1>6. LockedAs(s, w)
    BY <1>1, <1>2, <1>4, SampleLock
<1>7. q.locked = s.locked /\ q.hung = s.hung
    BY <1>5 DEF sampleDue, Handled, RelayStates
<1> HIDE DEF s, q
<1> QED BY <1>1, <1>3, <1>6, <1>7 DEF LockedAs

LEMMA ClearLock ==
    ASSUME design \in Designs, NEW r, NEW s \in RelayStates, LockedAs(s, r), ~r.locked,
           NEW c
    PROVE  LockedAs(clearCondChecks(s, c), r)
<1>1. PICK u : /\ Earliest(s, c, u)
               /\ clearCondChecks(s, c) = IF u # s.nextUpdateTime
                                          THEN alerted(Cleaned(s, c, u))
                                          ELSE Cleaned(s, c, u)
    BY ClearCases
<1> DEFINE q == Cleaned(s, c, u)
<1>2. checksWithout(s.condChecks, c) \in Seq(CondChecks) /\ u \in 0..Inf
    BY <1>1, WithoutIs DEF RelayStates, Earliest
<1>3. q \in RelayStates /\ q.locked = s.locked /\ q.hung = s.hung
    BY <1>2 DEF Cleaned, RelayStates
<1> HIDE DEF q
<1>4. LockedAs(q, r)
    BY <1>3 DEF LockedAs
<1>5. LockedAs(alerted(q), r)
    BY <1>3, <1>4, AlertedLock
<1> QED BY <1>1, <1>4, <1>5 DEF q

LEMMA RootStepLock ==
    ASSUME design \in Designs, NEW t \in 0..Horizon, NEW ns, NEW r \in Handled(0, ns),
           NEW k \in Nat, NEW c \in Conditions, NEW mask, NEW s,
           s = [r |-> r, position |-> k], ~r.locked
    PROVE  LockedAs(rootStep(s, c, t, mask).r, r)
<1>1. s.r = r /\ s.position = k
    OBVIOUS
<1>2. 0 \in Nat /\ 0 \in 0..(t + 1)
    BY DesignFacts
<1> DEFINE a == triggerCondition(r, c, t, 0)
           b == clearCondChecks(cleared(r, c), c)
<1>3. LockedAs(r, r)
    BY DEF LockedAs
<1>4. LockedAs(a, r)
    BY <1>2, <1>3, TriggerConditionLock
<1>5. LockedAs(b, r)
    <2> DEFINE q == cleared(r, c)
    <2>1. q \in Handled(0, ns)
        BY <1>2, ClearedHandled
    <2>2. q \in RelayStates /\ r \in RelayStates
        BY <2>1 DEF Handled
    <2>3. q.locked = r.locked /\ q.hung = r.hung
        BY <2>2 DEF cleared, RelayStates
    <2> HIDE DEF q
    <2>4. LockedAs(q, r)
        BY <2>3 DEF LockedAs
    <2>5. LockedAs(clearCondChecks(q, c), r)
        BY <2>2, <2>4, ClearLock
    <2> QED BY <2>5 DEF q
<1>6. rootStep(s, c, t, mask) \in {s, [r |-> a, position |-> k + 1],
                                   [r |-> r, position |-> k + 1],
                                   [r |-> b, position |-> k + 1]}
    BY <1>1 DEF rootStep
<1> HIDE DEF a, b
<1> QED BY <1>1, <1>3, <1>4, <1>5, <1>6

LEMMA RootTriggerLock ==
    ASSUME design \in Designs, NEW t \in 0..Horizon, NEW ns, NEW r \in Handled(0, ns),
           NEW mask, ~r.locked
    PROVE  LockedAs(rootTrigger(r, t, mask), r)
<1> DEFINE H == {h \in Handled(0, ns) : LockedAs(h, r)}
           S == [r : H, position : Nat]
           n == Len(r.withRoots)
<1>1. /\ n \in Nat /\ DOMAIN r.withRoots = 1..n /\ r \in RelayStates
      /\ \A i \in 1..n : r.withRoots[i] \in Conditions
    BY ElementOf DEF Handled, RelayStates
<1>2. [r |-> Begun(r), position |-> 1] \in S
    <2>1. 0 \in Nat
        OBVIOUS
    <2> DEFINE b == Begun(r)
    <2>2. b \in Handled(0, ns)
        BY <2>1, BegunHandled
    <2>3. b.locked = r.locked /\ b.hung = r.hung
        BY <1>1 DEF Begun, RelayStates
    <2> HIDE DEF b
    <2>4. b \in H
        BY <2>2, <2>3 DEF LockedAs
    <2> HIDE DEF H
    <2> QED BY <2>4 DEF b
<1>3. ASSUME NEW s \in S, NEW i \in 1..n
      PROVE  rootStep(s, r.withRoots[i], t, mask) \in S
    <2> DEFINE q == rootStep(s, r.withRoots[i], t, mask)
               h == s.r
               k == s.position
    <2>1. h \in H /\ k \in Nat /\ s = [r |-> h, position |-> k]
        <3> HIDE DEF H
        <3> QED OBVIOUS
    <2>2. h \in Handled(0, ns) /\ LockedAs(h, r)
        BY <2>1
    <2>3. r.withRoots[i] \in Conditions /\ ~h.locked
        BY <1>1, <2>2 DEF LockedAs
    <2> HIDE DEF h, k, S, n, H
    <2>4. /\ q.r \in Handled(0, ns) /\ q.position \in Nat
          /\ q = [r |-> q.r, position |-> q.position]
        BY <2>1, <2>2, <2>3, RootStepHandled
    <2>5. LockedAs(q.r, h)
        BY <2>1, <2>2, <2>3, RootStepLock
    <2> HIDE DEF q
    <2>6. q.r \in H
        BY <2>2, <2>4, <2>5 DEF LockedAs, H
    <2>7. q \in S
        BY <2>4, <2>6 DEF S
    <2> QED BY <2>7 DEF q
<1> HIDE DEF S, n, H
<1>4. RootStepsClosed(S, n, r, t, mask)
    BY <1>3 DEF RootStepsClosed
<1>5. PICK p : RootStepsRun(p, S, n, r, t, mask)
    BY <1>1, <1>2, <1>4, RootStepsFold
<1> DEFINE z == rootSteps(r, t, mask)
<1>6. z \in H
    <2>1. p[n] \in S /\ p[n].r = z
        BY <1>1, <1>5 DEF RootStepsRun
    <2> QED BY <2>1 DEF S
<1>7. rootTrigger(r, t, mask) = [z EXCEPT !.withRoots = RootsOf(z.cStates)]
    BY DEF rootTrigger, updateRootCount
<1> HIDE DEF z
<1>8. z \in RelayStates /\ LockedAs(z, r)
    BY <1>6 DEF H, Handled
<1> DEFINE q == rootTrigger(r, t, mask)
<1>9. q.locked = z.locked /\ q.hung = z.hung
    BY <1>7, <1>8 DEF RelayStates
<1> HIDE DEF q
<1> QED BY <1>8, <1>9 DEF q, LockedAs

LEMMA ClearType ==
    ASSUME design \in Designs, NEW s \in RelayStates, NEW c
    PROVE  clearCondChecks(s, c) \in RelayStates
<1>1. PICK u : /\ Earliest(s, c, u)
               /\ clearCondChecks(s, c) = IF u # s.nextUpdateTime
                                          THEN alerted(Cleaned(s, c, u))
                                          ELSE Cleaned(s, c, u)
    BY ClearCases
<1> DEFINE q == Cleaned(s, c, u)
<1>2. checksWithout(s.condChecks, c) \in Seq(CondChecks) /\ u \in 0..Inf
    BY <1>1, WithoutIs DEF RelayStates, Earliest
<1>3. q \in RelayStates
    BY <1>2 DEF Cleaned, RelayStates
<1> HIDE DEF q
<1>4. alerted(q) \in RelayStates
    BY <1>3, AlertedType
<1> QED BY <1>1, <1>3, <1>4 DEF q

\* Between handlers no thread has the lock, and none waits for it.
FreeInv == ~relay.locked /\ (Calm \/ AtOnce => ~relay.hung)

\* update of a relay that acts at once, or whose conditions change at roots:
\* what it finds true is TRIGGERED already, so it raises no alert.
LEMMA UpdateFree ==
    ASSUME design \in Designs, NEW t \in 0..Horizon, NEW ns, NEW r \in Handled(0, ns),
           NEW l, ~r.locked, ~r.hung,
           AtOnce \/ (Continuous /\ Consistent(r) /\ Settled(r, l))
    PROVE  ~updateB(updateA(Locked(r), l, t), t).hung
<1> DEFINE w == Locked(r)
           a == updateA(w, l, t)
<1>1. w \in Handled(0, ns)
    BY LockHandled
<1>2. r \in RelayStates
    BY DEF Handled
<1>3. /\ w.cStates = r.cStates /\ w.margin = r.margin
      /\ w.triggerTimes = r.triggerTimes /\ w.condChecks = r.condChecks
      /\ w.taken = r.taken /\ ~w.hung
    BY <1>2 DEF Locked, RelayStates
<1> HIDE DEF w
<1>4. a \in RelayStates
    BY <1>1, UpdateAHandled DEF Handled
<1>5. CASE AtOnce
    <2>1. LockedAs(a, w)
        BY <1>1, <1>5, UpdateALock
    <2> QED BY <1>3, <1>4, <2>1 DEF LockedAs, updateB, RelayStates, w
<1>6. CASE Continuous /\ Consistent(r) /\ Settled(r, l)
    <2>1. Consistent(w) /\ Settled(w, l)
        BY <1>3, <1>6 DEF Settled, Consistent, CheckKept
    <2>2. a = Waiting(w, l, t)
        BY <1>1, <1>6, <2>1, UpdateACalm
    <2>3. LockedAs(a, w)
        BY <1>1, <2>2, WaitingLock
    <2> QED BY <1>3, <1>4, <2>3 DEF LockedAs, updateB, RelayStates, w
<1> QED BY <1>5, <1>6

LEMMA NextFree ==
    ASSUME IInv, HeldInv, FreeInv, [Next]_vars
    PROVE  FreeInv'
<1> DEFINE ns == relay.nextSampleTime
<1>1. /\ design \in Designs /\ time \in 0..Horizon /\ relay \in Handled(0, ns)
      /\ relay \in RelayStates /\ ~relay.locked /\ LockedAs(relay, relay)
      /\ 0 \in Nat /\ 0 \in 0..(time + 1)
    BY DesignFacts DEF IInv, TypeOK, FreeInv, LockedAs
<1>2. design' = design
    BY DesignFixed
<1>3. Calm' = Calm /\ AtOnce' = AtOnce
    BY <1>2 DEF Calm, Continuous, Resettable, Allowed, AtOnce, Conditions, Triggers, Multi
<1>4. LockedAs(relay', relay) => FreeInv'
    BY <1>3 DEF LockedAs, FreeInv
<1> HIDE DEF ns
<1> DEFINE b == Begun(relay)
<1>5. LockedAs(b, relay) /\ b \in Handled(0, ns) /\ b \in RelayStates
    <2>1. b \in Handled(0, ns)
        BY <1>1, BegunHandled
    <2>2. LockedAs(b, relay)
        BY <1>1 DEF Begun, RelayStates, LockedAs
    <2> HIDE DEF b
    <2> QED BY <2>1, <2>2 DEF Handled
<1> HIDE DEF b
<1>6. CASE advance
    BY <1>4, <1>5, <1>6 DEF advance, b
<1>7. CASE update
    <2> DEFINE a == updateA(Locked(relay), level, time)
               c == updateB(a, time)
               h == Hung(b)
               q == Rescheduled(c)
    <2>1. relay' = IF c.hung THEN h ELSE q
        BY <1>7 DEF update, Locked, Hung, Rescheduled, b
    <2>2. c \in RelayStates
        <3>1. \E m : c \in Handled(0, m)
            BY <1>1, UpdateHandled
        <3> QED BY <3>1 DEF Handled
    <2>3. h.locked = relay.locked
        BY <1>5 DEF Hung, RelayStates, LockedAs
    <2>4. Calm \/ AtOnce => ~c.hung
        <3>1. SUFFICES ASSUME Calm \/ AtOnce PROVE ~c.hung
            OBVIOUS
        <3>2. ~relay.hung
            BY <3>1 DEF FreeInv
        <3>3. AtOnce \/ (Continuous /\ Consistent(relay) /\ Settled(relay, level))
            BY <3>1, FollowsSettled DEF HeldInv, Calm
        <3> QED BY <1>1, <3>2, <3>3, UpdateFree
    <2> HIDE DEF c, h
    <2>5. q.locked = FALSE /\ q.hung = c.hung
        BY <2>2 DEF Rescheduled, RelayStates
    <2> HIDE DEF q
    <2> QED BY <1>1, <1>3, <2>1, <2>3, <2>4, <2>5 DEF FreeInv
<1>8. ASSUME NEW c \in Conditions, NEW st \in {"ACTIVE", "TRIGGERED", "DISABLED"},
             setConditionStatus(c, st)
      PROVE  FreeInv'
    <2> DEFINE q == Switching(b, c, st)
               u == Remargined(q, c, st)
               v == clearCondChecks(q, c)
    <2>1. relay' = IF st = "DISABLED" THEN updateRootCount(v) ELSE updateRootCount(u)
        BY <1>8 DEF setConditionStatus, Switching, Remargined, b
    <2>2. q \in RelayStates /\ LockedAs(q, relay)
        <3>1. [b.cStates EXCEPT ![c] = st]
                \in [Conditions -> {"ACTIVE", "TRIGGERED", "DISABLED"}]
            BY <1>5 DEF RelayStates
        <3>2. q = [b EXCEPT !.cStates = [@ EXCEPT ![c] = st]]
            BY DEF Switching
        <3> QED BY <1>5, <3>1, <3>2 DEF RelayStates, LockedAs
    <2> HIDE DEF q
    <2>3. LockedAs(v, relay) /\ v \in RelayStates
        BY <1>1, <2>2, ClearLock, ClearType
    <2>4. LockedAs(u, relay) /\ u \in RelayStates
        <3>1. u \in RelayStates
            BY <2>2 DEF Remargined, RelayStates
        <3>2. u.locked = q.locked /\ u.hung = q.hung
            BY <2>2 DEF Remargined, RelayStates
        <3> QED BY <2>2, <3>1, <3>2 DEF LockedAs
    <2> HIDE DEF u, v
    <2>5. \A z \in RelayStates : LockedAs(z, relay) => LockedAs(updateRootCount(z), relay)
        BY DEF updateRootCount, RelayStates, LockedAs
    <2> QED BY <1>4, <2>1, <2>3, <2>4, <2>5
<1>9. CASE rootCheck
    <2> DEFINE a == updateA(relay, level, time)
               q == updateRootCount(alerted(a))
    <2>1. LockedAs(a, relay)
        BY <1>1, UpdateALock
    <2>2. a \in RelayStates
        BY <1>1, UpdateAHandled DEF Handled
    <2>3. relay' = IF a.count # 0 THEN q ELSE a
        BY <1>9 DEF rootCheck
    <2> HIDE DEF a
    <2>4. LockedAs(alerted(a), relay) /\ alerted(a) \in RelayStates
        BY <1>1, <2>1, <2>2, AlertedLock, AlertedType
    <2>5. LockedAs(q, relay)
        BY <2>4 DEF updateRootCount, RelayStates, LockedAs
    <2> QED BY <1>4, <2>1, <2>3, <2>5
<1>10. CASE powerFlowAdjust
    <2> DEFINE s == sample(b, level, time, Inf)
    <2>1. relay' = s
        BY <1>10 DEF powerFlowAdjust, b
    <2>2. Inf \in Nat /\ ~b.locked
        BY <1>1, <1>5, DesignFacts DEF LockedAs
    <2>3. LockedAs(s, b)
        BY <1>1, <1>5, <2>2, SampleLock
    <2> QED BY <1>4, <1>5, <2>1, <2>3 DEF LockedAs
<1>11. ASSUME NEW l \in [Conditions -> 0..2], gridMoves(l)
       PROVE  FreeInv'
    <2>1. \/ relay' = b
          \/ \E mask : relay' = rootTrigger(relay, time, mask)
        BY <1>11 DEF gridMoves, b
    <2>2. \A mask : LockedAs(rootTrigger(relay, time, mask), relay)
        BY <1>1, RootTriggerLock
    <2> QED BY <1>4, <1>5, <2>1, <2>2
<1>12. ASSUME NEW l \in [Conditions -> 0..2], gridJumps(l)
       PROVE  FreeInv'
    BY <1>4, <1>5, <1>12 DEF gridJumps, b
<1>13. CASE vars' = vars
    BY <1>1, <1>4, <1>13 DEF vars
<1> QED BY <1>6, <1>7, <1>8, <1>9, <1>10, <1>11, <1>12, <1>13 DEF Next

\* A relay that acts without delays, and a continuous one whose conditions
\* change at roots only, never wait for the mutex that their own thread holds,
\* although update runs under it and alerts lock it: an alert needs a check to
\* be added or dropped while update runs.  A sampled relay with a delay does
\* wait, and so does a continuous one after a jump.
THEOREM LockNotAwaited == Spec => [](Calm \/ AtOnce => NoSelfLock)
<1>1. Init => FreeInv
    BY DEF Init, FreeInv
<1>2. IInv /\ HeldInv /\ FreeInv /\ [Next]_vars => FreeInv'
    BY NextFree
<1>3. FreeInv => (Calm \/ AtOnce => NoSelfLock)
    BY DEF FreeInv, NoSelfLock
<1> QED BY <1>1, <1>2, <1>3, RelayInvariant, HeldInvariant, PTL DEF Spec

=============================================================================
