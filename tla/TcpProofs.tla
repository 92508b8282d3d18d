------------------------------ MODULE TcpProofs ------------------------------
(***************************************************************************)
(* Proofs about the socket counters: lemmas about _sum_counters, for every *)
(* numbering of the states in which INDEX_TOTAL is not a state, then the   *)
(* two ways of filling the counters, that of Linux for any number of       *)
(* sockets and that of BSD for lists of any length.                        *)
(***************************************************************************)
EXTENDS TcpStats, TcpPcb, FiniteSetTheorems, TLAPS

-----------------------------------------------------------------------------
(***************************************************************************)
(* Sums over finite sets.  The library's induction theorems take an        *)
(* operator as a parameter and cannot be used here; in their place stands  *)
(* the smallest set that is an exception, and for the recursive definition *)
(* of the sum a number that needs no recursion.                            *)
(***************************************************************************)

\* A set of subsets of a finite set has a smallest member.
LEMMA SmallestSet ==
    ASSUME NEW S, IsFiniteSet(S), NEW Sets \in SUBSET (SUBSET S), Sets # {}
    PROVE  \E R \in Sets : \A Q \in Sets : Q \subseteq R => Q = R
<1>1. IsWellFoundedOn(StrictSubsetOrdering(S), FiniteSubsetsOf(S))
  BY FS_StrictSubsetOrderingWellFounded
<1>2. Sets \subseteq FiniteSubsetsOf(S)
  BY FS_Subset DEF FiniteSubsetsOf
<1>3. PICK R \in Sets : \A Q \in Sets : ~ (<<Q, R>> \in StrictSubsetOrdering(S))
  BY <1>1, <1>2, WFMin
<1>4. ASSUME NEW Q \in Sets, Q \subseteq R, Q # R
      PROVE  FALSE
  <2>1. <<Q, R>> \in StrictSubsetOrdering(S)
    BY <1>4 DEF StrictSubsetOrdering
  <2> QED
    BY <1>3, <2>1
<1> QED
  BY <1>4

\* A number is a column of cells, a sum of numbers the cells of all columns.
Cells(fun, S) == UNION {{x} \X (1 .. fun[x]) : x \in S}

\* One column more.
LEMMA CellsOfOne ==
    ASSUME NEW fun, NEW S, NEW x \in S, fun[x] \in Nat,
           IsFiniteSet(Cells(fun, S \ {x}))
    PROVE  /\ IsFiniteSet(Cells(fun, S))
           /\ Cardinality(Cells(fun, S)) = fun[x] + Cardinality(Cells(fun, S \ {x}))
           /\ Cardinality(Cells(fun, S \ {x})) \in Nat
<1> DEFINE Col == {x} \X (1 .. fun[x])
           Rest == Cells(fun, S \ {x})
<1>1. Cells(fun, S) = Col \cup Rest /\ Col \cap Rest = {}
  <2>1. Rest = UNION {{y} \X (1 .. fun[y]) : y \in S \ {x}}
    BY DEF Cells
  <2>2. ASSUME NEW p \in Col PROVE p[1] = x
    OBVIOUS
  <2>3. ASSUME NEW p \in Rest PROVE p[1] # x
    <3>1. PICK y \in S \ {x} : p \in {y} \X (1 .. fun[y])
      BY <2>1
    <3> QED
      BY <3>1
  <2>4. Col \cap Rest = {}
    <3> HIDE DEF Col, Rest
    <3> QED
      BY <2>2, <2>3
  <2>5. Cells(fun, S) = Col \cup Rest
    <3> DEFINE col(y) == {y} \X (1 .. fun[y])
    <3>1. Cells(fun, S) = UNION {col(y) : y \in S} /\ Col = col(x)
          /\ Rest = UNION {col(y) : y \in S \ {x}}
      BY DEF Cells
    <3> HIDE DEF col, Col, Rest
    <3> QED
      BY <3>1
  <2> QED
    BY <2>4, <2>5
<1>2. IsFiniteSet(1 .. fun[x]) /\ Cardinality(1 .. fun[x]) = fun[x]
  <2>1. PICK m \in Nat : m = fun[x]
    OBVIOUS
  <2>2. IsFiniteSet(1 .. m) /\ Cardinality(1 .. m) = IF 1 > m THEN 0 ELSE m - 1 + 1
    BY FS_Interval
  <2> QED
    BY ONLY <2>1, <2>2
<1>3. IsFiniteSet({x}) /\ Cardinality({x}) = 1
  BY FS_Singleton
<1>4. IsFiniteSet(Col) /\ Cardinality(Col) = fun[x]
  <2> DEFINE I == 1 .. fun[x]
             X == {x}
  <2> HIDE DEF I, X
  <2>1. IsFiniteSet(X \X I) /\ Cardinality(X \X I) = Cardinality(X) * Cardinality(I)
    BY <1>2, <1>3, FS_Product DEF I, X
  <2> QED
    BY <1>2, <1>3, <2>1 DEF I, X
<1>5. Cardinality(Rest) \in Nat /\ Cardinality(Col \cap Rest) = 0
  BY <1>1, FS_CardinalityType, FS_EmptySet
<1> HIDE DEF Col, Rest
<1>6. /\ IsFiniteSet(Col \cup Rest)
      /\ Cardinality(Col \cup Rest) = Cardinality(Col) + Cardinality(Rest)
                                      - Cardinality(Col \cap Rest)
  BY <1>4, FS_Union DEF Rest
<1> QED
  BY <1>1, <1>4, <1>5, <1>6 DEF Rest

LEMMA CellsFinite ==
    ASSUME NEW fun, NEW S, IsFiniteSet(S), \A x \in S : fun[x] \in Nat
    PROVE  \A s \in SUBSET S : IsFiniteSet(Cells(fun, s))
<1> DEFINE Bad == {s \in SUBSET S : ~ IsFiniteSet(Cells(fun, s))}
<1> SUFFICES ASSUME Bad # {} PROVE FALSE
  OBVIOUS
<1>0. Bad \in SUBSET (SUBSET S)
  OBVIOUS
<1> HIDE DEF Bad
<1>1. PICK R \in Bad : \A Q \in Bad : Q \subseteq R => Q = R
  BY <1>0, SmallestSet
<1> USE DEF Bad
<1>2. R # {}
  BY FS_EmptySet DEF Cells
<1>3. PICK x \in R : TRUE
  BY <1>2
<1>4. R \ {x} \notin Bad
  BY <1>1
<1> QED
  BY <1>4, CellsOfOne

\* One step of the recursion by which the community modules add up.
Added(fun, S, g) ==
    [s \in SUBSET S |->
        IF s = {} THEN 0
        ELSE fun[CHOOSE x \in s : TRUE] + g[s \ {CHOOSE x \in s : TRUE}]]

\* The recursion has a solution: the number of cells.
LEMMA CellsAreAdded ==
    ASSUME NEW fun, NEW S, IsFiniteSet(S), \A x \in S : fun[x] \in Nat,
           NEW g, g = [s \in SUBSET S |-> Cardinality(Cells(fun, s))]
    PROVE  g = Added(fun, S, g)
<1>1. ASSUME NEW s \in SUBSET S, s # {}
      PROVE  g[s] = fun[CHOOSE x \in s : TRUE] + g[s \ {CHOOSE x \in s : TRUE}]
  <2>1. PICK x : x = CHOOSE y \in s : TRUE
    OBVIOUS
  <2>2. x \in s
    BY <1>1, <2>1
  <2>3. Cardinality(Cells(fun, s)) = fun[x] + Cardinality(Cells(fun, s \ {x}))
    <3>1. fun[x] \in Nat /\ s \ {x} \in SUBSET S
      BY <2>2
    <3>2. IsFiniteSet(Cells(fun, s \ {x}))
      BY <3>1, CellsFinite
    <3> QED
      BY <2>2, <3>1, <3>2, CellsOfOne
  <2> QED
    BY <2>1, <2>2, <2>3
<1>2. Cardinality(Cells(fun, {})) = 0
  BY FS_EmptySet DEF Cells
<1>3. \A s \in SUBSET S :
         g[s] = IF s = {} THEN 0
                ELSE fun[CHOOSE x \in s : TRUE] + g[s \ {CHOOSE x \in s : TRUE}]
  BY <1>1, <1>2
<1> QED
  BY <1>3 DEF Added

\* It has no other one.
LEMMA AddedAreCells ==
    ASSUME NEW fun, NEW S, IsFiniteSet(S), \A x \in S : fun[x] \in Nat,
           NEW g, g = Added(fun, S, g)
    PROVE  \A s \in SUBSET S : g[s] = Cardinality(Cells(fun, s))
<1> DEFINE Bad == {s \in SUBSET S : g[s] # Cardinality(Cells(fun, s))}
<1> SUFFICES ASSUME Bad # {} PROVE FALSE
  OBVIOUS
<1>0. Bad \in SUBSET (SUBSET S)
  OBVIOUS
<1> HIDE DEF Bad
<1>1. PICK R \in Bad : \A Q \in Bad : Q \subseteq R => Q = R
  BY <1>0, SmallestSet
<1> USE DEF Bad
<1>2. g[R] = IF R = {} THEN 0
             ELSE fun[CHOOSE x \in R : TRUE] + g[R \ {CHOOSE x \in R : TRUE}]
  BY DEF Added
<1>3. R # {}
  BY <1>2, FS_EmptySet DEF Cells
<1>4. PICK x : x = CHOOSE y \in R : TRUE
  OBVIOUS
<1>5. x \in R
  BY <1>3, <1>4
<1>6. g[R \ {x}] = Cardinality(Cells(fun, R \ {x}))
  BY <1>1, <1>5
<1>7. Cardinality(Cells(fun, R)) = fun[x] + Cardinality(Cells(fun, R \ {x}))
  <2>1. fun[x] \in Nat /\ R \ {x} \in SUBSET S
    BY <1>5
  <2>2. IsFiniteSet(Cells(fun, R \ {x}))
    BY <2>1, CellsFinite
  <2> QED
    BY <1>5, <2>1, <2>2, CellsOfOne
<1> QED
  BY <1>2, <1>3, <1>4, <1>6, <1>7

\* What the community modules call the sum is the number of cells.
LEMMA SumIsCells ==
    ASSUME NEW fun, NEW S, IsFiniteSet(S), \A x \in S : fun[x] \in Nat
    PROVE  SumFunctionOnSet(fun, S) = Cardinality(Cells(fun, S))
<1>1. SumFunctionOnSet(fun, S) = (CHOOSE g : g = Added(fun, S, g))[S]
  BY DEF SumFunctionOnSet, FoldFunctionOnSet, MapThenFoldSet, Added
<1>2. PICK g : g = CHOOSE h : h = Added(fun, S, h)
  OBVIOUS
<1>3. g = Added(fun, S, g)
  <2>1. PICK h : h = [s \in SUBSET S |-> Cardinality(Cells(fun, s))]
    OBVIOUS
  <2>2. h = Added(fun, S, h)
    BY <2>1, CellsAreAdded
  <2> QED
    BY <1>2, <2>2, Zenon
<1>4. S \in SUBSET S
  OBVIOUS
<1>5. \A s \in SUBSET S : g[s] = Cardinality(Cells(fun, s))
  BY <1>3, AddedAreCells
<1> QED
  BY <1>1, <1>2, <1>4, <1>5

LEMMA SumType ==
    ASSUME NEW fun, NEW S, IsFiniteSet(S), \A x \in S : fun[x] \in Nat
    PROVE  SumFunctionOnSet(fun, S) \in Nat
  BY SumIsCells, CellsFinite, FS_CardinalityType

LEMMA SumOfNone ==
    ASSUME NEW fun
    PROVE  SumFunctionOnSet(fun, {}) = 0
<1>1. SumFunctionOnSet(fun, {}) = Cardinality(Cells(fun, {}))
  BY FS_EmptySet, SumIsCells
<1> QED
  BY <1>1, FS_EmptySet DEF Cells

\* From here on the sum is known by what follows.
LEMMA SumOfOneMore ==
    ASSUME NEW fun, NEW S, IsFiniteSet(S), NEW x \in S, \A y \in S : fun[y] \in Nat
    PROVE  SumFunctionOnSet(fun, S) = fun[x] + SumFunctionOnSet(fun, S \ {x})
<1>1. IsFiniteSet(S \ {x}) /\ IsFiniteSet(Cells(fun, S \ {x}))
  BY FS_RemoveElement, CellsFinite
<1>2. SumFunctionOnSet(fun, S \ {x}) = Cardinality(Cells(fun, S \ {x}))
  BY <1>1, SumIsCells
<1>3. SumFunctionOnSet(fun, S) = Cardinality(Cells(fun, S))
  BY SumIsCells
<1>4. fun[x] \in Nat
  OBVIOUS
<1>5. Cardinality(Cells(fun, S)) = fun[x] + Cardinality(Cells(fun, S \ {x}))
  BY <1>1, <1>4, CellsOfOne
<1> QED
  BY <1>2, <1>3, <1>5

LEMMA SumOfSame ==
    ASSUME NEW fun, NEW gun, NEW S, IsFiniteSet(S),
           \A x \in S : fun[x] \in Nat /\ gun[x] = fun[x]
    PROVE  SumFunctionOnSet(gun, S) = SumFunctionOnSet(fun, S)
<1>1. Cells(gun, S) = Cells(fun, S)
  BY DEF Cells
<1> QED
  BY <1>1, SumIsCells

\* The sum of sums is the sum of both.
LEMMA SumOfSums ==
    ASSUME NEW fun, NEW gun, NEW hun, NEW S, IsFiniteSet(S),
           \A x \in S : fun[x] \in Nat /\ gun[x] \in Nat /\ hun[x] = fun[x] + gun[x]
    PROVE  SumFunctionOnSet(hun, S) = SumFunctionOnSet(fun, S) + SumFunctionOnSet(gun, S)
<1> DEFINE Bad == {s \in SUBSET S : SumFunctionOnSet(hun, s) #
                     SumFunctionOnSet(fun, s) + SumFunctionOnSet(gun, s)}
<1> SUFFICES ASSUME Bad # {} PROVE FALSE
  OBVIOUS
<1>0. Bad \in SUBSET (SUBSET S)
  OBVIOUS
<1> HIDE DEF Bad
<1>1. PICK R \in Bad : \A Q \in Bad : Q \subseteq R => Q = R
  BY <1>0, SmallestSet
<1> USE DEF Bad
<1>2. CASE R = {}
  BY <1>2, SumOfNone
<1>3. CASE R # {}
  <2>1. PICK x \in R : TRUE
    BY <1>3
  <2>2. IsFiniteSet(R) /\ R \subseteq S
    BY FS_Subset
  <2>3. IsFiniteSet(R \ {x})
    BY <2>2, FS_RemoveElement
  <2>4. /\ SumFunctionOnSet(hun, R) = hun[x] + SumFunctionOnSet(hun, R \ {x})
        /\ SumFunctionOnSet(fun, R) = fun[x] + SumFunctionOnSet(fun, R \ {x})
        /\ SumFunctionOnSet(gun, R) = gun[x] + SumFunctionOnSet(gun, R \ {x})
    BY <2>2, SumOfOneMore
  <2>5. /\ SumFunctionOnSet(fun, R \ {x}) \in Nat
        /\ SumFunctionOnSet(gun, R \ {x}) \in Nat
    BY <2>2, <2>3, SumType
  <2>6. SumFunctionOnSet(hun, R \ {x}) =
           SumFunctionOnSet(fun, R \ {x}) + SumFunctionOnSet(gun, R \ {x})
    BY <1>1
  <2> QED
    BY <2>2, <2>4, <2>5, <2>6
<1> QED
  BY <1>2, <1>3

\* One number is raised by n.
LEMMA SumRaised ==
    ASSUME NEW fun, NEW gun, NEW S, IsFiniteSet(S), NEW x \in S, NEW n \in Nat,
           \A y \in S : fun[y] \in Nat /\ gun[y] = IF y = x THEN fun[y] + n ELSE fun[y]
    PROVE  SumFunctionOnSet(gun, S) = SumFunctionOnSet(fun, S) + n
<1>1. IsFiniteSet(S \ {x})
  BY FS_RemoveElement
<1>2. SumFunctionOnSet(gun, S \ {x}) = SumFunctionOnSet(fun, S \ {x})
  BY <1>1, SumOfSame
<1>3. SumFunctionOnSet(fun, S \ {x}) \in Nat
  BY <1>1, SumType
<1>4. SumFunctionOnSet(fun, S) = fun[x] + SumFunctionOnSet(fun, S \ {x})
  BY SumOfOneMore
<1>5. SumFunctionOnSet(gun, S) = gun[x] + SumFunctionOnSet(gun, S \ {x})
  BY SumOfOneMore
<1> QED
  BY <1>2, <1>3, <1>4, <1>5

\* A sum of zeros is its own double.
LEMMA SumOfZeros ==
    ASSUME NEW fun, NEW S, IsFiniteSet(S), \A x \in S : fun[x] = 0
    PROVE  SumFunctionOnSet(fun, S) = 0
<1>1. SumFunctionOnSet(fun, S) = SumFunctionOnSet(fun, S) + SumFunctionOnSet(fun, S)
  BY SumOfSums
<1>2. SumFunctionOnSet(fun, S) \in Nat
  BY SumType
<1> DEFINE t == SumFunctionOnSet(fun, S)
<1>3. t = t + t /\ t \in Nat
  BY <1>1, <1>2
<1> HIDE DEF t
<1>4. t = 0
  BY <1>3
<1> QED
  BY <1>4 DEF t

-----------------------------------------------------------------------------
(***************************************************************************)
(* _sum_counters.                                                          *)
(***************************************************************************)

\* What family f has contributed to tcp[x] so far: all of its counters once
\* _sum_counters is through, the states before i while it runs.
Contribution(f, x) ==
    IF \/ f < v
       \/ pc = "done"
       \/ f = v /\ pc = "sum" /\ x \in States /\ x < i
    THEN tcpv[f][x]
    ELSE 0

Shared == \A x \in Indexes : tcp[x] = Contribution(4, x) + Contribution(6, x)

LEMMA ZeroCounters ==
    /\ Zero \in Counters
    /\ \A x \in Indexes : Zero[x] = 0
  BY DEF Zero, Counters

LEMMA InitCountersType == InitCounters => CountersTypeOK
  BY ZeroCounters, TcpCountersAssumption
     DEF InitCounters, CountersTypeOK, Families, States, NoSockets

\* One round of the loop keeps the types.
LEMMA SumStateType == CountersTypeOK /\ SumState => CountersTypeOK'
<1> SUFFICES ASSUME CountersTypeOK, SumState
             PROVE  CountersTypeOK'
  OBVIOUS
<1> USE DEF CountersTypeOK
<1>1. i \in States /\ INDEX_TOTAL \in Indexes /\ i \in Indexes
  BY TcpCountersAssumption DEF SumState, InRange, States, Indexes
<1>2. tcpv[v][i] \in Nat /\ tcp[i] \in Nat /\ tcpv[v][INDEX_TOTAL] \in Nat
  BY <1>1 DEF Counters
<1> QED
  BY <1>1, <1>2, TcpCountersAssumption DEF SumState, InRange, Counters

\* The end of _sum_counters keeps the types.
LEMMA SumTotalType ==
    ASSUME NEW next, CountersTypeOK, SumTotal(next)
    PROVE  CountersTypeOK'
<1>1. INDEX_TOTAL \in Indexes
  BY DEF Indexes
<1>2. tcp' \in Counters
  BY <1>1 DEF SumTotal, CountersTypeOK, Counters
<1>3. i' \in TCP_STATE_FIRST .. TCP_STATE_LAST + 1
  BY TcpCountersAssumption DEF SumTotal
<1> QED
  BY <1>2, <1>3 DEF SumTotal, CountersTypeOK, Families

\* What is known of one index before a step.
LEMMA IndexFacts ==
    ASSUME CountersTypeOK, Shared, NEW x \in Indexes
    PROVE  /\ tcp[x] = Contribution(4, x) + Contribution(6, x)
           /\ tcp[x] \in Nat /\ tcpv[4][x] \in Nat /\ tcpv[6][x] \in Nat
           /\ i \in Int
           /\ v = 4 \/ v = 6
           /\ x \in States => x \in Int
           /\ INDEX_TOTAL \in Indexes /\ INDEX_TOTAL \notin States
           /\ x \in States \/ x = INDEX_TOTAL
<1>1. tcp[x] = Contribution(4, x) + Contribution(6, x)
  BY DEF Shared
<1>2. /\ x \in States => x \in Int
      /\ INDEX_TOTAL \in Indexes /\ INDEX_TOTAL \notin States
      /\ x \in States \/ x = INDEX_TOTAL
  BY TcpCountersAssumption DEF States, Indexes
<1>3. tcp[x] \in Nat /\ tcpv[4][x] \in Nat /\ tcpv[6][x] \in Nat
  BY DEF CountersTypeOK, Counters, Families
<1>4. i \in Int /\ (v = 4 \/ v = 6)
  BY TcpCountersAssumption DEF CountersTypeOK, Families
<1> QED
  BY <1>1, <1>2, <1>3, <1>4

\* One round of the loop moves one state from the family to both families.
LEMMA SumStateShared == CountersTypeOK /\ Shared /\ SumState => Shared'
<1> SUFFICES ASSUME CountersTypeOK, Shared, SumState, NEW x \in Indexes
             PROVE  tcp'[x] = Contribution(4, x)' + Contribution(6, x)'
  BY DEF Shared
<1> USE DEF Contribution
<1>1. /\ i \in States /\ i \in Indexes /\ i' = i + 1
      /\ pc = "sum" /\ pc' = pc /\ v' = v
      /\ tcp' = [tcp EXCEPT ![i] = @ + tcpv[v][i]]
      /\ tcpv' = [tcpv EXCEPT ![v][INDEX_TOTAL] = @ + tcpv[v][i]]
  BY TcpCountersAssumption
     DEF SumState, InRange, CountersTypeOK, States, Indexes
<1>2. \A f \in Families : f # v => tcpv'[f] = tcpv[f]
  BY <1>1 DEF CountersTypeOK
<1>3. x # INDEX_TOTAL => tcpv'[v][x] = tcpv[v][x]
  BY <1>1 DEF CountersTypeOK, Counters
<1>4. CASE x = i
  <2>1. tcp'[x] = tcp[x] + tcpv[v][x]
    BY <1>1, <1>4 DEF CountersTypeOK, Counters
  <2>2. tcpv'[v][x] = tcpv[v][x]
    BY IndexFacts, <1>1, <1>3, <1>4
  <2> QED
    BY IndexFacts, <1>1, <1>2, <1>4, <2>1, <2>2 DEF Families
<1>5. CASE x # i
  <2>1. tcp'[x] = tcp[x]
    BY <1>1, <1>5 DEF CountersTypeOK, Counters
  <2>2. x \in States => (x < i' <=> x < i) /\ tcpv'[v][x] = tcpv[v][x]
    BY IndexFacts, <1>1, <1>3, <1>5
  <2> QED
    BY IndexFacts, <1>1, <1>2, <1>5, <2>1, <2>2 DEF Families
<1> QED
  BY <1>4, <1>5

\* The end of _sum_counters completes the contribution of its family.
LEMMA SumTotalShared ==
    ASSUME NEW next \in {"open", "sum"}, CountersTypeOK, Shared, SumTotal(next)
    PROVE  Shared'
<1> SUFFICES ASSUME NEW x \in Indexes
             PROVE  tcp'[x] = Contribution(4, x)' + Contribution(6, x)'
  BY DEF Shared
<1> USE DEF Contribution
<1>1. /\ pc = "sum" /\ v' = 6 /\ tcpv' = tcpv /\ i' = TCP_STATE_FIRST
      /\ pc' = IF v = 4 THEN next ELSE "done"
      /\ tcp' = [tcp EXCEPT ![INDEX_TOTAL] = @ + tcpv[v][INDEX_TOTAL]]
  BY DEF SumTotal
<1>2. x \in States => x < i /\ ~ (x < i')
  BY <1>1, TcpCountersAssumption DEF SumTotal, InRange, CountersTypeOK, States
<1>3. CASE x = INDEX_TOTAL
  <2>1. tcp'[x] = tcp[x] + tcpv[v][x]
    BY <1>1, <1>3 DEF CountersTypeOK, Counters
  <2> QED
    BY IndexFacts, <1>1, <1>3, <2>1
<1>4. CASE x # INDEX_TOTAL
  <2>1. tcp'[x] = tcp[x]
    BY <1>1, <1>4 DEF CountersTypeOK, Counters
  <2> QED
    BY IndexFacts, <1>1, <1>2, <1>4, <2>1
<1> QED
  BY <1>3, <1>4

-----------------------------------------------------------------------------
(***************************************************************************)
(* The totals.                                                             *)
(***************************************************************************)

\* The states of family f whose counters are in its total.
Summed(f) ==
    {s \in States : \/ f < v
                    \/ pc = "done"
                    \/ f = v /\ pc = "sum" /\ s < i}

Totalled ==
    \A f \in Families :
        tcpv[f][INDEX_TOTAL] = SumFunctionOnSet(tcpv[f], Summed(f))

LEMMA StatesFinite ==
    /\ IsFiniteSet(States)
    /\ \A S \in SUBSET States : IsFiniteSet(S)
    /\ States \subseteq Nat /\ States \subseteq Indexes
    /\ INDEX_TOTAL \in Indexes /\ INDEX_TOTAL \notin States
<1>1. IsFiniteSet(States)
  BY FS_Interval, TcpCountersAssumption DEF States
<1>2. \A S \in SUBSET States : IsFiniteSet(S)
  BY <1>1, FS_Subset
<1> QED
  BY <1>1, <1>2, TcpCountersAssumption DEF States, Indexes

LEMMA SumOfStates ==
    ASSUME CountersTypeOK, NEW f \in Families, NEW S \in SUBSET States
    PROVE  /\ \A s \in S : tcpv[f][s] \in Nat
           /\ SumFunctionOnSet(tcpv[f], S) \in Nat
<1>1. \A s \in S : tcpv[f][s] \in Nat
  BY StatesFinite DEF CountersTypeOK, Counters
<1> QED
  BY <1>1, StatesFinite, SumType

\* One round of the loop adds the counter of state i to the total.
LEMMA SumStateTotalled == CountersTypeOK /\ Totalled /\ SumState => Totalled'
<1> SUFFICES ASSUME CountersTypeOK, Totalled, SumState, NEW f \in Families
             PROVE  tcpv'[f][INDEX_TOTAL] = SumFunctionOnSet(tcpv'[f], Summed(f)')
  BY DEF Totalled
<1>1. /\ i \in States /\ i \in Indexes /\ i' = i + 1
      /\ pc = "sum" /\ pc' = pc /\ v' = v
      /\ tcpv' = [tcpv EXCEPT ![v][INDEX_TOTAL] = @ + tcpv[v][i]]
  BY TcpCountersAssumption
     DEF SumState, InRange, CountersTypeOK, States, Indexes
<1>2. tcpv[f][INDEX_TOTAL] = SumFunctionOnSet(tcpv[f], Summed(f))
  BY DEF Totalled
<1>3. CASE f # v
  <2>1. tcpv'[f] = tcpv[f]
    BY <1>1, <1>3 DEF CountersTypeOK
  <2>2. Summed(f)' = Summed(f)
    BY <1>1, <1>3 DEF Summed
  <2> QED
    BY <1>2, <2>1, <2>2
<1>4. CASE f = v
  <2>1. PICK fun, gun, S, x : fun = tcpv[f] /\ gun = tcpv'[f] /\ S = Summed(f)' /\ x = i
    OBVIOUS
  <2>2. S \in SUBSET States /\ x \in S /\ S \ {x} = Summed(f) /\ IsFiniteSet(S)
    <3>1. x \in States /\ x \in Nat /\ ~ (f < v) /\ States \subseteq Nat
      BY <1>1, <1>4, <2>1, StatesFinite DEF CountersTypeOK, Families
    <3>2. S = {s \in States : s < x + 1}
      BY <1>1, <1>4, <2>1, <3>1 DEF Summed
    <3>3. Summed(f) = {s \in States : s < x}
      BY <1>1, <1>4, <2>1, <3>1 DEF Summed
    <3>4. S \in SUBSET States /\ x \in S
      BY <3>1, <3>2
    <3>5. \A s \in States : s < x + 1 /\ s # x <=> s < x
      BY <3>1
    <3>6. S \ {x} = {s \in States : s < x}
      BY <3>2, <3>5
    <3> QED
      BY <3>3, <3>4, <3>6, StatesFinite
  <2>3. \A s \in S : fun[s] \in Nat /\ gun[s] = fun[s]
    BY <1>1, <1>4, <2>1, <2>2, SumOfStates, StatesFinite DEF CountersTypeOK, Counters
  <2>4. SumFunctionOnSet(gun, S) = SumFunctionOnSet(fun, S)
    BY <2>2, <2>3, SumOfSame
  <2>5. SumFunctionOnSet(fun, S) = fun[x] + SumFunctionOnSet(fun, S \ {x})
    BY <2>2, <2>3, SumOfOneMore
  <2>6. gun[INDEX_TOTAL] = fun[INDEX_TOTAL] + fun[x]
    BY <1>1, <1>4, <2>1, StatesFinite DEF CountersTypeOK, Counters
  <2>7. fun[x] \in Nat /\ fun[INDEX_TOTAL] \in Nat
    BY <2>1, <2>2, <2>3, StatesFinite DEF CountersTypeOK, Counters
  <2>8. fun[INDEX_TOTAL] = SumFunctionOnSet(fun, S \ {x})
    BY <1>2, <2>1, <2>2
  <2>9. gun[INDEX_TOTAL] = SumFunctionOnSet(gun, S)
    BY <2>4, <2>5, <2>6, <2>7, <2>8
  <2> QED
    BY <2>1, <2>9
<1> QED
  BY <1>3, <1>4

\* The end of _sum_counters: the loop has been through all states.
LEMMA SumTotalTotalled ==
    ASSUME NEW next \in {"open", "sum"}, CountersTypeOK, Totalled, SumTotal(next)
    PROVE  Totalled'
<1>1. /\ pc = "sum" /\ v' = 6 /\ tcpv' = tcpv /\ i' = TCP_STATE_FIRST
      /\ pc' = IF v = 4 THEN next ELSE "done"
      /\ v \in {4, 6}
  BY DEF SumTotal, CountersTypeOK, Families
<1>2. \A s \in States : s < i /\ ~ (s < i')
  BY <1>1, TcpCountersAssumption DEF SumTotal, InRange, CountersTypeOK, States
<1>3. \A f \in Families : Summed(f)' = Summed(f)
  BY <1>1, <1>2 DEF Summed, Families
<1> QED
  BY <1>1, <1>3 DEF Totalled

\* At the end each total is the sum of its counters.
LEMMA TotalsAtEnd ==
    ASSUME CountersTypeOK, Shared, Totalled, pc = "done"
    PROVE  /\ \A f \in Families :
                 tcpv[f][INDEX_TOTAL] = SumFunctionOnSet(tcpv[f], States)
           /\ tcp[INDEX_TOTAL] = SumFunctionOnSet(tcp, States)
           /\ tcp[INDEX_TOTAL] = tcpv[4][INDEX_TOTAL] + tcpv[6][INDEX_TOTAL]
<1>1. \A f \in Families : tcpv[f][INDEX_TOTAL] = SumFunctionOnSet(tcpv[f], States)
  BY DEF Totalled, Summed
<1>2. \A x \in Indexes : /\ tcpv[4][x] \in Nat /\ tcpv[6][x] \in Nat
                         /\ tcp[x] = tcpv[4][x] + tcpv[6][x]
  BY DEF Shared, Contribution, CountersTypeOK, Counters, Families
<1>3. SumFunctionOnSet(tcp, States) =
         SumFunctionOnSet(tcpv[4], States) + SumFunctionOnSet(tcpv[6], States)
  <2>1. PICK fun, gun, hun : fun = tcpv[4] /\ gun = tcpv[6] /\ hun = tcp
    OBVIOUS
  <2>2. \A x \in States :
            fun[x] \in Nat /\ gun[x] \in Nat /\ hun[x] = fun[x] + gun[x]
    BY <1>2, <2>1, StatesFinite
  <2>3. IsFiniteSet(States)
    BY StatesFinite
  <2>4. SumFunctionOnSet(hun, States)
        = SumFunctionOnSet(fun, States) + SumFunctionOnSet(gun, States)
    BY <2>2, <2>3, SumOfSums
  <2> QED
    BY <2>1, <2>4
<1> QED
  BY <1>1, <1>2, <1>3, StatesFinite DEF Families

LEMMA TotalsOfSockets ==
    ASSUME CountersTypeOK, Shared, Totalled,
           pc = "done" => \A f \in Families, s \in States : tcpv[f][s] = seen[f][s]
    PROVE  TotalsCountSockets
<1> SUFFICES ASSUME pc = "done", NEW f \in Families
             PROVE  tcpv[f][INDEX_TOTAL] = SumFunction(seen[f])
  BY DEF TotalsCountSockets
<1>1. tcpv[f][INDEX_TOTAL] = SumFunctionOnSet(tcpv[f], States)
  BY TotalsAtEnd
<1>2. \A s \in States : seen[f][s] \in Nat /\ tcpv[f][s] = seen[f][s]
  BY DEF CountersTypeOK
<1>3. SumFunctionOnSet(tcpv[f], States) = SumFunctionOnSet(seen[f], States)
  BY <1>2, StatesFinite, SumOfSame
<1>4. DOMAIN seen[f] = States
  BY DEF CountersTypeOK
<1> QED
  BY <1>1, <1>3, <1>4 DEF SumFunction

\* A sum over the cells of a dump.
Column(d, c, T) == MapThenSumSet(LAMBDA x : d.cells[x][c], T)

LEMMA SumOfColumn ==
    ASSUME NEW d, NEW c, NEW T, IsFiniteSet(T), \A x \in T : d.cells[x][c] \in Nat
    PROVE  Column(d, c, T) = SumFunctionOnSet([x \in T |-> d.cells[x][c]], T)
<1> DEFINE fun == [x \in T |-> d.cells[x][c]]
           next(g) == [s \in SUBSET T |->
                         IF s = {} THEN 0
                         ELSE d.cells[CHOOSE x \in s : TRUE][c]
                              + g[s \ {CHOOSE x \in s : TRUE}]]
<1>1. \A g : Added(fun, T, g) = next(g)
  <2> SUFFICES ASSUME NEW g, NEW s \in SUBSET T, s # {}
               PROVE  fun[CHOOSE x \in s : TRUE] = d.cells[CHOOSE x \in s : TRUE][c]
    BY DEF Added
  <2> QED
    OBVIOUS
<1>2. Column(d, c, T) = (CHOOSE g : g = Added(fun, T, g))[T]
  <2>1. Column(d, c, T) = (CHOOSE g : g = next(g))[T]
    BY DEF Column, MapThenSumSet, MapThenFoldSet
  <2> HIDE DEF fun, next
  <2>2. (CHOOSE g : g = next(g)) = (CHOOSE g : g = Added(fun, T, g))
    BY <1>1
  <2> QED
    BY <2>1, <2>2
<1> QED
  BY <1>2 DEF SumFunctionOnSet, FoldFunctionOnSet, MapThenFoldSet, Added

LEMMA DumpAtEnd ==
    ASSUME CountersTypeOK, Shared, Totalled
    PROVE  DumpSumsUp
<1> SUFFICES ASSUME pc = "done", NEW c \in 1 .. 3
             PROVE  ntcp_print.cells[ntcp_print.head][c]
                    = Column(ntcp_print, c, Indexes \ {ntcp_print.head})
  BY DEF DumpSumsUp, Column
<1>1. ntcp_print.head = INDEX_TOTAL /\ Indexes \ {INDEX_TOTAL} = States
  BY StatesFinite DEF ntcp_print, Indexes
<1>2. PICK fun : fun = <<tcp, tcpv[4], tcpv[6]>>[c]
  OBVIOUS
<1>3. fun \in Counters /\ fun[INDEX_TOTAL] = SumFunctionOnSet(fun, States)
  BY <1>2, TotalsAtEnd DEF CountersTypeOK, Families
<1>4. \A x \in Indexes : ntcp_print.cells[x][c] = fun[x]
  BY <1>2 DEF ntcp_print
<1>5. PICK d : d = ntcp_print
  OBVIOUS
<1>6. \A x \in States : d.cells[x][c] \in Nat /\ d.cells[x][c] = fun[x]
  BY <1>3, <1>4, <1>5, StatesFinite DEF Counters
<1>7. Column(d, c, States) = SumFunctionOnSet([x \in States |-> d.cells[x][c]], States)
  <2>1. IsFiniteSet(States) /\ \A x \in States : d.cells[x][c] \in Nat
    BY <1>6, StatesFinite
  <2> QED
    BY <2>1, SumOfColumn
<1>8. SumFunctionOnSet([x \in States |-> d.cells[x][c]], States)
      = SumFunctionOnSet(fun, States)
  <2>1. PICK gun : gun = [x \in States |-> d.cells[x][c]]
    OBVIOUS
  <2> QED
    BY <1>6, <2>1, StatesFinite, SumOfSame
<1> QED
  BY <1>1, <1>3, <1>4, <1>5, <1>7, <1>8, StatesFinite

\* The sockets of the families F in the states S, counted in c.
InStates(c, f, S) == MapThenSumSet(LAMBDA s : c[f][s], S)
InFamilies(c, F, S) == MapThenSumSet(LAMBDA f : InStates(c, f, S), F)

LEMMA SumOfFamilies ==
    ASSUME NEW c, NEW S, NEW F, IsFiniteSet(F), \A f \in F : InStates(c, f, S) \in Nat
    PROVE  InFamilies(c, F, S) = SumFunctionOnSet([f \in F |-> InStates(c, f, S)], F)
<1> DEFINE fun == [f \in F |-> InStates(c, f, S)]
<1>1. \A g : Added(fun, F, g) =
         [s \in SUBSET F |->
            IF s = {} THEN 0
            ELSE InStates(c, CHOOSE x \in s : TRUE, S) + g[s \ {CHOOSE x \in s : TRUE}]]
  <2> SUFFICES ASSUME NEW g, NEW s \in SUBSET F, s # {}
               PROVE  fun[CHOOSE x \in s : TRUE] = InStates(c, CHOOSE x \in s : TRUE, S)
    BY DEF Added
  <2> QED
    OBVIOUS
<1>2. InFamilies(c, F, S) = (CHOOSE g : g = Added(fun, F, g))[F]
  BY <1>1 DEF InFamilies, MapThenSumSet, MapThenFoldSet
<1> QED
  BY <1>2 DEF SumFunctionOnSet, FoldFunctionOnSet, MapThenFoldSet, Added

\* One family, and both.
LEMMA SumOfEach ==
    ASSUME NEW c, NEW S, \A f \in Families : InStates(c, f, S) \in Nat
    PROVE  /\ \A f \in Families : InFamilies(c, {f}, S) = InStates(c, f, S)
           /\ InFamilies(c, Families, S) = InStates(c, 4, S) + InStates(c, 6, S)
<1>1. \A f \in Families : IsFiniteSet({f})
  BY FS_Singleton
<1>2. IsFiniteSet({4, 6})
  BY <1>1, FS_AddElement DEF Families
<1>3. ASSUME NEW f \in Families
      PROVE  InFamilies(c, {f}, S) = InStates(c, f, S)
  <2>1. InFamilies(c, {f}, S) = SumFunctionOnSet([g \in {f} |-> InStates(c, g, S)], {f})
    BY <1>1, SumOfFamilies
  <2>2. PICK fun : fun = [g \in {f} |-> InStates(c, g, S)]
    OBVIOUS
  <2>3. IsFiniteSet({f}) /\ f \in {f} /\ \A g \in {f} : fun[g] \in Nat
    BY <1>1, <2>2
  <2>4. SumFunctionOnSet(fun, {f}) = fun[f] + SumFunctionOnSet(fun, {f} \ {f})
    BY <2>3, SumOfOneMore
  <2>5. {f} \ {f} = {} /\ SumFunctionOnSet(fun, {}) = 0
    BY SumOfNone
  <2> QED
    BY <2>1, <2>2, <2>3, <2>4, <2>5
<1>4. InFamilies(c, {4, 6}, S) = InStates(c, 4, S) + InStates(c, 6, S)
  <2> DEFINE two == {4, 6}
  <2>1. IsFiniteSet(two) /\ \A g \in two : InStates(c, g, S) \in Nat
    BY <1>2 DEF Families
  <2> HIDE DEF two
  <2>2. InFamilies(c, two, S) = SumFunctionOnSet([g \in two |-> InStates(c, g, S)], two)
    BY <2>1, SumOfFamilies
  <2>3. PICK fun : fun = [g \in two |-> InStates(c, g, S)]
    OBVIOUS
  <2>4. 4 \in two /\ two \ {4} = {6} /\ \A g \in two : fun[g] \in Nat
    BY <2>1, <2>3 DEF two
  <2>5. SumFunctionOnSet(fun, two) = fun[4] + SumFunctionOnSet(fun, {6})
    BY <2>1, <2>4, SumOfOneMore
  <2>6. IsFiniteSet({6}) /\ 6 \in {6} /\ \A g \in {6} : fun[g] \in Nat
    BY <1>1, <2>4 DEF two, Families
  <2>7. SumFunctionOnSet(fun, {6}) = fun[6] + SumFunctionOnSet(fun, {6} \ {6})
    BY <2>6, SumOfOneMore
  <2>8. {6} \ {6} = {} /\ SumFunctionOnSet(fun, {}) = 0
    BY SumOfNone
  <2>9. fun[6] \in Nat /\ fun[4] = InStates(c, 4, S) /\ fun[6] = InStates(c, 6, S)
    BY <2>3, <2>6, <2>4 DEF two
  <2>10. InFamilies(c, two, S) = SumFunctionOnSet(fun, two)
    BY <2>2, <2>3
  <2>11. SumFunctionOnSet(fun, {6}) = fun[6]
    BY <2>7, <2>8, <2>9
  <2> QED
    BY <2>5, <2>9, <2>10, <2>11 DEF two
<1> QED
  BY <1>3, <1>4 DEF Families

\* What the counters hold in the end, for one state and for all.
LEMMA CountersAtEnd ==
    ASSUME CountersTypeOK, Shared, Totalled, pc = "done",
           \A f \in Families, s \in States : tcpv[f][s] = seen[f][s]
    PROVE  /\ \A x \in States :
                 /\ tcp[x] = InFamilies(seen, Families, {x})
                 /\ \A f \in Families : tcpv[f][x] = InFamilies(seen, {f}, {x})
           /\ tcp[INDEX_TOTAL] = InFamilies(seen, Families, States)
           /\ \A f \in Families : tcpv[f][INDEX_TOTAL] = InFamilies(seen, {f}, States)
<1>1. \A f \in Families, s \in States : seen[f][s] \in Nat
  BY DEF CountersTypeOK
<1>2. \A f \in Families : \A S : InStates(seen, f, S) = SumFunctionOnSet(seen[f], S)
  BY DEF InStates, MapThenSumSet, SumFunctionOnSet, FoldFunctionOnSet
<1>3. ASSUME NEW f \in Families, NEW x \in States
      PROVE  InStates(seen, f, {x}) = seen[f][x]
  <2>1. PICK fun : fun = seen[f]
    OBVIOUS
  <2>2. IsFiniteSet({x}) /\ x \in {x} /\ \A y \in {x} : fun[y] \in Nat
    BY <1>1, <2>1, FS_Singleton
  <2>3. SumFunctionOnSet(fun, {x}) = fun[x] + SumFunctionOnSet(fun, {x} \ {x})
    BY <2>2, SumOfOneMore
  <2>4. {x} \ {x} = {} /\ SumFunctionOnSet(fun, {}) = 0
    BY SumOfNone
  <2> QED
    BY <1>2, <2>1, <2>2, <2>3, <2>4
<1>4. ASSUME NEW f \in Families
      PROVE  InStates(seen, f, States) = tcpv[f][INDEX_TOTAL]
  <2>1. PICK fun, gun : fun = seen[f] /\ gun = tcpv[f]
    OBVIOUS
  <2>2. \A x \in States : fun[x] \in Nat /\ gun[x] = fun[x]
    BY <1>1, <2>1
  <2>3. SumFunctionOnSet(gun, States) = SumFunctionOnSet(fun, States)
    BY <2>2, StatesFinite, SumOfSame
  <2> QED
    BY <1>2, <2>1, <2>3, TotalsAtEnd
<1>5. \A x \in Indexes : /\ tcpv[4][x] \in Nat /\ tcpv[6][x] \in Nat
                         /\ tcp[x] = tcpv[4][x] + tcpv[6][x]
  BY DEF Shared, Contribution, CountersTypeOK, Counters, Families
<1>6. ASSUME NEW x \in States
      PROVE  /\ tcp[x] = InFamilies(seen, Families, {x})
             /\ \A f \in Families : tcpv[f][x] = InFamilies(seen, {f}, {x})
  <2>1. PICK S : S = {x}
    OBVIOUS
  <2>2. \A f \in Families : InStates(seen, f, S) = tcpv[f][x] /\ tcpv[f][x] \in Nat
    BY <1>1, <1>3, <2>1
  <2>3. /\ \A f \in Families : InFamilies(seen, {f}, S) = InStates(seen, f, S)
        /\ InFamilies(seen, Families, S) = InStates(seen, 4, S) + InStates(seen, 6, S)
    BY <2>2, SumOfEach
  <2> QED
    BY <1>5, <2>1, <2>2, <2>3, StatesFinite DEF Families
<1>7. \A f \in Families : InStates(seen, f, States) \in Nat
  BY <1>4, <1>5, StatesFinite DEF Families
<1>8. /\ \A f \in Families : InFamilies(seen, {f}, States) = InStates(seen, f, States)
      /\ InFamilies(seen, Families, States)
         = InStates(seen, 4, States) + InStates(seen, 6, States)
  BY <1>7, SumOfEach
<1> QED
  BY <1>4, <1>5, <1>6, <1>8, StatesFinite DEF Families

-----------------------------------------------------------------------------
(***************************************************************************)
(* Linux.                                                                  *)
(***************************************************************************)

\* What is still zero: the counters of a family that has not been read yet.
Unfilled ==
    \A f \in Families :
        f > v \/ (f = v /\ pc \in {"open", "read"}) => tcpv[f] = Zero

\* done is reached from the last family only.
LinuxOrdered == pc = "done" => v = 6

\* The counters of the states are the sockets that were read.
Copied == \A f \in Families, s \in States : tcpv[f][s] = seen[f][s]

\* Which files were read, as far as _init_tcp_stats has come.
Opened ==
    /\ v = 6 => 4 \in opened
    /\ pc = "sum" => v \in opened
    /\ pc = "done" /\ exists6 /\ lowest # 0 => opened = Families

LinuxInv == LinuxTypeOK /\ LinuxOrdered /\ Unfilled /\ Shared /\ Totalled /\ Copied /\ Opened

LEMMA InitLinuxInv == LinuxInit => LinuxInv
<1> SUFFICES ASSUME LinuxInit
             PROVE  LinuxInv
  OBVIOUS
<1>1. LinuxTypeOK
  BY InitCountersType DEF LinuxInit, LinuxTypeOK
<1>2. LinuxOrdered /\ Unfilled
  BY DEF LinuxInit, InitCounters, LinuxOrdered, Unfilled, Families
<1>3. Shared
  BY ZeroCounters DEF LinuxInit, InitCounters, Shared, Contribution, Families
<1>4. Totalled
  <2>1. \A f \in Families : Summed(f) = {} /\ tcpv[f] = Zero
    BY DEF LinuxInit, InitCounters, Summed, Families
  <2> QED
    BY <2>1, ZeroCounters, StatesFinite, SumOfNone DEF Totalled
<1>5. Copied
  BY ZeroCounters, StatesFinite DEF LinuxInit, InitCounters, Copied, NoSockets
<1>6. Opened
  BY DEF LinuxInit, InitCounters, Opened
<1> QED
  BY <1>1, <1>2, <1>3, <1>4, <1>5, <1>6 DEF LinuxInv

LEMMA LinuxTypeOKStep == LinuxTypeOK /\ LinuxNext => LinuxTypeOK'
<1> SUFFICES ASSUME LinuxTypeOK, LinuxNext
             PROVE  LinuxTypeOK'
  OBVIOUS
<1> USE DEF LinuxTypeOK
<1>1. CASE NoProcNetTcp
  BY <1>1 DEF NoProcNetTcp, CountersTypeOK, counters
<1>2. CASE OpenTcp
  BY <1>2, ZeroCounters DEF OpenTcp, CountersTypeOK
<1>3. CASE OpenTcp6
  BY <1>3 DEF OpenTcp6, CountersTypeOK, counters
<1>4. CASE ProcessProcTcp
  <2>1. PICK got \in [States -> 0 .. MaxSockets] :
            /\ seen' = [seen EXCEPT ![v] = got]
            /\ tcpv' = [tcpv EXCEPT ![v] = [x \in Indexes |->
                          IF x \in States THEN @[x] + got[x] ELSE @[x]]]
    BY <1>4 DEF ProcessProcTcp
  <2>2. [x \in Indexes |-> IF x \in States THEN tcpv[v][x] + got[x]
                                           ELSE tcpv[v][x]] \in Counters
    BY TcpCountersAssumption DEF Counters, CountersTypeOK
  <2>3. tcpv' \in [Families -> Counters]
    BY <2>1, <2>2 DEF CountersTypeOK
  <2>4. got \in [States -> Nat]
    BY TcpCountersAssumption
  <2> QED
    BY <1>4, <2>1, <2>3, <2>4, TcpCountersAssumption
       DEF ProcessProcTcp, CountersTypeOK
<1>5. CASE LinuxSum /\ SumState
  BY <1>5, SumStateType DEF LinuxSum, SumState, files
<1>6. CASE LinuxSum /\ SumTotal("open")
  <2>1. CountersTypeOK'
    BY <1>6, SumTotalType
  <2> QED
    BY <1>6, <2>1 DEF LinuxSum, SumTotal, files
<1>7. CASE LinuxReturned
  BY <1>7 DEF LinuxReturned, linux_vars, counters, files, CountersTypeOK
<1> QED
  BY <1>1, <1>2, <1>3, <1>4, <1>5, <1>6, <1>7 DEF LinuxNext, LinuxStep, LinuxSum

LEMMA UnfilledStep ==
    LinuxTypeOK /\ LinuxOrdered /\ Unfilled /\ LinuxNext => LinuxOrdered' /\ Unfilled'
<1> SUFFICES ASSUME LinuxTypeOK, LinuxOrdered, Unfilled, LinuxNext
             PROVE  LinuxOrdered' /\ Unfilled'
  OBVIOUS
<1> USE DEF LinuxTypeOK, CountersTypeOK, LinuxOrdered, Unfilled, Families
<1>1. CASE NoProcNetTcp
  BY <1>1 DEF NoProcNetTcp, counters
<1>2. CASE OpenTcp
  BY <1>2 DEF OpenTcp
<1>3. CASE OpenTcp6
  BY <1>3 DEF OpenTcp6, counters
<1>4. CASE ProcessProcTcp
  BY <1>4 DEF ProcessProcTcp
<1>5. CASE SumState
  BY <1>5 DEF SumState
<1>6. CASE SumTotal("open")
  BY <1>6 DEF SumTotal
<1>7. CASE LinuxReturned
  BY <1>7 DEF LinuxReturned, linux_vars, counters
<1> QED
  BY <1>1, <1>2, <1>3, <1>4, <1>5, <1>6, <1>7 DEF LinuxNext, LinuxStep, LinuxSum

LEMMA SharedStep == LinuxInv /\ LinuxNext => Shared'
<1> SUFFICES ASSUME LinuxInv, LinuxNext
             PROVE  Shared'
  OBVIOUS
<1>0. CountersTypeOK /\ Shared
  BY DEF LinuxInv, LinuxTypeOK
<1>5. CASE SumState
  BY <1>0, <1>5, SumStateShared
<1>6. CASE SumTotal("open")
  BY <1>0, <1>6, SumTotalShared
<1>8. ASSUME NEW x \in Indexes, ~ SumState, ~ SumTotal("open")
      PROVE  tcp'[x] = Contribution(4, x)' + Contribution(6, x)'
  <2> USE DEF Contribution
  <2>0. /\ tcp[x] = Contribution(4, x) + Contribution(6, x)
        /\ tcp[x] \in Nat /\ tcpv[4][x] \in Nat /\ tcpv[6][x] \in Nat
        /\ v = 4 \/ v = 6
    BY <1>0, IndexFacts
  <2>1. CASE NoProcNetTcp
    BY <2>0, <2>1 DEF NoProcNetTcp, counters
  <2>2. CASE OpenTcp
    BY <2>0, <2>2, ZeroCounters DEF OpenTcp
  <2>3. CASE OpenTcp6
    <3>1. tcpv[6][x] = 0
      BY <2>3, ZeroCounters DEF OpenTcp6, LinuxInv, Unfilled, Families
    <3> QED
      BY <2>0, <2>3, <3>1 DEF OpenTcp6, counters
  <2>4. CASE ProcessProcTcp
    <3>1. \A f \in Families : f # v => tcpv'[f] = tcpv[f]
      BY <2>4 DEF ProcessProcTcp, LinuxInv, LinuxTypeOK, CountersTypeOK
    <3>2. i' = TCP_STATE_FIRST /\ pc = "read" /\ pc' = "sum"
          /\ v' = v /\ tcp' = tcp
      BY <2>4 DEF ProcessProcTcp
    <3>3. x \in States => ~ (x < i')
      BY <3>2, TcpCountersAssumption DEF States
    <3> QED
      BY <2>0, <3>1, <3>2, <3>3 DEF Families
  <2>5. CASE LinuxReturned
    BY <2>0, <2>5 DEF LinuxReturned, linux_vars, counters
  <2> QED
    BY <1>8, <2>1, <2>2, <2>3, <2>4, <2>5 DEF LinuxNext, LinuxStep, LinuxSum
<1> QED
  BY <1>5, <1>6, <1>8 DEF Shared

LEMMA TotalledStep == LinuxInv /\ LinuxNext => Totalled'
<1> SUFFICES ASSUME LinuxInv, LinuxNext
             PROVE  Totalled'
  OBVIOUS
<1>0. CountersTypeOK /\ Totalled /\ Unfilled /\ v \in {4, 6}
  BY DEF LinuxInv, LinuxTypeOK, CountersTypeOK, Families
<1>1. CASE SumState
  BY <1>0, <1>1, SumStateTotalled
<1>2. CASE SumTotal("open")
  BY <1>0, <1>2, SumTotalTotalled
<1>3. CASE NoProcNetTcp
  <2>1. tcpv' = tcpv /\ \A f \in Families : Summed(f)' = Summed(f)
    BY <1>3 DEF NoProcNetTcp, counters, Summed
  <2> QED
    BY <1>0, <2>1 DEF Totalled
<1>4. CASE OpenTcp
  <2>1. \A f \in Families : tcpv'[f] = Zero /\ Summed(f)' = {}
    BY <1>4 DEF OpenTcp, Summed, Families
  <2> QED
    BY <2>1, ZeroCounters, StatesFinite, SumOfNone DEF Totalled
<1>5. CASE OpenTcp6
  <2>1. /\ pc = "open" /\ v = 6 /\ v' = 6 /\ tcpv' = tcpv
        /\ pc' \in {"read", "done"} /\ tcpv[6] = Zero
    BY <1>0, <1>5 DEF OpenTcp6, counters, Unfilled, Families
  <2>2. Summed(4)' = Summed(4) /\ Summed(6)' \in SUBSET States
    BY <2>1 DEF Summed
  <2>3. IsFiniteSet(Summed(6)') /\ \A x \in Summed(6)' : Zero[x] = 0
    BY <2>2, ZeroCounters, StatesFinite
  <2>4. SumFunctionOnSet(Zero, Summed(6)') = 0
    BY <2>3, SumOfZeros
  <2>5. tcpv'[6][INDEX_TOTAL] = 0
    BY <2>1, ZeroCounters, StatesFinite
  <2> QED
    BY <1>0, <2>1, <2>2, <2>4, <2>5 DEF Totalled, Families
<1>6. CASE ProcessProcTcp
  <2>1. /\ pc = "read" /\ pc' = "sum" /\ v' = v /\ i' = TCP_STATE_FIRST
        /\ \A f \in Families : f # v => tcpv'[f] = tcpv[f]
        /\ tcpv[v] = Zero
    BY <1>0, <1>6 DEF ProcessProcTcp, CountersTypeOK, Unfilled, Families
  <2>2. tcpv'[v][INDEX_TOTAL] = tcpv[v][INDEX_TOTAL]
    BY <1>0, <1>6, StatesFinite DEF ProcessProcTcp, CountersTypeOK
  <2>3. Summed(v)' = {}
    <3>1. \A s \in States : ~ (s < i')
      BY <2>1, TcpCountersAssumption DEF States
    <3> QED
      BY <1>0, <2>1, <3>1 DEF Summed
  <2>4. \A f \in Families : f # v => Summed(f)' = Summed(f)
    BY <2>1 DEF Summed
  <2> QED
    BY <1>0, <2>1, <2>2, <2>3, <2>4, ZeroCounters, StatesFinite, SumOfNone DEF Totalled
<1>7. CASE LinuxReturned
  BY <1>0, <1>7 DEF LinuxReturned, linux_vars, counters, Totalled, Summed
<1> QED
  BY <1>1, <1>2, <1>3, <1>4, <1>5, <1>6, <1>7 DEF LinuxNext, LinuxStep, LinuxSum

LEMMA CopiedStep == LinuxInv /\ LinuxNext => Copied' /\ Opened'
<1> SUFFICES ASSUME LinuxInv, LinuxNext
             PROVE  Copied' /\ Opened'
  OBVIOUS
<1>0. /\ CountersTypeOK /\ Unfilled /\ v \in {4, 6} /\ v \in Families
      /\ Copied /\ Opened /\ LinuxOrdered
      /\ fd \in {-1, 0, 3} /\ lowest \in {0, 3}
  BY DEF LinuxInv, LinuxTypeOK, CountersTypeOK, Families
<1>1. CASE SumState
  <2>1. \A f \in Families, s \in States : tcpv'[f][s] = tcpv[f][s]
    BY <1>0, <1>1, StatesFinite DEF SumState, CountersTypeOK, Counters
  <2>2. UNCHANGED <<seen, v, pc, opened, exists6, lowest>>
    BY <1>1 DEF SumState, LinuxNext, LinuxStep, NoProcNetTcp, OpenTcp, OpenTcp6, ProcessProcTcp,
                LinuxSum, files, LinuxReturned, linux_vars
  <2> QED
    BY <1>0, <2>1, <2>2 DEF Copied, Opened
<1>2. CASE SumTotal("open")
  <2>1. UNCHANGED <<tcpv, seen, opened, exists6, lowest>> /\ v' = 6
    BY <1>2 DEF SumTotal, LinuxNext, LinuxStep, NoProcNetTcp, OpenTcp, OpenTcp6, ProcessProcTcp,
                LinuxSum, files, LinuxReturned, linux_vars
  <2>2. pc = "sum" /\ pc' = (IF v = 4 THEN "open" ELSE "done")
    BY <1>2 DEF SumTotal
  <2>3. opened \subseteq Families
    BY DEF LinuxInv, LinuxTypeOK
  <2>4. Copied'
    BY <1>0, <2>1 DEF Copied
  <2>5. v = 6 => opened = Families
    BY <1>0, <2>2, <2>3 DEF Opened, Families
  <2>6. 4 \in opened
    BY <1>0, <2>2 DEF Opened
  <2>7. Opened'
    BY <1>0, <2>1, <2>2, <2>5, <2>6 DEF Opened
  <2> QED
    BY <2>4, <2>7
<1>3. CASE NoProcNetTcp
  BY <1>0, <1>3 DEF NoProcNetTcp, counters, Copied, Opened
<1>4. CASE OpenTcp
  <2>1. \A f \in Families : tcpv[f] = Zero /\ tcpv'[f] = Zero
    BY <1>0, <1>4 DEF OpenTcp, Unfilled, Families
  <2> QED
    BY <1>0, <1>4, <2>1 DEF OpenTcp, Copied, Opened
<1>5. CASE OpenTcp6
  BY <1>0, <1>5 DEF OpenTcp6, counters, Copied, Opened
<1>6. CASE ProcessProcTcp
  <2>1. PICK got \in [States -> 0 .. MaxSockets] :
            /\ seen' = [seen EXCEPT ![v] = got]
            /\ tcpv' = [tcpv EXCEPT ![v] = [x \in Indexes |->
                          IF x \in States THEN @[x] + got[x] ELSE @[x]]]
    BY <1>6 DEF ProcessProcTcp
  <2>2. tcpv[v] = Zero
    BY <1>0, <1>6 DEF ProcessProcTcp, Unfilled
  <2>3. \A s \in States : tcpv'[v][s] = got[s] /\ seen'[v] = got
    BY <1>0, <2>1, <2>2, ZeroCounters, StatesFinite, TcpCountersAssumption
       DEF CountersTypeOK
  <2>4. \A f \in Families : f # v => tcpv'[f] = tcpv[f] /\ seen'[f] = seen[f]
    BY <1>0, <2>1 DEF CountersTypeOK
  <2>5. Copied'
    BY <1>0, <2>3, <2>4 DEF Copied
  <2>6. Opened'
    BY <1>0, <1>6 DEF ProcessProcTcp, Opened
  <2> QED
    BY <2>5, <2>6
<1>7. CASE LinuxReturned
  BY <1>0, <1>7 DEF LinuxReturned, linux_vars, counters, files, Copied, Opened
<1> QED
  BY <1>1, <1>2, <1>3, <1>4, <1>5, <1>6, <1>7 DEF LinuxNext, LinuxStep, LinuxSum

LEMMA LinuxInvStep == LinuxInv /\ [LinuxNext]_linux_vars => LinuxInv'
<1>1. CASE LinuxNext
  BY <1>1, LinuxTypeOKStep, UnfilledStep, SharedStep, TotalledStep, CopiedStep DEF LinuxInv
<1>2. CASE UNCHANGED linux_vars
  BY <1>2 DEF linux_vars, counters, files, LinuxInv, LinuxTypeOK, CountersTypeOK, LinuxOrdered,
              Unfilled, Shared, Contribution, Totalled, Summed, Copied, Opened
<1> QED
  BY <1>1, <1>2

\* The counters keep their type in every step (ustat_tcp_linux.c:125-156).
THEOREM TcpTypeCorrect == LinuxSpec => []LinuxTypeOK
<1>1. LinuxInv => LinuxTypeOK
  BY DEF LinuxInv
<1> QED
  BY <1>1, InitLinuxInv, LinuxInvStep, PTL DEF LinuxSpec

\* When init is through, every counter of both families, the total included,
\* is the sum of the counters of the two families.
THEOREM CountersAgree == LinuxSpec => []FamiliesAddUp
<1>1. LinuxInv => FamiliesAddUp
  BY DEF LinuxInv, FamiliesAddUp, Shared, Contribution
<1> QED
  BY <1>1, InitLinuxInv, LinuxInvStep, PTL DEF LinuxSpec

\* When init is through, the total of each family is the number of sockets its
\* file had, whatever their states; a family without a file has none.
THEOREM TotalsAreSockets == LinuxSpec => []TotalsCountSockets
<1>1. LinuxInv => TotalsCountSockets
  BY TotalsOfSockets DEF LinuxInv, LinuxTypeOK, Copied
<1> QED
  BY <1>1, InitLinuxInv, LinuxInvStep, PTL DEF LinuxSpec

\* tcpdump adds up: each total it shows is the sum of the other numbers.
THEOREM DumpAddsUp == LinuxSpec => []DumpSumsUp
<1>1. LinuxInv => DumpSumsUp
  BY DumpAtEnd DEF LinuxInv, LinuxTypeOK
<1> QED
  BY <1>1, InitLinuxInv, LinuxInvStep, PTL DEF LinuxSpec

-----------------------------------------------------------------------------
(***************************************************************************)
(* BSD.                                                                    *)
(***************************************************************************)

\* Nothing is walked before the list is there, nothing summed before the walk
\* is over.
Early ==
    /\ pc = "size" => room = -1
    /\ pc \in {"size", "fetch"} => pos = 0 /\ rc = 0
    /\ pc \notin {"sum", "done"} => v = 4 /\ i = TCP_STATE_FIRST

PcbOrdered == pc = "done" => v = 6

\* rc tells whether a record was counted.
CountedAny == rc = 0 => pos = 0

\* The records passed that are counted as family f, and those of state s.
PassedOf(f) == {k \in 1 .. pos : f \in Family(buf[k])}
PassedAs(f, s) == {k \in PassedOf(f) : buf[k].state = s}

\* The walk counts what it passes, and it is through when the sums begin.
Walked ==
    /\ pc = "walk" => seen = Census(buf)
    /\ \A f \in Families, s \in States : tcpv[f][s] = Cardinality(PassedAs(f, s))
    /\ pc \in {"sum", "done"} =>
          /\ pos = Len(buf)
          /\ \A f \in Families, s \in States : tcpv[f][s] = seen[f][s]
    /\ abi = "xtcpcb" => rc = 0

\* Each socket passed is in one counter of its family.
OnceEach ==
    \A f \in Families : SumFunctionOnSet(tcpv[f], States) = Cardinality(PassedOf(f))

PcbInv == /\ TypeOK /\ Early /\ PcbOrdered /\ Shared /\ CountedAny /\ FailsForAReason
        /\ Totalled /\ Walked /\ OnceEach

LEMMA CensusType ==
    ASSUME NEW records \in Seq(Socket)
    PROVE  Census(records) \in [Families -> [States -> Nat]]
<1> SUFFICES ASSUME NEW f \in Families, NEW s \in States
             PROVE  Cardinality({k \in DOMAIN records :
                        f \in Family(records[k]) /\ records[k].state = s}) \in Nat
  BY DEF Census
<1>1. IsFiniteSet(DOMAIN records)
  BY FS_Interval
<1> QED
  BY <1>1, FS_Subset, FS_CardinalityType

LEMMA InitPcbInv == Init => PcbInv
<1> SUFFICES ASSUME Init
             PROVE  PcbInv
  OBVIOUS
<1>1. CountersTypeOK
  BY InitCountersType DEF Init
<1>2. list \in Seq(Socket)
  BY TcpCountersAssumption DEF Init
<1>3. TypeOK
  BY <1>1, <1>2 DEF Init, TypeOK
<1>4. Shared
  BY ZeroCounters DEF Init, InitCounters, Shared, Contribution, Families
<1>5. \A f \in Families : tcpv[f] = Zero /\ Summed(f) = {}
  BY DEF Init, InitCounters, Summed, Families
<1>6. Totalled
  BY <1>5, ZeroCounters, StatesFinite, SumOfNone DEF Totalled
<1>7. pos = 0 /\ \A f \in Families : PassedOf(f) = {} /\ \A s \in States : PassedAs(f, s) = {}
  BY DEF Init, PassedOf, PassedAs
<1>8. Walked
  BY <1>5, <1>7, ZeroCounters, StatesFinite, FS_EmptySet DEF Init, Walked
<1>9. OnceEach
  <2>1. IsFiniteSet(States) /\ \A x \in States : Zero[x] = 0
    BY ZeroCounters, StatesFinite
  <2>2. SumFunctionOnSet(Zero, States) = 0
    BY <2>1, SumOfZeros
  <2> QED
    BY <1>5, <1>7, <2>2, FS_EmptySet DEF OnceEach, Families
<1> QED
  BY <1>3, <1>4, <1>6, <1>8, <1>9
     DEF PcbInv, Init, InitCounters, Early, PcbOrdered, CountedAny, FailsForAReason

\* The changes of the list keep its type.
LEMMA ChangeType == TypeOK /\ Change => TypeOK'
<1> SUFFICES ASSUME TypeOK, Change
             PROVE  TypeOK'
  OBVIOUS
<1> USE DEF TypeOK
<1>1. list' \in Seq(Socket)
  <2>1. ASSUME NEW s \in Socket, list' = Append(list, s)
        PROVE  list' \in Seq(Socket)
    BY <2>1
  <2>2. ASSUME NEW k \in DOMAIN list, list' = RemoveAt(list, k)
        PROVE  list' \in Seq(Socket)
    BY <2>2 DEF RemoveAt
  <2>3. ASSUME NEW k \in DOMAIN list, NEW s \in States,
               list' = [list EXCEPT ![k].state = s]
        PROVE  list' \in Seq(Socket)
    <3>1. list[k] \in Socket
      OBVIOUS
    <3>2. [list[k] EXCEPT !.state = s] \in Socket
      BY <3>1 DEF Socket
    <3>3. list' = [list EXCEPT ![k] = [list[k] EXCEPT !.state = s]]
      BY <2>3
    <3> QED
      BY <3>2, <3>3
  <2> QED
    BY <2>1, <2>2, <2>3 DEF Change
<1> QED
  BY <1>1 DEF Change, counters, walk, CountersTypeOK

LEMMA PcbTypeOKStep == TypeOK /\ Early /\ Next => TypeOK'
<1> SUFFICES ASSUME TypeOK, Early, Next
             PROVE  TypeOK'
  OBVIOUS
<1> USE DEF TypeOK
<1>1. CASE Change
  BY <1>1, ChangeType
<1>2. CASE AskSize
  BY <1>2, TcpPcbAssumption DEF AskSize, counters, kernel, CountersTypeOK
<1>3. CASE Fetch
  <2>1. seen' \in [Families -> [States -> Nat]]
    BY <1>3, CensusType DEF Fetch
  <2> QED
    BY <1>3, <2>1 DEF Fetch, kernel, CountersTypeOK, Early
<1>4. CASE FetchFails
  BY <1>4 DEF FetchFails, counters, kernel, walk, CountersTypeOK
<1>5. CASE CountRecord
  <2>1. buf[pos + 1] \in Socket
    BY <1>5 DEF CountRecord
  <2>2. buf[pos + 1].state \in Indexes
    BY <2>1 DEF Socket, Indexes
  <2>3. tcpv' \in [Families -> Counters]
    BY <1>5, <2>2 DEF CountRecord, Record, CountersTypeOK, Counters
  <2> QED
    BY <1>5, <2>3 DEF CountRecord, kernel, CountersTypeOK
<1>6. CASE LeaveLoop
  BY <1>6 DEF LeaveLoop, counters, kernel, walk, CountersTypeOK
<1>7. CASE Sum /\ SumState
  BY <1>7, SumStateType DEF Sum, SumState, kernel, walk
<1>8. CASE Sum /\ SumTotal("sum")
  <2>1. CountersTypeOK'
    BY <1>8, SumTotalType
  <2> QED
    BY <1>8, <2>1 DEF Sum, SumTotal, kernel, walk
<1>9. CASE Returned
  BY <1>9 DEF Returned, vars, counters, kernel, walk, CountersTypeOK
<1> QED
  BY <1>1, <1>2, <1>3, <1>4, <1>5, <1>6, <1>7, <1>8, <1>9 DEF Next, Sum

\* All but the types, in a step that is not one of _sum_counters.
LEMMA OtherStep ==
    ASSUME PcbInv, Next, ~ SumState, ~ SumTotal("sum")
    PROVE  Early' /\ PcbOrdered' /\ Shared' /\ CountedAny' /\ FailsForAReason'
<1> USE DEF PcbInv, TypeOK, Early, PcbOrdered, CountedAny, FailsForAReason
<1>1. ASSUME pc \notin {"sum", "done"}, pc' # "done",
             UNCHANGED <<v, i, tcp>>
      PROVE  Shared'
  <2> SUFFICES ASSUME NEW x \in Indexes
               PROVE  tcp'[x] = Contribution(4, x)' + Contribution(6, x)'
    BY DEF Shared
  <2>1. tcp[x] = 0
    BY <1>1, IndexFacts DEF Contribution
  <2>2. x \in States => ~ (x < i)
    BY <1>1, TcpCountersAssumption DEF States
  <2> QED
    BY <1>1, <2>1, <2>2 DEF Contribution
<1>2. CASE Change
  BY <1>1, <1>2 DEF Change, counters, walk
<1>3. CASE AskSize
  BY <1>1, <1>3 DEF AskSize, counters, kernel
<1>4. CASE Fetch
  BY <1>1, <1>4 DEF Fetch, kernel
<1>5. CASE FetchFails
  BY <1>1, <1>5 DEF FetchFails, counters, kernel, walk
<1>6. CASE CountRecord
  BY <1>1, <1>6 DEF CountRecord, kernel
<1>7. CASE LeaveLoop
  <2>1. rc # 1 /\ abi = "same" => buf = << >>
    BY <1>7 DEF LeaveLoop
  <2> QED
    BY <1>1, <1>7, <2>1 DEF LeaveLoop, counters, kernel, walk
<1>8. CASE Returned
  BY <1>8 DEF Returned, vars, counters, kernel, walk, Shared, Contribution
<1> QED
  BY <1>2, <1>3, <1>4, <1>5, <1>6, <1>7, <1>8 DEF Next, Sum

\* The sets of records are finite, and one record more is one more of them.
LEMMA PassedOneMore ==
    ASSUME NEW S, NEW n \in Nat, S \subseteq 1 .. n
    PROVE  /\ IsFiniteSet(S) /\ Cardinality(S) \in Nat
           /\ Cardinality(S \cup {n + 1}) = Cardinality(S) + 1
<1>1. IsFiniteSet(1 .. n)
  BY FS_Interval
<1>2. IsFiniteSet(S)
  BY <1>1, FS_Subset
<1>3. n + 1 \notin S
  OBVIOUS
<1>4. Cardinality(S) \in Nat
  BY <1>2, FS_CardinalityType
<1>5. PICK e : e = n + 1
  OBVIOUS
<1> QED
  BY <1>2, <1>3, <1>4, <1>5, FS_AddElement

\* One record is one more in one counter of one family, or in none.
LEMMA RecordCounts ==
    ASSUME PcbInv, CountRecord
    PROVE  /\ \A f \in Families, s \in States :
                 tcpv'[f][s] = Cardinality(PassedAs(f, s)')
           /\ \A f \in Families : tcpv'[f][INDEX_TOTAL] = tcpv[f][INDEX_TOTAL]
           /\ OnceEach'
<1> DEFINE r == buf[pos + 1]
           n == pos
<1>1. /\ r.flags \subseteq {4, 6} /\ r.state \in States
      /\ n \in Nat /\ pos' = n + 1 /\ buf' = buf /\ pc = "walk"
      /\ \A k \in 1 .. n + 1 : k \in 1 .. n \/ k = n + 1
      /\ \A k \in 1 .. n : k \in 1 .. n + 1
      /\ n + 1 \in 1 .. n + 1
  <2>1. /\ pos \in 0 .. Len(buf) /\ buf \in Seq(Socket)
        /\ pos < Len(buf) /\ pos' = pos + 1 /\ pc = "walk" /\ buf' = buf
    BY DEF CountRecord, PcbInv, TypeOK
  <2>2. pos \in Nat /\ pos + 1 \in 1 .. Len(buf)
    BY <2>1
  <2>3. r \in Socket
    BY <2>1, <2>2
  <2>4. r.flags \subseteq {4, 6} /\ r.state \in States
    BY <2>3 DEF Socket, Families
  <2> QED
    BY <2>1, <2>2, <2>4
<1>2. /\ tcpv \in [Families -> Counters]
      /\ tcpv' = [f \in Families |->
                     IF f \in Family(r) THEN [tcpv[f] EXCEPT ![r.state] = @ + 1]
                                       ELSE tcpv[f]]
  BY DEF CountRecord, Record, PcbInv, TypeOK, CountersTypeOK
<1>3. \A f \in Families, x \in Indexes :
         /\ tcpv[f][x] \in Nat
         /\ tcpv'[f][x] = IF f \in Family(r) /\ x = r.state THEN tcpv[f][x] + 1
                                                          ELSE tcpv[f][x]
  BY <1>1, <1>2, StatesFinite DEF Counters
<1>4. ASSUME NEW f \in Families, NEW s \in States
      PROVE  tcpv'[f][s] = Cardinality(PassedAs(f, s)')
  <2>1. tcpv[f][s] = Cardinality(PassedAs(f, s)) /\ s \in Indexes
    BY <1>1, StatesFinite DEF PcbInv, Walked
  <2>2. CASE f \in Family(r) /\ s = r.state
    <3>1. PassedAs(f, s)' = PassedAs(f, s) \cup {n + 1}
      BY <1>1, <2>2 DEF PassedAs, PassedOf
    <3>2. Cardinality(PassedAs(f, s) \cup {n + 1}) = Cardinality(PassedAs(f, s)) + 1
      <4>1. PassedAs(f, s) \subseteq 1 .. n
        BY DEF PassedAs, PassedOf
      <4> QED
        BY <1>1, <4>1, PassedOneMore
    <3> QED
      BY <1>3, <2>1, <2>2, <3>1, <3>2
  <2>3. CASE ~ (f \in Family(r) /\ s = r.state)
    <3>1. PassedAs(f, s)' = PassedAs(f, s)
      BY <1>1, <2>3 DEF PassedAs, PassedOf
    <3> QED
      BY <1>3, <2>1, <2>3, <3>1
  <2> QED
    BY <2>2, <2>3
<1>5. \A f \in Families : tcpv'[f][INDEX_TOTAL] = tcpv[f][INDEX_TOTAL]
  BY <1>1, <1>3, StatesFinite
<1>6. ASSUME NEW f \in Families
      PROVE  SumFunctionOnSet(tcpv'[f], States) = Cardinality(PassedOf(f)')
  <2>1. PICK fun, gun : fun = tcpv[f] /\ gun = tcpv'[f]
    OBVIOUS
  <2>2. /\ IsFiniteSet(States)
        /\ \A y \in States : fun[y] \in Nat
        /\ SumFunctionOnSet(fun, States) = Cardinality(PassedOf(f))
    BY <1>3, <2>1, StatesFinite DEF PcbInv, OnceEach
  <2>3. CASE f \notin Family(r)
    <3>1. PassedOf(f)' = PassedOf(f)
      BY <1>1, <2>3 DEF PassedOf
    <3>2. gun = fun
      BY <1>2, <2>1, <2>3
    <3> QED
      BY <2>1, <2>2, <3>1, <3>2
  <2>4. CASE f \in Family(r)
    <3>1. PassedOf(f)' = PassedOf(f) \cup {n + 1}
      BY <1>1, <2>4 DEF PassedOf
    <3>2. Cardinality(PassedOf(f) \cup {n + 1}) = Cardinality(PassedOf(f)) + 1
      <4>1. PassedOf(f) \subseteq 1 .. n
        BY DEF PassedOf
      <4> QED
        BY <1>1, <4>1, PassedOneMore
    <3>3. \A y \in States : gun[y] = IF y = r.state THEN fun[y] + 1 ELSE fun[y]
      BY <1>3, <2>1, <2>4, StatesFinite
    <3>4. PICK x \in States : x = r.state
      BY <1>1
    <3>5. SumFunctionOnSet(gun, States) = SumFunctionOnSet(fun, States) + 1
      BY <2>2, <3>3, <3>4, SumRaised
    <3> QED
      BY <2>1, <2>2, <3>1, <3>2, <3>5
  <2> QED
    BY <2>3, <2>4
<1> QED
  BY <1>4, <1>5, <1>6 DEF OnceEach

LEMMA WalkStep == PcbInv /\ Next => Totalled' /\ Walked' /\ OnceEach'
<1> SUFFICES ASSUME PcbInv, Next
             PROVE  Totalled' /\ Walked' /\ OnceEach'
  OBVIOUS
<1>0. /\ CountersTypeOK /\ Totalled /\ Walked /\ OnceEach /\ Early
      /\ pos \in 0 .. Len(buf) /\ rc \in {0, 1} /\ buf \in Seq(Socket)
  BY DEF PcbInv, TypeOK
<1>a. ASSUME pc' # pc => pc' \notin {"sum", "done"} /\ pc \notin {"sum", "done"},
             UNCHANGED <<v, i, tcpv>>
      PROVE  Totalled'
  <2>1. \A f \in Families : Summed(f)' = Summed(f)
    BY <1>a DEF Summed
  <2> QED
    BY <1>0, <1>a, <2>1 DEF Totalled
<1>b. ASSUME UNCHANGED <<tcpv, buf, pos>> PROVE OnceEach'
  BY <1>0, <1>b DEF OnceEach, PassedOf
<1>1. CASE Change \/ Returned
  <2>1. UNCHANGED <<pc, counters, walk, abi>>
    BY <1>1 DEF Change, Returned, vars, kernel
  <2> QED
    BY <1>0, <1>a, <1>b, <2>1 DEF counters, walk, Walked, PassedAs, PassedOf
<1>2. CASE AskSize \/ FetchFails
  <2>1. /\ UNCHANGED <<counters, buf, pos, rc, abi>>
        /\ pc \notin {"sum", "done"} /\ pc' \in {"fetch", "failed"}
    BY <1>2 DEF AskSize, FetchFails, kernel, walk
  <2> QED
    BY <1>0, <1>a, <1>b, <2>1 DEF counters, Walked, PassedAs, PassedOf
<1>3. CASE Fetch
  <2>1. /\ UNCHANGED <<v, i, tcpv, pos, rc, abi>> /\ pos = 0
        /\ pc = "fetch" /\ pc' \in {"walk", "exited"} /\ seen' = Census(buf')
    BY <1>0, <1>3 DEF Fetch, kernel, Early
  <2>2. \A f \in Families :
            /\ PassedOf(f) = {} /\ PassedOf(f)' = {}
            /\ \A s \in States : PassedAs(f, s) = {} /\ PassedAs(f, s)' = {}
    BY <2>1 DEF PassedOf, PassedAs
  <2>3. Walked'
    <3>1. ASSUME NEW f \in Families, NEW s \in States
          PROVE  tcpv'[f][s] = Cardinality(PassedAs(f, s)')
      <4>1. PassedAs(f, s) = {} /\ PassedAs(f, s)' = {}
        BY <2>2
      <4>2. tcpv[f][s] = Cardinality(PassedAs(f, s)) /\ tcpv' = tcpv
        BY <1>0, <2>1 DEF Walked
      <4> QED
        BY ONLY <4>1, <4>2
    <3> QED
      BY <1>0, <2>1, <3>1 DEF Walked
  <2>4. OnceEach'
    <3>1. ASSUME NEW f \in Families
          PROVE  SumFunctionOnSet(tcpv'[f], States) = Cardinality(PassedOf(f)')
      BY <1>0, <2>1, <2>2 DEF OnceEach
    <3> QED
      BY <3>1 DEF OnceEach
  <2> QED
    BY <1>a, <2>1, <2>3, <2>4
<1>4. CASE CountRecord
  <2>1. /\ pc = "walk" /\ pc' = pc /\ UNCHANGED <<v, i, seen, buf>> /\ abi' # "xtcpcb"
    BY <1>4 DEF CountRecord, kernel
  <2>2. Walked'
    BY <1>0, <1>4, <2>1, RecordCounts DEF Walked
  <2>3. \A f \in Families : Summed(f) = {} /\ Summed(f)' = {}
    BY <1>0, <2>1 DEF Summed, Early, Families
  <2>4. Totalled'
    <3>1. \A f \in Families : tcpv'[f][INDEX_TOTAL] = 0
      BY <1>0, <1>4, <2>3, RecordCounts, SumOfNone DEF Totalled
    <3> QED
      BY <2>3, <3>1, SumOfNone DEF Totalled
  <2> QED
    BY <1>4, <2>2, <2>4, RecordCounts
<1>5. CASE LeaveLoop
  <2>1. /\ pc = "walk" /\ pc' \in {"sum", "failed"} /\ UNCHANGED <<counters, kernel, walk>>
        /\ pc' = "sum" => rc = 1
        /\ pos = Len(buf) \/ abi = "xtcpcb"
    BY <1>5 DEF LeaveLoop
  <2>2. pc' = "sum" => pos = Len(buf)
    BY <1>0, <2>1 DEF Walked
  <2>3. \A f \in Families : Summed(f) = {} /\ Summed(f)' = {}
    <3>1. \A s \in States : ~ (s < TCP_STATE_FIRST)
      BY TcpCountersAssumption DEF States
    <3> QED
      BY <1>0, <2>1, <3>1 DEF Summed, Early, Families, counters
  <2>4. Totalled'
    BY <1>0, <2>1, <2>3 DEF Totalled, counters
  <2>5. pc' = "sum" => \A f \in Families, s \in States : tcpv[f][s] = seen[f][s]
    <3> SUFFICES ASSUME pc' = "sum", NEW f \in Families, NEW s \in States
                 PROVE  tcpv[f][s] = seen[f][s]
      OBVIOUS
    <3>1. DOMAIN buf = 1 .. pos
      BY <1>0, <2>2
    <3>2. seen[f][s] = Cardinality(PassedAs(f, s))
      BY <1>0, <2>1, <3>1 DEF Walked, Census, PassedAs, PassedOf
    <3> QED
      BY <1>0, <2>1, <3>2 DEF Walked
  <2>6. Walked'
    BY <1>0, <2>1, <2>2, <2>5 DEF Walked, PassedAs, PassedOf, counters, walk, kernel
  <2> QED
    BY <1>b, <2>1, <2>4, <2>6 DEF counters, walk
<1>6. CASE Sum /\ SumState
  <2>1. /\ UNCHANGED <<pc, seen, buf, pos, rc, abi>> /\ pc = "sum"
        /\ \A f \in Families, s \in States : tcpv'[f][s] = tcpv[f][s]
    BY <1>0, <1>6, StatesFinite DEF Sum, SumState, kernel, walk, CountersTypeOK, Counters
  <2>2. Walked'
    BY <1>0, <2>1 DEF Walked, PassedAs, PassedOf
  <2>3. \A f \in Families : SumFunctionOnSet(tcpv'[f], States) = SumFunctionOnSet(tcpv[f], States)
    <3> TAKE f \in Families
    <3>1. PICK fun, gun : fun = tcpv[f] /\ gun = tcpv'[f]
      OBVIOUS
    <3>2. IsFiniteSet(States) /\ \A x \in States : fun[x] \in Nat /\ gun[x] = fun[x]
      BY <1>0, <2>1, <3>1, StatesFinite DEF CountersTypeOK, Counters
    <3> QED
      BY <3>1, <3>2, SumOfSame
  <2>4. OnceEach'
    BY <1>0, <2>1, <2>3 DEF OnceEach, PassedOf
  <2> QED
    BY <1>0, <1>6, <2>2, <2>4, SumStateTotalled
<1>7. CASE Sum /\ SumTotal("sum")
  <2>1. /\ UNCHANGED <<tcpv, seen, buf, pos, rc, abi>>
        /\ pc = "sum" /\ pc' \in {"sum", "done"}
    BY <1>7 DEF Sum, SumTotal, kernel, walk
  <2>2. Walked'
    BY <1>0, <2>1 DEF Walked, PassedAs, PassedOf
  <2> QED
    BY <1>0, <1>7, <1>b, <2>1, <2>2, SumTotalTotalled
<1> QED
  BY <1>1, <1>2, <1>3, <1>4, <1>5, <1>6, <1>7 DEF Next, Sum

LEMMA UnchangedStep == PcbInv /\ UNCHANGED vars => PcbInv'
<1> SUFFICES ASSUME PcbInv, UNCHANGED vars
             PROVE  PcbInv'
  OBVIOUS
<1> USE DEF vars, counters, kernel, walk
<1>1. TypeOK'
  BY DEF PcbInv, TypeOK, CountersTypeOK
<1>2. Early' /\ PcbOrdered' /\ CountedAny' /\ FailsForAReason'
  BY DEF PcbInv, Early, PcbOrdered, CountedAny, FailsForAReason
<1>3. Shared'
  BY DEF PcbInv, Shared, Contribution
<1>4. Totalled'
  BY DEF PcbInv, Totalled, Summed
<1>5. Walked'
  BY DEF PcbInv, Walked, PassedAs, PassedOf
<1>6. OnceEach'
  BY DEF PcbInv, OnceEach, PassedOf
<1> QED
  BY <1>1, <1>2, <1>3, <1>4, <1>5, <1>6 DEF PcbInv

LEMMA PcbInvStep == PcbInv /\ [Next]_vars => PcbInv'
<1> SUFFICES ASSUME PcbInv, [Next]_vars
             PROVE  PcbInv'
  OBVIOUS
<1>0. TypeOK /\ Early /\ PcbOrdered /\ Shared /\ CountedAny /\ FailsForAReason
  BY DEF PcbInv
<1>1. CASE Next /\ SumState
  <2>1. Shared'
    BY <1>0, <1>1, SumStateShared DEF TypeOK
  <2>2. UNCHANGED <<kernel, walk, pc, v>> /\ pc = "sum"
    BY <1>1 DEF SumState, Next, Change, AskSize, Fetch, FetchFails,
                CountRecord, LeaveLoop, Sum, Returned, vars, SumTotal
  <2>3. Early' /\ PcbOrdered' /\ CountedAny' /\ FailsForAReason'
    BY <1>0, <2>2 DEF Early, PcbOrdered, CountedAny, FailsForAReason, kernel, walk
  <2> QED
    BY <1>0, <1>1, <2>1, <2>3, PcbTypeOKStep, WalkStep DEF PcbInv
<1>2. CASE Next /\ SumTotal("sum")
  <2>1. Shared'
    BY <1>0, <1>2, SumTotalShared DEF TypeOK
  <2>2. UNCHANGED <<kernel, walk>> /\ pc' \in {"sum", "done"} /\ v' = 6
    BY <1>2 DEF SumTotal, Next, Change, AskSize, Fetch, FetchFails,
                CountRecord, LeaveLoop, Sum, Returned, vars, SumState
  <2>3. Early' /\ PcbOrdered' /\ CountedAny' /\ FailsForAReason'
    BY <1>0, <2>2 DEF Early, PcbOrdered, CountedAny, FailsForAReason, kernel, walk
  <2> QED
    BY <1>0, <1>2, <2>1, <2>3, PcbTypeOKStep, WalkStep DEF PcbInv
<1>3. CASE Next /\ ~ SumState /\ ~ SumTotal("sum")
  BY <1>0, <1>3, PcbTypeOKStep, OtherStep, WalkStep DEF PcbInv
<1>4. CASE UNCHANGED vars
  BY <1>4, UnchangedStep
<1> QED
  BY <1>1, <1>2, <1>3, <1>4

\* The state of the walk and of the counters keeps its type, for every list.
THEOREM PcbTypeCorrect == Spec => []TypeOK
<1>1. PcbInv => TypeOK
  BY DEF PcbInv
<1> QED
  BY <1>1, InitPcbInv, PcbInvStep, PTL DEF Spec

\* Although both families are counted in one walk and summed afterwards, the
\* counters of both are the sums of those of each (ustat_tcp_bsd.c:43-78).
THEOREM PcbCountersAgree == Spec => []FamiliesAddUp
<1>1. PcbInv => FamiliesAddUp
  BY DEF PcbInv, FamiliesAddUp, Shared, Contribution
<1> QED
  BY <1>1, InitPcbInv, PcbInvStep, PTL DEF Spec

\* However the list changes between the two calls, the init function fails
\* only for one of the reasons listed (ustat_tcp_bsd.c:23-31, 50-54, 69).
THEOREM PcbFailsForAReason == Spec => []FailsForAReason
<1>1. PcbInv => FailsForAReason
  BY DEF PcbInv
<1> QED
  BY <1>1, InitPcbInv, PcbInvStep, PTL DEF Spec

\* Each total is the number of records of that family that sysctl wrote.
THEOREM PcbTotalsCountSockets == Spec => []TotalsCountSockets
<1>1. PcbInv => TotalsCountSockets
  BY TotalsOfSockets DEF PcbInv, TypeOK, Walked
<1> QED
  BY <1>1, InitPcbInv, PcbInvStep, PTL DEF Spec

\* The dump adds up here too, where the totals stand behind the states.
THEOREM PcbDumpSumsUp == Spec => []DumpSumsUp
<1>1. PcbInv => DumpSumsUp
  BY DumpAtEnd DEF PcbInv, TypeOK
<1> QED
  BY <1>1, InitPcbInv, PcbInvStep, PTL DEF Spec

\* At the end, what the walk has passed of a family are its records.
LEMMA PassedAll ==
    ASSUME PcbInv, pc = "done", NEW f \in Families
    PROVE  /\ OfFamily(f) = PassedOf(f)
           /\ \A s \in States : OfFamily(f) \cap InState(s) = PassedAs(f, s)
<1>0. buf \in Seq(Socket) /\ pos = Len(buf)
  BY DEF PcbInv, TypeOK, Walked
<1>1. DOMAIN buf = 1 .. pos
  BY <1>0
<1>2. ASSUME NEW k \in DOMAIN buf
      PROVE  buf[k].flags \subseteq {4, 6}
  <2>1. k \in 1 .. Len(buf)
    BY <1>0
  <2>2. buf[k] \in Socket
    BY <1>0, <2>1
  <2> QED
    BY <2>2 DEF Socket, Families
<1>3. \A k \in DOMAIN buf :
        f \in Family(buf[k]) <=> (4 \in buf[k].flags <=> f = 4) /\ f \in buf[k].flags
  BY <1>2 DEF Family, Families
<1>4. OfFamily(f) = PassedOf(f)
  BY <1>1, <1>3 DEF OfFamily, PassedOf
<1>5. ASSUME NEW s \in States
      PROVE  OfFamily(f) \cap InState(s) = PassedAs(f, s)
  <2>1. PassedOf(f) \subseteq DOMAIN buf
    BY <1>1 DEF PassedOf
  <2> QED
    BY <1>4, <2>1 DEF InState, PassedAs
<1> QED
  BY <1>4, <1>5

\* The records of the one family are not among those of the other.
LEMMA FamiliesApart ==
    ASSUME TypeOK, NEW S
    PROVE  Cardinality((OfFamily(4) \cup OfFamily(6)) \cap S)
           = Cardinality(OfFamily(4) \cap S) + Cardinality(OfFamily(6) \cap S)
<1> DEFINE A == OfFamily(4) \cap S
           B == OfFamily(6) \cap S
<1>1. IsFiniteSet(DOMAIN buf)
  BY FS_Interval DEF TypeOK
<1>2. A \subseteq DOMAIN buf /\ B \subseteq DOMAIN buf /\ A \cap B = {}
  BY DEF OfFamily
<1>3. (OfFamily(4) \cup OfFamily(6)) \cap S = A \cup B
  OBVIOUS
<1> HIDE DEF A, B
<1>4. IsFiniteSet(A) /\ IsFiniteSet(B)
  BY <1>1, <1>2, FS_Subset
<1>5. Cardinality(A) \in Nat /\ Cardinality(B) \in Nat /\ Cardinality(A \cap B) = 0
  BY <1>2, <1>4, FS_CardinalityType, FS_EmptySet
<1>6. Cardinality(A \cup B) = Cardinality(A) + Cardinality(B) - Cardinality(A \cap B)
  BY <1>4, FS_Union
<1>7. Cardinality(A \cup B) = Cardinality(A) + Cardinality(B)
  BY ONLY <1>5, <1>6
<1> QED
  BY <1>3, <1>7 DEF A, B

\* One walk, two families, two rounds of sums: in every counter, of the
\* families, the states and the totals, each of its sockets is counted once.
THEOREM PcbCountsEachSocketOnce == Spec => []CountsEachSocketOnce
<1>1. PcbInv => CountsEachSocketOnce
  <2> SUFFICES ASSUME PcbInv, pc = "done"
               PROVE  /\ \A f \in Families :
                            /\ \A s \in States : tcpv[f][s] = Cardinality(OfFamily(f) \cap InState(s))
                            /\ tcpv[f][INDEX_TOTAL] = Cardinality(OfFamily(f))
                      /\ \A s \in States :
                            tcp[s] = Cardinality((OfFamily(4) \cup OfFamily(6)) \cap InState(s))
                      /\ tcp[INDEX_TOTAL] = Cardinality(OfFamily(4) \cup OfFamily(6))
    BY DEF CountsEachSocketOnce
  <2>1. TypeOK /\ CountersTypeOK /\ Shared /\ Totalled /\ OnceEach /\ Walked
    BY DEF PcbInv, TypeOK
  <2>2. \A f \in Families, s \in States :
            tcpv[f][s] = Cardinality(OfFamily(f) \cap InState(s))
    BY <2>1, PassedAll DEF Walked
  <2>3. ASSUME NEW f \in Families
        PROVE  tcpv[f][INDEX_TOTAL] = Cardinality(OfFamily(f))
    <3>1. tcpv[f][INDEX_TOTAL] = SumFunctionOnSet(tcpv[f], States)
      BY <2>1, TotalsAtEnd
    <3>2. SumFunctionOnSet(tcpv[f], States) = Cardinality(PassedOf(f))
      BY <2>1 DEF OnceEach
    <3>3. OfFamily(f) = PassedOf(f)
      BY PassedAll
    <3> QED
      BY <3>1, <3>2, <3>3
  <2>4. \A x \in Indexes : tcp[x] = tcpv[4][x] + tcpv[6][x]
    BY <2>1 DEF Shared, Contribution
  <2>5. ASSUME NEW s \in States
        PROVE  tcp[s] = Cardinality((OfFamily(4) \cup OfFamily(6)) \cap InState(s))
    <3>1. tcp[s] = tcpv[4][s] + tcpv[6][s]
      BY <2>4, StatesFinite
    <3> QED
      BY <2>1, <2>2, <3>1, FamiliesApart DEF Families
  <2>6. tcp[INDEX_TOTAL] = Cardinality(OfFamily(4) \cup OfFamily(6))
    <3>1. tcp[INDEX_TOTAL] = tcpv[4][INDEX_TOTAL] + tcpv[6][INDEX_TOTAL]
      BY <2>4, StatesFinite
    <3>2. /\ OfFamily(4) \cap DOMAIN buf = OfFamily(4)
          /\ OfFamily(6) \cap DOMAIN buf = OfFamily(6)
          /\ (OfFamily(4) \cup OfFamily(6)) \cap DOMAIN buf = OfFamily(4) \cup OfFamily(6)
      BY DEF OfFamily
    <3>3. Cardinality(OfFamily(4) \cup OfFamily(6))
          = Cardinality(OfFamily(4)) + Cardinality(OfFamily(6))
      BY <2>1, <3>2, FamiliesApart
    <3> QED
      BY <2>3, <3>1, <3>3 DEF Families
  <2> QED
    BY <2>2, <2>3, <2>5, <2>6
<1> QED
  BY <1>1, InitPcbInv, PcbInvStep, PTL DEF Spec

=============================================================================
