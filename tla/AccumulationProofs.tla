--------------------------- MODULE AccumulationProofs ---------------------------
(***************************************************************************)
(* What is proved of reminders alone holds among all the other hooks: the  *)
(* reminder tables of Accumulation change as Reminders says and no step of *)
(* another hook, of a refused block or of the rebuild touches them.        *)
(*                                                                         *)
(* What BlockRowsProofs says of one call of add_block or remove_block is   *)
(* carried over every order of blocks: the tables stay those of the blocks *)
(* harvested, the index and the snapshots follow them, and the counters of *)
(* block rows are those of the rows that are stored.                       *)
(***************************************************************************)
EXTENDS Accumulation, BlockRowsProofs, FiniteSetTheorems, TLAPS

------------------------------------------------------------------------------
(* Reminders alone, for every chain and every order of harvesting.           *)

\* What the theorems need to know of every reachable state.
ChainInv ==
  /\ history \in Histories
  /\ harvested \subseteq Blocks
  /\ removals \in Nat

LEMMA InitChain == Init => ChainInv
BY DEF Init, ChainInv

LEMMA StepChain == ChainInv /\ [Next]_vars => ChainInv'
<1> SUFFICES ASSUME ChainInv, [Next]_vars PROVE ChainInv'
  OBVIOUS
<1>1. ASSUME NEW n \in Blocks, Harvest(n) PROVE ChainInv'
  BY <1>1 DEF ChainInv, Harvest
<1>2. ASSUME NEW n \in Blocks, RemoveRows(n) PROVE ChainInv'
  <2>1. history' \in Histories  BY <1>2, Zenon DEF RemoveRows
  <2>2. removals' = removals + 1 /\ harvested' = harvested \ {n}  BY <1>2 DEF RemoveRows
  <2>3. QED  BY <2>1, <2>2 DEF ChainInv
<1>3. CASE UNCHANGED vars
  BY <1>3 DEF ChainInv, vars
<1>4. QED  BY <1>1, <1>2, <1>3 DEF Next

LEMMA ChainInvariant == Spec => []ChainInv
BY InitChain, StepChain, PTL DEF Spec

\* Harvesting a block adds it to the blocks seen with an event of its kind.
LEMMA HarvestSees ==
  ASSUME NEW n \in Blocks, Harvest(n), NEW kind
  PROVE  /\ n \notin Seen(kind)
         /\ history[n].kind = kind => Seen(kind)' = Seen(kind) \cup {n}
         /\ history[n].kind # kind => Seen(kind)' = Seen(kind)
BY DEF Harvest, Seen

\* The block after a block of the chain's numbers is not 0, the block of NoRow.
LEMMA TermsAreARow ==
  ASSUME NEW n \in Blocks, TermsOf(n)
  PROVE  reminder # NoRow
BY DEF TermsOf, NoRow, Blocks

\* A block that comes in leaves the latest terms.
LEMMA HarvestTerms ==
  ASSUME NEW n \in Blocks, Harvest(n), ChainInv, TermsAreLatest
  PROVE  TermsAreLatest'
<1> DEFINE e == history[n]
<1>0. history' = history /\ n \notin harvested
  BY DEF Harvest
<1>a. Seen("create") \subseteq Blocks /\ Seen("update") \subseteq Blocks
  BY DEF ChainInv, Seen
<1>b. \A m \in Blocks : (TermsOf(m))' <=> reminder'.block = m /\ reminder'.count = history[m].count
  BY <1>0 DEF TermsOf
<1>1. CASE e.kind = "create"
  <2>1. Seen("create") = {}
    <3>1. SUFFICES ASSUME NEW c \in Seen("create") PROVE FALSE
      OBVIOUS
    <3>2. c \in Blocks /\ c # n /\ history[c].kind = "create"
      BY <1>0, <1>a DEF Seen
    <3>3. c <= n /\ n <= c
      BY <1>1, <3>2, RemindersAssumption DEF RemindersAssumption, ChainInv
    <3>4. QED  BY <3>2, <3>3 DEF Blocks
  <2>2. Seen("update")' = Seen("update") /\ Seen("create")' = {n}
    BY <1>1, <2>1, HarvestSees
  <2>3. reminder' = CreatedRow(reminder, n, e.count)
    BY <1>1 DEF Harvest
  <2>4. CASE Seen("update") # {}
    <3>1. PICK u \in Seen("update") : TermsOf(u) /\ \A m \in Seen("update") : m <= u
      BY <2>4 DEF TermsAreLatest
    <3>2. reminder' = reminder
      BY <1>a, <2>3, <3>1, TermsAreARow DEF CreatedRow
    <3>3. QED  BY <1>0, <2>2, <2>4, <3>1, <3>2 DEF TermsAreLatest, TermsOf
  <2>5. CASE Seen("update") = {}
    <3>1. reminder' = [block |-> n, count |-> e.count]
      BY <2>1, <2>3, <2>5 DEF TermsAreLatest, CreatedRow
    <3>2. QED  BY <1>b, <2>2, <2>5, <3>1 DEF TermsAreLatest
  <2>6. QED  BY <2>4, <2>5
<1>2. CASE e.kind = "update"
  <2>1. Seen("update")' = Seen("update") \cup {n} /\ Seen("create")' = Seen("create")
    BY <1>2, HarvestSees
  <2>2. reminder' = UpdatedRow(reminder, n, e.count)
    BY <1>2 DEF Harvest
  <2>3. CASE Seen("update") # {}
    <3>1. PICK u \in Seen("update") : TermsOf(u) /\ \A m \in Seen("update") : m <= u
      BY <2>3 DEF TermsAreLatest
    <3>2. reminder # NoRow /\ reminder.block = u /\ u \in Blocks
      BY <1>a, <3>1, TermsAreARow DEF TermsOf
    <3>3. CASE n > u
      <4>1. reminder' = [block |-> n, count |-> e.count]
        BY <2>2, <3>2, <3>3 DEF UpdatedRow
      <4>2. \A m \in Seen("update") \cup {n} : m <= n
        BY <1>a, <3>1, <3>2, <3>3 DEF Blocks
      <4>3. QED  BY <1>b, <2>1, <4>1, <4>2 DEF TermsAreLatest
    <3>4. CASE ~(n > u)
      <4>1. reminder' = reminder
        BY <2>2, <3>2, <3>4 DEF UpdatedRow
      <4>2. \A m \in Seen("update") \cup {n} : m <= u
        BY <3>1, <3>2, <3>4 DEF Blocks
      <4>3. (TermsOf(u))'
        BY <1>0, <3>1, <4>1 DEF TermsOf
      <4>4. QED  BY <2>1, <3>1, <4>2, <4>3 DEF TermsAreLatest
    <3>5. QED  BY <3>3, <3>4
  <2>4. CASE Seen("update") = {}
    <3>1. reminder' = [block |-> n, count |-> e.count]
      <4>1. CASE Seen("create") # {}
        <5>1. PICK c \in Seen("create") : TermsOf(c)
          BY <2>4, <4>1 DEF TermsAreLatest
        <5>2. c \in Blocks /\ c # n /\ history[c].kind = "create"
          BY <1>0, <1>a DEF Seen
        <5>3. c <= n
          BY <1>2, <5>2, RemindersAssumption DEF RemindersAssumption, ChainInv
        <5>4. n > reminder.block
          BY <5>1, <5>2, <5>3 DEF TermsOf, Blocks
        <5>5. QED  BY <2>2, <5>4 DEF UpdatedRow
      <4>2. CASE Seen("create") = {}
        BY <2>2, <2>4, <4>2 DEF TermsAreLatest, UpdatedRow
      <4>3. QED  BY <4>1, <4>2
    <3>2. n <= n  BY DEF Blocks
    <3>3. QED  BY <1>b, <2>1, <2>4, <3>1, <3>2 DEF TermsAreLatest
  <2>5. QED  BY <2>3, <2>4
<1>3. CASE e.kind \notin {"create", "update"}
  <2>1. Seen("update")' = Seen("update") /\ Seen("create")' = Seen("create")
    BY <1>3, HarvestSees
  <2>2. reminder' = reminder
    BY <1>3 DEF Harvest
  <2>3. QED  BY <1>0, <2>1, <2>2 DEF TermsAreLatest, TermsOf
<1>4. QED  BY <1>1, <1>2, <1>3

LEMMA StepTerms ==
  ASSUME ChainInv, LatestTerms, [Next]_vars
  PROVE  LatestTerms'
<1>1. ASSUME NEW n \in Blocks, Harvest(n) PROVE LatestTerms'
  <2>1. removals' = removals
    BY <1>1 DEF Harvest
  <2>2. QED  BY <1>1, <2>1, HarvestTerms DEF LatestTerms
<1>2. ASSUME NEW n \in Blocks, RemoveRows(n) PROVE LatestTerms'
  <2>1. removals \in Nat /\ removals' = removals + 1
    BY <1>2 DEF RemoveRows, ChainInv
  <2>2. QED  BY <2>1 DEF LatestTerms
<1>3. CASE UNCHANGED vars
  BY <1>3 DEF vars, LatestTerms, TermsAreLatest, TermsOf, Seen
<1>4. QED  BY <1>1, <1>2, <1>3 DEF Next

\* As long as no block is taken out, the terms shown are the latest harvested
\* ones after every order of harvesting every chain.
THEOREM TermsInAnyOrder == Spec => []LatestTerms
<1>1. Init => LatestTerms
  BY DEF Init, LatestTerms, TermsAreLatest, Seen
<1>2. ChainInv /\ LatestTerms /\ [Next]_vars => LatestTerms'
  BY StepTerms
<1>3. QED  BY ChainInvariant, <1>1, <1>2, PTL DEF Spec

LEMMA StepRows ==
  ASSUME ChainInv, RowsOfHarvested, [Next]_vars
  PROVE  RowsOfHarvested'
<1> DEFINE Terms == Seen("create") \cup Seen("update")
<1>1. ASSUME NEW n \in Blocks, Harvest(n) PROVE RowsOfHarvested'
  <2> DEFINE e == history[n]
  <2>1. messages' = Seen("msg")'
    <3>1. CASE e.kind = "msg"
      BY <1>1, <3>1, HarvestSees DEF Harvest, RowsOfHarvested
    <3>2. CASE e.kind # "msg"
      <4>1. messages' = messages
        BY <1>1, <3>2 DEF Harvest
      <4>2. QED  BY <1>1, <3>2, <4>1, HarvestSees DEF RowsOfHarvested
    <3>3. QED  BY <3>1, <3>2
  <2>2. Terms \subseteq Terms'
    BY <1>1 DEF Harvest, Seen
  <2>3. \/ reminder' = reminder
        \/ e.kind \in {"create", "update"} /\ reminder' = [block |-> n, count |-> e.count]
    BY <1>1 DEF Harvest, CreatedRow, UpdatedRow
  <2>4. CASE reminder' = reminder
    BY <2>1, <2>2, <2>4 DEF RowsOfHarvested
  <2>5. CASE e.kind \in {"create", "update"} /\ reminder' = [block |-> n, count |-> e.count]
    <3>1. n \in Terms'
      BY <1>1, <2>5 DEF Harvest, Seen
    <3>2. reminder'.block = n
      BY <2>5
    <3>3. QED  BY <2>1, <3>1, <3>2 DEF RowsOfHarvested
  <2>6. QED  BY <2>3, <2>4, <2>5
<1>2. ASSUME NEW n \in Blocks, RemoveRows(n) PROVE RowsOfHarvested'
  <2> DEFINE e == history[n]
  <2>1. \A m \in Blocks \ {n} : history'[m] = history[m]
    BY <1>2, Zenon DEF RemoveRows
  <2>2. harvested' = harvested \ {n}
    BY <1>2 DEF RemoveRows
  <2>3. \A kind : Seen(kind)' = Seen(kind) \ {n}
    BY <2>1, <2>2 DEF Seen, ChainInv
  <2>4. messages' = messages \ {n}
    <3>1. CASE e.kind = "msg"
      BY <1>2, <3>1 DEF RemoveRows, MessagesWithout
    <3>2. CASE e.kind # "msg"
      <4>1. messages' = messages
        BY <1>2, <3>2 DEF RemoveRows
      <4>2. n \notin messages
        BY <3>2 DEF RowsOfHarvested, Seen
      <4>3. QED  BY <4>1, <4>2
    <3>3. QED  BY <3>1, <3>2
  <2>5. \/ reminder' = NoRow
        \/ reminder' = reminder /\ reminder.block # n
    <3>1. CASE reminder = NoRow
      BY <1>2, <3>1 DEF RemoveRows
    <3>2. CASE reminder # NoRow /\ reminder.block # n
      BY <1>2, <3>2 DEF RemoveRows
    <3>3. CASE reminder # NoRow /\ reminder.block = n
      <4>1. e.kind \in {"create", "update"}
        BY <3>3 DEF RowsOfHarvested, Seen
      <4>2. QED  BY <1>2, <3>3, <4>1 DEF RemoveRows
    <3>4. QED  BY <3>1, <3>2, <3>3
  <2>6. QED  BY <2>3, <2>4, <2>5 DEF RowsOfHarvested
<1>3. CASE UNCHANGED vars
  BY <1>3 DEF vars, RowsOfHarvested, Seen
<1>4. QED  BY <1>1, <1>2, <1>3 DEF Next

\* However often blocks are taken out and others come in for them, no row of a
\* block that is gone stays behind.
THEOREM NoRowsOfRemoved == Spec => []RowsOfHarvested
<1>1. Init => RowsOfHarvested
  BY DEF Init, RowsOfHarvested, Seen
<1>2. ChainInv /\ RowsOfHarvested /\ [Next]_vars => RowsOfHarvested'
  BY StepRows
<1>3. QED  BY ChainInvariant, <1>1, <1>2, PTL DEF Spec

------------------------------------------------------------------------------
(* Sums over the harvested blocks.                                         *)

Plus(v, n, sum) == v[n] + sum
AnyOf(s) == CHOOSE x \in s : TRUE
Sums == INSTANCE Recursion WITH Step <- Plus, Pick <- AnyOf

LEMMA FiniteSetsAreSized ==
  ASSUME NEW S, IsFiniteSet(S)
  PROVE  Sums!Sized(S)
BY Sums!FiniteSetsAreSized DEF IsFiniteSet, Sums!IsFiniteSet

\* TotalWorth is a sum.
LEMMA TotalWorthIsSum ==
  ASSUME NEW h, NEW S, IsFiniteSet(S)
  PROVE  \E f : Sums!IsSum(f, [n \in S |-> Worth(h[n])], S) /\ TotalWorth(h, S) = f[S]
<1> DEFINE v == [n \in S |-> Worth(h[n])]
           Folds(f) ==
             f = [s \in SUBSET S |->
                    IF s = {} THEN 0
                    ELSE Worth(h[CHOOSE x \in s : TRUE]) + f[s \ {CHOOSE x \in s : TRUE}]]
<1>1. \A s \in SUBSET S : s # {} => AnyOf(s) \in s
  BY DEF AnyOf
<1>2. Sums!Sized(S)
  BY FiniteSetsAreSized
<1>3. PICK f : Sums!Iterates(f, v, 0, S)
  <2> HIDE DEF v
  <2>1. QED  BY <1>1, <1>2, Sums!IterationExists
<1>4. Folds(f)
  BY <1>1, <1>3 DEF Plus, AnyOf, Sums!Iterates
<1>5. \A g : Folds(g) => Sums!IsSum(g, v, S)
  BY <1>1 DEF Sums!IsSum, Sums!Any, AnyOf
<1>6. TotalWorth(h, S) = (CHOOSE g : Folds(g))[S]
  BY DEF TotalWorth, MapThenSumSet, MapThenFoldSet
<1>7. Folds(CHOOSE g : Folds(g))
  BY <1>4, Zenon
<1>8. QED  BY <1>5, <1>6, <1>7

LEMMA TotalOfNone ==
  ASSUME NEW h
  PROVE  TotalWorth(h, {}) = 0
<1>1. IsFiniteSet({})
  BY FS_EmptySet
<1>2. PICK f : Sums!IsSum(f, [n \in {} |-> Worth(h[n])], {}) /\ TotalWorth(h, {}) = f[{}]
  BY <1>1, TotalWorthIsSum
<1>3. QED  BY <1>2 DEF Sums!IsSum

\* A block more adds what its event is worth.
LEMMA TotalOfOneMore ==
  ASSUME NEW h, NEW S, IsFiniteSet(S), NEW n, n \notin S,
         \A m \in S \cup {n} : Worth(h[m]) \in Int
  PROVE  /\ TotalWorth(h, S) \in Int
         /\ TotalWorth(h, S \cup {n}) = Worth(h[n]) + TotalWorth(h, S)
<1> DEFINE T == S \cup {n}
           v == [m \in S |-> Worth(h[m])]
           w == [m \in T |-> Worth(h[m])]
<1>1. IsFiniteSet(T)
  BY FS_AddElement
<1>2. PICK f : Sums!IsSum(f, v, S) /\ TotalWorth(h, S) = f[S]
  BY TotalWorthIsSum
<1>3. PICK g : Sums!IsSum(g, w, T) /\ TotalWorth(h, T) = g[T]
  BY <1>1, TotalWorthIsSum
<1>4. \A s \in SUBSET T : g[s] \in Int /\ \A x \in s : g[s] = w[x] + g[s \ {x}]
  <2>1. Sums!Sized(T) /\ w \in [T -> Int]
    BY <1>1, FiniteSetsAreSized
  <2> HIDE DEF w, T
  <2>2. Sums!TakesAny(g, w, T)
    BY <1>3, <2>1, Sums!SumTakesAny
  <2>3. QED  BY <2>2 DEF Sums!TakesAny
<1>5. f[S] = g[S]
  <2>1. Sums!Sized(S) /\ S \subseteq T /\ \A m \in S : v[m] = w[m]
    BY FiniteSetsAreSized
  <2> HIDE DEF v, w, T
  <2>2. QED  BY <1>2, <1>3, <2>1, Sums!SumsAgree
<1>6. T \ {n} = S /\ S \in SUBSET T /\ n \in T
  OBVIOUS
<1>7. g[T] = w[n] + g[S]
  BY <1>4, <1>6
<1>8. QED  BY <1>2, <1>3, <1>4, <1>5, <1>6, <1>7

LEMMA WorthIsAmount ==
  ASSUME ChainInv, NEW n \in Blocks
  PROVE  Worth(history[n]) \in Int
BY RemindersAssumption DEF RemindersAssumption, ChainInv, Worth

\* The points that the hook of a block adds are what its event is worth.
LEMMA HarvestPoints ==
  ASSUME ChainInv, NEW n \in Blocks, Harvest(n), lifecycle.points \in Int
  PROVE  lifecycle'.points = lifecycle.points + Worth(history[n])
<1> DEFINE e == history[n]
<1>1. CASE e.kind = "create"
  <2>1. e.count \in Nat
    BY <1>1, RemindersAssumption DEF RemindersAssumption, ChainInv
  <2>2. Worth(e) = e.count
    BY <1>1 DEF Worth
  <2>3. lifecycle' = Points(lifecycle, e.count, FALSE)
    BY <1>1 DEF Harvest
  <2>4. QED  BY <2>1, <2>2, <2>3 DEF Points
<1>2. CASE e.kind = "update"
  <2>1. e.increase \in Nat /\ e.reduce \in Nat
    BY <1>2, RemindersAssumption DEF RemindersAssumption, ChainInv
  <2>2. Worth(e) = e.increase - e.reduce
    BY <1>2 DEF Worth
  <2>3. lifecycle' = IF e.increase > 0 \/ e.reduce > 0
                     THEN Points(lifecycle, e.increase - e.reduce, FALSE) ELSE lifecycle
    BY <1>2 DEF Harvest
  <2>4. QED  BY <1>2, <2>1, <2>2, <2>3 DEF Points
<1>3. CASE e.kind = "msg"
  BY <1>3 DEF Harvest, Points, Worth
<1>4. CASE e.kind = "released"
  BY <1>4 DEF Harvest, Points, Worth
<1>5. CASE e.kind \notin {"create", "update", "msg", "released"}
  <2>1. lifecycle' = lifecycle
    BY <1>5 DEF Harvest
  <2>2. Worth(e) = 0
    BY <1>5 DEF Worth
  <2>3. QED  BY <2>1, <2>2
<1>6. QED  BY <1>1, <1>2, <1>3, <1>4, <1>5

\* A reminder is released by the block of its release, and stays released.
LEMMA HarvestReleases ==
  ASSUME NEW n \in Blocks, Harvest(n), lifecycle.released \in BOOLEAN
  PROVE  /\ lifecycle'.released \in BOOLEAN
         /\ lifecycle'.released <=> (lifecycle.released \/ history[n].kind = "released")
<1> DEFINE e == history[n]
<1>1. CASE e.kind = "released"
  <2>1. lifecycle' = Points(lifecycle, 0, TRUE)
    BY <1>1 DEF Harvest
  <2>2. lifecycle'.released = (lifecycle.released \/ TRUE)
    BY <2>1 DEF Points
  <2>3. QED  BY <1>1, <2>2, Zenon
<1>2. CASE e.kind # "released"
  <2>1. \/ lifecycle' = Points(lifecycle, e.count, FALSE)
        \/ lifecycle' = Points(lifecycle, e.increase - e.reduce, FALSE)
        \/ lifecycle' = Points(lifecycle, -1, FALSE)
        \/ lifecycle' = lifecycle
    BY <1>2 DEF Harvest
  <2>2. \A count : Points(lifecycle, count, FALSE).released = (lifecycle.released \/ FALSE)
    BY DEF Points
  <2>3. (lifecycle.released \/ FALSE) = lifecycle.released
    BY Zenon
  <2>4. lifecycle'.released = lifecycle.released
    BY <2>1, <2>2, <2>3, Zenon
  <2>5. QED  BY <1>2, <2>4, Zenon
<1>3. QED  BY <1>1, <1>2

LEMMA StepPoints ==
  ASSUME ChainInv, PointsAddUp, [Next]_vars
  PROVE  PointsAddUp'
<1>1. ASSUME NEW n \in Blocks, Harvest(n) PROVE PointsAddUp'
  <2>1. /\ removals' = removals /\ history' = history
        /\ n \notin harvested /\ harvested' = harvested \cup {n}
    BY <1>1 DEF Harvest
  <2>2. SUFFICES ASSUME removals = 0 PROVE PointsAddUp'
    BY <2>1 DEF PointsAddUp
  <2>3. IsFiniteSet(harvested)
    <3>1. IsFiniteSet(Blocks)
      BY FS_Interval, RemindersAssumption DEF RemindersAssumption, Blocks
    <3>2. QED  BY <3>1, FS_Subset DEF ChainInv
  <2>4. /\ TotalWorth(history, harvested) \in Int
        /\ TotalWorth(history, harvested \cup {n})
             = Worth(history[n]) + TotalWorth(history, harvested)
    <3>1. \A m \in harvested \cup {n} : Worth(history[m]) \in Int
      BY WorthIsAmount DEF ChainInv
    <3>2. QED  BY <2>1, <2>3, <3>1, TotalOfOneMore
  <2>5. /\ lifecycle.points = TotalWorth(history, harvested)
        /\ lifecycle.released = (Seen("released") # {})
    BY <2>2 DEF PointsAddUp, PointsBalance, Balance
  <2>6. lifecycle'.points = lifecycle.points + Worth(history[n])
    BY <1>1, <2>4, <2>5, HarvestPoints
  <2>7. PointsBalance'
    <3>1. Worth(history[n]) \in Int
      BY WorthIsAmount
    <3>2. QED  BY <2>1, <2>4, <2>5, <2>6, <3>1 DEF PointsBalance, Balance
  <2>8. lifecycle'.released = (Seen("released")' # {})
    <3>1. lifecycle'.released \in BOOLEAN
      BY <1>1, <2>5, HarvestReleases
    <3>2. lifecycle'.released <=> (lifecycle.released \/ history[n].kind = "released")
      BY <1>1, <2>5, HarvestReleases
    <3>3. Seen("released")' # {} <=> (Seen("released") # {} \/ history[n].kind = "released")
      BY <1>1, HarvestSees
    <3>4. QED  BY <2>5, <3>1, <3>2, <3>3, Zenon
  <2>9. QED  BY <2>7, <2>8 DEF PointsAddUp
<1>2. ASSUME NEW n \in Blocks, RemoveRows(n) PROVE PointsAddUp'
  <2>1. removals \in Nat /\ removals' = removals + 1
    BY <1>2 DEF RemoveRows, ChainInv
  <2>2. QED  BY <2>1 DEF PointsAddUp
<1>3. CASE UNCHANGED vars
  BY <1>3 DEF vars, PointsAddUp, PointsBalance, Balance, Seen
<1>4. QED  BY <1>1, <1>2, <1>3 DEF Next

\* As long as no block is taken out, the points of a reminder are what the
\* events of the harvested blocks are worth together, in whatever order the
\* harvester came by them, and the reminder is released if one of them says so.
THEOREM PointsInAnyOrder == Spec => []PointsAddUp
<1>1. Init => PointsAddUp
  <2> SUFFICES ASSUME Init PROVE PointsAddUp
    OBVIOUS
  <2>1. PointsBalance
    BY TotalOfNone DEF Init, PointsBalance, Balance, NoLifecycle
  <2>2. lifecycle.released = FALSE /\ Seen("released") = {}
    BY DEF Init, NoLifecycle, Seen
  <2>3. QED  BY <2>1, <2>2, Zenon DEF PointsAddUp
<1>2. ChainInv /\ PointsAddUp /\ [Next]_vars => PointsAddUp'
  BY StepPoints
<1>3. QED  BY ChainInvariant, <1>1, <1>2, PTL DEF Spec

------------------------------------------------------------------------------
(* The reminder tables.                                                      *)

LEMMA StepReminders == AccumulationNext => [Next]_vars
<1> SUFFICES ASSUME AccumulationNext PROVE [Next]_vars
  OBVIOUS
<1>1. ASSUME NEW n \in Blocks, AddBlock(n) PROVE Next
  BY <1>1 DEF AddBlock, Next
<1>2. ASSUME NEW n \in Blocks, AddBlockWithoutEvents(n) PROVE Next
  BY <1>2 DEF AddBlockWithoutEvents, Next
<1>3. ASSUME NEW n \in Blocks, RefusedBlock(n) PROVE vars' = vars
  BY <1>3 DEF RefusedBlock
<1>4. ASSUME NEW n \in Blocks, RemoveBlock(n) PROVE Next
  BY <1>4 DEF RemoveBlock, Next
<1>5. ASSUME NEW n \in Blocks, CreateFullSnapshot(n) PROVE vars' = vars
  BY <1>5 DEF CreateFullSnapshot
<1>6. TruncateIndex \/ ListBlocks \/ RebuildBlock \/ KillRebuild => vars' = vars
  BY DEF TruncateIndex, ListBlocks, RebuildBlock, KillRebuild
<1>7. QED  BY <1>1, <1>2, <1>3, <1>4, <1>5, <1>6 DEF AccumulationNext

\* Accumulation, seen at the reminder tables only, is Reminders.
THEOREM AccumulationImplementsReminders == AccumulationSpec => Spec
<1>1. AccumulationInit => Init
  BY DEF AccumulationInit
<1>2. [AccumulationNext]_vars2 => [Next]_vars
  <2>1. vars2' = vars2 => vars' = vars
    BY Zenon DEF vars2
  <2>2. QED  BY <2>1, StepReminders
<1>3. QED  BY <1>1, <1>2, PTL DEF AccumulationSpec, Spec

\* The shown terms of a reminder are those of the latest harvested update, while
\* blocks come in in any order with every other hook.
THEOREM TermsAmongAllHooks == AccumulationSpec => []LatestTerms
<1>1. AccumulationSpec => Spec
  BY AccumulationImplementsReminders
<1>2. Spec => []LatestTerms
  BY TermsInAnyOrder
<1>3. QED  BY <1>1, <1>2, PTL

\* No row of a removed block is left among the reminders, whatever else the
\* block wrote and its removal took out.
THEOREM RowsAmongAllHooks == AccumulationSpec => []RowsOfHarvested
<1>1. AccumulationSpec => Spec
  BY AccumulationImplementsReminders
<1>2. Spec => []RowsOfHarvested
  BY NoRowsOfRemoved
<1>3. QED  BY <1>1, <1>2, PTL

\* The points of a reminder and its release come out of the blocks harvested so
\* far, whatever the other hooks of these blocks do.
THEOREM PointsAmongAllHooks == AccumulationSpec => []PointsAddUp
<1>1. AccumulationSpec => Spec
  BY AccumulationImplementsReminders
<1>2. Spec => []PointsAddUp
  BY PointsInAnyOrder
<1>3. QED  BY <1>1, <1>2, PTL

------------------------------------------------------------------------------
(* The blocks the node may show, and their rows one by one.                  *)

\* What the proofs about the tables rest on.
ContentInv ==
  /\ chains \in Themes
  /\ DOMAIN content = Blocks
  /\ \A n \in Blocks : \E k \in chains : content[n] \in {k[n], WithoutEvents(k[n])}

LEMMA WithoutEventsIsBlock ==
  ASSUME NEW c, IsBlock(c)
  PROVE  IsBlock(WithoutEvents(c)) /\ WithoutEvents(c).events = <<>>
<1> DEFINE w == WithoutEvents(c)
<1>1. /\ DOMAIN w = DOMAIN c /\ w.events = <<>> /\ w.extrinsics = c.extrinsics /\ w.logs = c.logs
  BY DEF WithoutEvents, IsBlock
<1> HIDE DEF w
<1>2. DOMAIN w.events = {}
  BY <1>1
<1>3. IsList(w.events)
  BY <1>1, AreLists
<1>4. IsBlock(w)
  BY <1>1, <1>2, <1>3 DEF IsBlock, SignersKnown
<1>5. QED  BY <1>1, <1>4 DEF w

LEMMA ContentIsBlocks ==
  ASSUME ContentInv
  PROVE  \A n \in Blocks : IsBlock(content[n])
<1> SUFFICES ASSUME NEW n \in Blocks PROVE IsBlock(content[n])
  OBVIOUS
<1>1. PICK k \in chains : content[n] \in {k[n], WithoutEvents(k[n])}
  BY DEF ContentInv
<1>2. IsBlock(k[n])
  BY AccumulationAssumption DEF AccumulationAssumption, ContentInv
<1>3. QED  BY <1>1, <1>2, WithoutEventsIsBlock

LEMMA InitContent == AccumulationInit => ContentInv
<1> SUFFICES ASSUME AccumulationInit PROVE ContentInv
  OBVIOUS
<1>1. chains \in Themes /\ content \in chains
  BY DEF AccumulationInit
<1>2. DOMAIN content = Blocks
  BY <1>1, AccumulationAssumption DEF AccumulationAssumption
<1>3. QED  BY <1>1, <1>2 DEF ContentInv

\* What a step leaves of the blocks at their numbers.
LEMMA StepContent == ContentInv /\ [AccumulationNext]_vars2 => ContentInv'
<1> SUFFICES ASSUME ContentInv, [AccumulationNext]_vars2 PROVE ContentInv'
  OBVIOUS
<1>1. CASE UNCHANGED <<chains, content>>
  BY <1>1 DEF ContentInv
<1>2. ASSUME NEW n \in Blocks, AddBlockWithoutEvents(n) PROVE ContentInv'
  <2>1. chains' = chains /\ content' = [content EXCEPT ![n] = WithoutEvents(@)]
    BY <1>2 DEF AddBlockWithoutEvents, Accumulated
  <2>2. PICK k \in chains : content[n] \in {k[n], WithoutEvents(k[n])}
    BY DEF ContentInv
  <2>3. WithoutEvents(WithoutEvents(k[n])) = WithoutEvents(k[n])
    BY DEF WithoutEvents
  <2>4. content'[n] = WithoutEvents(k[n])
    BY <2>1, <2>2, <2>3 DEF ContentInv
  <2>5. \A m \in Blocks \ {n} : content'[m] = content[m]
    BY <2>1 DEF ContentInv
  <2>6. DOMAIN content' = Blocks
    BY <2>1 DEF ContentInv
  <2>7. ASSUME NEW m \in Blocks
        PROVE  \E l \in chains : content'[m] \in {l[m], WithoutEvents(l[m])}
    BY <2>4, <2>5 DEF ContentInv
  <2>8. QED  BY <2>1, <2>6, <2>7 DEF ContentInv
<1>3. ASSUME NEW n \in Blocks, RemoveBlock(n) PROVE ContentInv'
  <2>1. PICK k \in chains : content' = [content EXCEPT ![n] = k[n]]
    BY <1>3 DEF RemoveBlock
  <2>2. chains' = chains
    BY <1>3 DEF RemoveBlock
  <2>3. content'[n] = k[n] /\ \A m \in Blocks \ {n} : content'[m] = content[m]
    BY <2>1 DEF ContentInv
  <2>4. DOMAIN content' = Blocks
    BY <2>1 DEF ContentInv
  <2>5. ASSUME NEW m \in Blocks
        PROVE  \E l \in chains : content'[m] \in {l[m], WithoutEvents(l[m])}
    BY <2>3 DEF ContentInv
  <2>6. QED  BY <2>2, <2>4, <2>5 DEF ContentInv
<1>4. ASSUME NEW n \in Blocks, AddBlock(n) PROVE UNCHANGED <<chains, content>>
  BY <1>4 DEF AddBlock, Accumulated
<1>5. ASSUME NEW n \in Blocks, RefusedBlock(n) PROVE UNCHANGED <<chains, content>>
  BY <1>5 DEF RefusedBlock
<1>6. ASSUME NEW n \in Blocks, CreateFullSnapshot(n) PROVE UNCHANGED <<chains, content>>
  BY <1>6 DEF CreateFullSnapshot
<1>7. TruncateIndex \/ ListBlocks \/ RebuildBlock \/ KillRebuild => UNCHANGED <<chains, content>>
  BY DEF TruncateIndex, ListBlocks, RebuildBlock, KillRebuild
<1>8. vars2' = vars2 => UNCHANGED <<chains, content>>
  BY Zenon DEF vars2
<1>9. QED  BY <1>1, <1>2, <1>3, <1>4, <1>5, <1>6, <1>7, <1>8 DEF AccumulationNext

------------------------------------------------------------------------------
(* Isolated, of any tables t, blocks at the numbers and numbers harvested. *)

IsolatedIn(t, at, hs) ==
  /\ HasTables(t) /\ t.fresh = {} /\ t.gone = {}
  /\ \A f \in OwnTables : t[f] = UNION {WithBlock(NoTables, n, at[n])[f] : n \in hs}
  /\ t.blocks = [n \in hs |-> WithBlock(NoTables, n, at[n]).blocks[n]]

\* The blocks a step leaves are the same; the one that comes in is c.
Agree(at, other, hs) == \A m \in hs : at[m] = other[m]

LEMMA AddsIsolated ==
  ASSUME NEW t, NEW at, NEW hs, IsolatedIn(t, at, hs),
         NEW n, n \notin hs, NEW c, IsBlock(c), OneBlockEach(t, n, c),
         NEW other, Agree(at, other, hs), other[n] = c
  PROVE  IsolatedIn(WithBlock(t, n, c), other, hs \cup {n})
<1> DEFINE v == WithBlock(t, n, c)
           v0 == WithBlock(NoTables, n, c)
           row == BlockRow(Gathered(NoTables, n, c), n, c)
<1>1. IsList(c.events) /\ IsList(c.extrinsics)
  BY DEF IsBlock
<1>2. HasTables(t) /\ t.fresh = {} /\ t.gone = {}
  BY DEF IsolatedIn
<1>3. BlockAdded(v, t, v0, n, c)
  BY <1>1, <1>2, AddsBlock
<1>4. v.participants = t.participants \cup v0.participants
  BY <1>1, <1>2, AddsParticipants
<1>5. BlockAdded(v0, NoTables, v0, n, c)
  BY <1>1, NoTablesAreTables, AddsBlock DEF NoTables
<1> HIDE DEF v, v0, row
<1>6. ASSUME NEW f \in OwnTables PROVE v[f] = t[f] \cup v0[f]
  <2>1. CASE f = "participants"
    BY <1>4, <2>1
  <2>2. CASE f # "participants"
    <3>1. f \in AddedTables
      BY <2>2 DEF OwnTables, RevertedTables, AddedTables, GrownTables, HookTables
    <3>2. QED  BY <1>3, <3>1 DEF BlockAdded
  <2>3. QED  BY <2>1, <2>2
<1>7. ASSUME NEW f \in OwnTables
      PROVE  v[f] = UNION {WithBlock(NoTables, m, other[m])[f] : m \in hs \cup {n}}
  <2> DEFINE A == {WithBlock(NoTables, m, at[m])[f] : m \in hs}
             B == {WithBlock(NoTables, m, other[m])[f] : m \in hs}
             C == {WithBlock(NoTables, m, other[m])[f] : m \in hs \cup {n}}
  <2>1. t[f] = UNION A
    BY DEF IsolatedIn
  <2>2. A = B
    BY DEF Agree
  <2>3. C = B \cup {v0[f]}
    BY DEF v0
  <2> HIDE DEF A, B, C
  <2>4. UNION C = (UNION B) \cup v0[f]
    BY <2>3
  <2>5. v[f] = UNION C
    BY <1>6, <2>1, <2>2, <2>4
  <2>6. QED  BY <2>5 DEF C
<1>8. v.blocks = Put(t.blocks, n, row) /\ v0.blocks = Put(NoTables.blocks, n, row)
  BY <1>3, <1>5 DEF BlockAdded, row
<1>9. v0.blocks[n] = row
  BY <1>8 DEF Put
<1>10. v.blocks = [m \in hs \cup {n} |-> WithBlock(NoTables, m, other[m]).blocks[m]]
  <2>1. t.blocks = [m \in hs |-> WithBlock(NoTables, m, at[m]).blocks[m]]
    BY DEF IsolatedIn
  <2>2. \A m \in hs : WithBlock(NoTables, m, other[m]).blocks[m] = t.blocks[m]
    BY <2>1 DEF Agree
  <2>3. WithBlock(NoTables, n, other[n]).blocks[n] = row
    BY <1>9 DEF v0
  <2>4. DOMAIN t.blocks = hs
    BY <2>1
  <2>5. v.blocks = [m \in hs \cup {n} |-> IF m = n THEN row ELSE t.blocks[m]]
    BY <1>8, <2>4 DEF Put
  <2>6. QED  BY <2>2, <2>3, <2>5
<1>11. IsolatedIn(v, other, hs \cup {n})
  BY <1>3, <1>7, <1>10 DEF IsolatedIn, BlockAdded
<1>12. QED  BY <1>11 DEF v

\* The rows of a block among those of all harvested blocks.
LEMMA RowsAmong ==
  ASSUME NEW t, NEW at, NEW hs, IsolatedIn(t, at, hs),
         \A m \in hs : IsBlock(at[m]), NEW n \in hs
  PROVE  /\ {r \in t.events : r[1] = n} = EventRows(n, at[n])
         /\ {r \in t.extrinsics : r[1] = n} = CallRows(n, at[n])
         /\ {r \in t.logs : r[1] = n} = LogRows(n, at[n])
         /\ \A f \in RevertedTables :
              {r \in t[f] : r[1] = n} = WithBlock(NoTables, n, at[n])[f]
<1> DEFINE alone(m) == WithBlock(NoTables, m, at[m])
<1>1. \A m \in hs : RowsOf(alone(m), m, at[m])
  BY AddsOwnRows DEF IsBlock
<1> HIDE DEF alone
<1>2. \A f \in OwnTables : t[f] = UNION {alone(m)[f] : m \in hs}
  BY DEF IsolatedIn, alone
<1>3. ASSUME NEW f \in OwnTables, \A m \in hs : \A r \in alone(m)[f] : r[1] = m
      PROVE  {r \in t[f] : r[1] = n} = alone(n)[f]
  BY <1>2, <1>3
<1>4. \A m \in hs : \A r \in alone(m).events : r[1] = m
  BY <1>1 DEF RowsOf, EventRows
<1>5. \A m \in hs : \A r \in alone(m).extrinsics : r[1] = m
  BY <1>1 DEF RowsOf, CallRows, CallRow
<1>6. \A m \in hs : \A r \in alone(m).logs : r[1] = m
  BY <1>1 DEF RowsOf, LogRows
<1>7. \A m \in hs : \A f \in RevertedTables : \A r \in alone(m)[f] : r[1] = m
  BY <1>1 DEF RowsOf, Owned
<1>8. {r \in t.events : r[1] = n} = alone(n).events
  BY <1>3, <1>4 DEF OwnTables
<1>9. {r \in t.extrinsics : r[1] = n} = alone(n).extrinsics
  BY <1>3, <1>5 DEF OwnTables
<1>10. {r \in t.logs : r[1] = n} = alone(n).logs
  BY <1>3, <1>6 DEF OwnTables
<1>11. \A f \in RevertedTables : {r \in t[f] : r[1] = n} = alone(n)[f]
  BY <1>3, <1>7 DEF OwnTables
<1>12. /\ alone(n).events = EventRows(n, at[n])
       /\ alone(n).extrinsics = CallRows(n, at[n])
       /\ alone(n).logs = LogRows(n, at[n])
  BY <1>1 DEF RowsOf
<1>13. QED  BY <1>8, <1>9, <1>10, <1>11, <1>12 DEF alone

LEMMA ArchivedKeeps ==
  ASSUME NEW t, HasTables(t), NEW n
  PROVE  /\ HasTables(Archived(t, n))
         /\ \A f \in TableNames \ {"reorg"} : Archived(t, n)[f] = t[f]
BY DEF Archived, HasTables, TableNames

LEMMA SameTablesIsolated ==
  ASSUME NEW t, NEW at, NEW hs, IsolatedIn(t, at, hs), NEW u, HasTables(u),
         \A f \in TableNames \ {"reorg", "index", "snapshots"} : u[f] = t[f]
  PROVE  IsolatedIn(u, at, hs)
<1>1. /\ u.fresh = t.fresh /\ u.gone = t.gone /\ u.blocks = t.blocks
      /\ \A f \in OwnTables : u[f] = t[f]
  BY DEF TableNames, OwnTables, RevertedTables
<1>2. QED  BY <1>1 DEF IsolatedIn

\* The events that are stored of a block, and what they have written.
LEMMA StoredEvents ==
  ASSUME NEW t, NEW at, NEW hs, IsolatedIn(t, at, hs),
         \A m \in hs : IsBlock(at[m]), NEW n \in hs
  PROVE  /\ IsFiniteSet(EventsOf(t, n))
         /\ \A f \in RevertedTables : \A r \in t[f] :
              r[1] = n => \E e \in EventsOf(t, n) : e.kind \in RevertKinds[f]
<1> DEFINE c == at[n]
           v0 == WithBlock(NoTables, n, c)
           S == DOMAIN c.events
<1>1. EventsOf(t, n) = {c.events[i] : i \in S}
  <2>1. {r \in t.events : r[1] = n} = EventRows(n, c)
    BY RowsAmong
  <2>2. EventsOf(t, n) = {r[3] : r \in EventRows(n, c)}
    BY <2>1 DEF EventsOf
  <2>3. \A i : <<n, i, c.events[i]>>[3] = c.events[i]
    OBVIOUS
  <2>4. \A i \in S : c.events[i] \in EventsOf(t, n)
    BY <2>2, <2>3 DEF EventRows
  <2>5. \A e \in EventsOf(t, n) : \E i \in S : e = c.events[i]
    BY <2>2 DEF EventRows
  <2>6. QED  BY <2>4, <2>5
<1>2. IsFiniteSet({c.events[i] : i \in S})
  <2> DEFINE T == {c.events[i] : i \in S}
             f == [i \in S |-> c.events[i]]
  <2>1. IsFiniteSet(S)
    BY ListDomain DEF IsBlock
  <2>2. f \in Surjection(S, T)
    BY DEF Surjection
  <2> HIDE DEF S, T, f
  <2>3. IsFiniteSet(T)
    BY <2>1, <2>2, FS_Surjection
  <2>4. QED  BY <2>3 DEF T
<1>3. RowsOf(v0, n, c)
  BY AddsOwnRows DEF IsBlock
<1>4. ASSUME NEW f \in RevertedTables, NEW r \in t[f], r[1] = n
      PROVE  \E e \in EventsOf(t, n) : e.kind \in RevertKinds[f]
  <2>1. r \in v0[f]
    BY <1>4, RowsAmong
  <2> HIDE DEF v0
  <2>2. \E i \in S : c.events[i].kind \in RevertKinds[f]
    BY <1>3, <2>1 DEF RowsOf, Owned
  <2>3. QED  BY <1>1, <2>2
<1>5. QED  BY <1>1, <1>2, <1>4

LEMMA TakesIsolated ==
  ASSUME NEW t, NEW at, NEW hs, IsolatedIn(t, at, hs),
         \A m \in hs : IsBlock(at[m]), NEW n \in hs,
         NEW other, Agree(at, other, hs \ {n})
  PROVE  IsolatedIn(WithoutBlock(t, n), other, hs \ {n})
<1> DEFINE v == WithoutBlock(t, n)
           alone(m) == WithBlock(NoTables, m, at[m])
           others(m) == WithBlock(NoTables, m, other[m])
<1>1. HasTables(t) /\ t.fresh = {} /\ t.gone = {}
  BY DEF IsolatedIn
<1>2. BlockTaken(v, t, n)
  BY <1>1, StoredEvents, TakesBlock
<1>3. \A m \in hs : RowsOf(alone(m), m, at[m])
  BY AddsOwnRows DEF IsBlock
<1>4. /\ \A f \in OwnTables : t[f] = UNION {alone(m)[f] : m \in hs}
      /\ t.blocks = [m \in hs |-> alone(m).blocks[m]]
  BY DEF IsolatedIn
<1>5. \A m \in hs \ {n} : others(m) = alone(m)
  BY DEF Agree
<1> HIDE DEF v, alone, others
<1>6. ASSUME NEW f \in OwnTables PROVE \A m \in hs : \A r \in alone(m)[f] : r[1] = m
  <2>1. CASE f \in RevertedTables
    BY <1>3, <2>1 DEF RowsOf, Owned
  <2>2. CASE f = "events"
    BY <1>3, <2>2 DEF RowsOf, EventRows
  <2>3. CASE f = "extrinsics"
    BY <1>3, <2>3 DEF RowsOf, CallRows, CallRow
  <2>4. CASE f = "logs"
    BY <1>3, <2>4 DEF RowsOf, LogRows
  <2>5. QED  BY <2>1, <2>2, <2>3, <2>4 DEF OwnTables
<1>7. ASSUME NEW f \in OwnTables PROVE v[f] = UNION {others(m)[f] : m \in hs \ {n}}
  <2>1. v[f] = NotOf(t[f], n)
    BY <1>2 DEF BlockTaken
  <2> DEFINE A == {alone(m)[f] : m \in hs}
             B == {alone(m)[f] : m \in hs \ {n}}
             C == {others(m)[f] : m \in hs \ {n}}
  <2>2. C = B
    BY <1>5
  <2>3. \A r \in UNION A : r[1] # n => r \in UNION B
    BY <1>6
  <2>4. \A r \in UNION B : r \in UNION A /\ r[1] # n
    BY <1>6
  <2>5. t[f] = UNION A
    BY <1>4
  <2> HIDE DEF A, B, C
  <2>6. NotOf(t[f], n) = UNION B
    BY <2>3, <2>4, <2>5 DEF NotOf
  <2>7. v[f] = UNION C
    BY <2>1, <2>2, <2>6
  <2>8. QED  BY <2>7 DEF C
<1>8. v.blocks = [m \in hs \ {n} |-> others(m).blocks[m]]
  <2>1. v.blocks = [m \in DOMAIN t.blocks \ {n} |-> t.blocks[m]]
    BY <1>2 DEF BlockTaken, Without
  <2>2. \A m \in hs \ {n} : t.blocks[m] = others(m).blocks[m]
    BY <1>4, <1>5
  <2>3. DOMAIN t.blocks = hs
    BY <1>4
  <2>4. QED  BY <2>1, <2>2, <2>3
<1>9. HasTables(v) /\ v.fresh = {} /\ v.gone = {}
  BY <1>1, <1>2 DEF BlockTaken
<1>10. IsolatedIn(v, other, hs \ {n})
  BY <1>7, <1>8, <1>9 DEF IsolatedIn, others
<1>11. QED  BY <1>10 DEF v

\* Nobody takes part in an estimate that a block has him take part in, in a
\* block of another number.
LEMMA TakePartInOneBlock ==
  ASSUME ContentInv, IsolatedIn(tables, content, harvested), harvested \subseteq Blocks,
         NEW n \in Blocks, NEW c \in {content[n], WithoutEvents(content[n])}
  PROVE  OneBlockEach(tables, n, c)
<1>1. \A m \in Blocks : IsBlock(content[m])
  BY ContentIsBlocks
<1>2. CASE c = WithoutEvents(content[n])
  <2>1. DOMAIN c.events = {}
    BY <1>1, <1>2, WithoutEventsIsBlock
  <2>2. QED  BY <2>1 DEF OneBlockEach
<1>3. CASE c = content[n]
  <2> SUFFICES ASSUME NEW i \in DOMAIN c.events, TakesPart(c.events[i]),
                      NEW p \in tables.participants,
                      p[2] = c.events[i].estimate, p[3] = c.events[i].account
               PROVE  p = <<n, c.events[i].estimate, c.events[i].account>>
    BY DEF OneBlockEach
  <2> DEFINE e == c.events[i]
             alone(m) == WithBlock(NoTables, m, content[m])
  <2>1. PICK m \in harvested : p \in alone(m).participants
    BY DEF IsolatedIn, OwnTables, RevertedTables
  <2>2. m \in Blocks
    BY <2>1
  <2>3. RowsOf(alone(m), m, content[m])
    BY <1>1, <2>2, AddsOwnRows DEF IsBlock
  <2> HIDE DEF alone
  <2>4. PICK j \in DOMAIN content[m].events :
               LET d == content[m].events[j]
               IN TakesPart(d) /\ p = <<m, d.estimate, d.account>>
    BY <2>1, <2>3 DEF RowsOf, Owned
  <2> DEFINE d == content[m].events[j]
  <2>5. PICK k \in chains : content[m] \in {k[m], WithoutEvents(k[m])}
    BY <2>2 DEF ContentInv
  <2>6. PICK l \in chains : content[n] \in {l[n], WithoutEvents(l[n])}
    BY DEF ContentInv
  <2>7. \A x \in {k[m], l[n]} : IsBlock(x)
    BY <2>2, AccumulationAssumption DEF AccumulationAssumption, ContentInv
  <2>8. content[m] = k[m]
    <3>1. content[m] = WithoutEvents(k[m]) => DOMAIN content[m].events = {}
      BY <2>7, WithoutEventsIsBlock
    <3>2. QED  BY <2>4, <2>5, <3>1
  <2>9. content[n] = l[n]
    <3>1. content[n] = WithoutEvents(l[n]) => DOMAIN content[n].events = {}
      BY <2>7, WithoutEventsIsBlock
    <3>2. QED  BY <1>3, <2>6, <3>1
  <2>10. /\ d = k[m].events[j] /\ e = l[n].events[i]
         /\ j \in DOMAIN k[m].events /\ i \in DOMAIN l[n].events
    BY <1>3, <2>8, <2>9
  <2>11. d.estimate = e.estimate /\ d.account = e.account /\ TakesPart(d) /\ TakesPart(e)
    BY <2>4
  <2>12. chains \in Themes
    BY DEF ContentInv
  <2> HIDE DEF d, e
  <2>13. m = n
    BY <2>2, <2>10, <2>11, <2>12, ParticipationAssumption DEF ParticipationAssumption
  <2>14. QED  BY <2>4, <2>13 DEF d
<1>4. QED  BY <1>2, <1>3

------------------------------------------------------------------------------
(* The tables of rows of a block's own.                                      *)

TablesInv ==
  /\ ChainInv
  /\ ContentInv
  /\ IsolatedIn(tables, content, harvested)

LEMMA InitTables == AccumulationInit => TablesInv
<1> SUFFICES ASSUME AccumulationInit PROVE TablesInv
  OBVIOUS
<1>1. tables = NoTables /\ harvested = {} /\ Init
  BY DEF AccumulationInit, Init
<1>2. ChainInv /\ ContentInv
  BY <1>1, InitChain, InitContent
<1>3. IsolatedIn(NoTables, content, {})
  <2>1. \A f \in OwnTables : NoTables[f] = {}
    BY DEF OwnTables, RevertedTables, NoTables
  <2>2. \A f \in OwnTables : NoTables[f] = UNION {WithBlock(NoTables, n, content[n])[f] : n \in {}}
    BY <2>1
  <2>3. NoTables.blocks = [n \in {} |-> WithBlock(NoTables, n, content[n]).blocks[n]]
    BY DEF NoTables, NoRows
  <2>4. NoTables.fresh = {} /\ NoTables.gone = {}
    BY DEF NoTables
  <2>5. QED  BY <2>2, <2>3, <2>4, NoTablesAreTables DEF IsolatedIn
<1>4. QED  BY <1>1, <1>2, <1>3 DEF TablesInv

\* A block that comes in is added to the tables and to those harvested; it is the
\* one at its number, or that one without its events.
Added(n, c) ==
  /\ n \notin harvested
  /\ harvested' = harvested \cup {n}
  /\ removals' = removals
  /\ tables' = WithBlock(tables, n, c)
  /\ c \in {content[n], WithoutEvents(content[n])}
  /\ content'[n] = c /\ \A m \in Blocks \ {n} : content'[m] = content[m]
  /\ upward' = (upward /\ \A m \in harvested : m < n)
  /\ between' = IF listing THEN between \cup {n} ELSE between
  /\ UNCHANGED <<chains, listing, todo, partial, rebuilds>>

Removed(n) ==
  /\ n \in harvested
  /\ harvested' = harvested \ {n}
  /\ removals' = removals + 1
  /\ tables' = TakenOut(n)
  /\ \A m \in Blocks \ {n} : content'[m] = content[m]
  /\ UNCHANGED <<chains, listing, between, todo, partial, rebuilds>>

\* Nothing else happens to the blocks.
BlocksStay == UNCHANGED <<harvested, removals, chains, content, upward>>

RebuildStays == UNCHANGED <<listing, between, todo, partial, rebuilds>>

\* A full snapshot writes nothing but snapshots of its block.
FullTaken(n) ==
  /\ BlocksStay /\ RebuildStays
  /\ n \in updates
  /\ \E hash : tables' = Snapshotted(tables, n, Holders, hash)

Refused == BlocksStay /\ tables' = tables /\ RebuildStays

\* The steps by what they do to the blocks and the tables.
LEMMA StepsAre ==
  ASSUME ContentInv, [AccumulationNext]_vars2
  PROVE  \/ \E n \in Blocks : \E c : Added(n, c)
         \/ \E n \in Blocks : Removed(n)
         \/ \E n \in Blocks : FullTaken(n)
         \/ TruncateIndex /\ BlocksStay
         \/ ListBlocks /\ BlocksStay
         \/ RebuildBlock /\ BlocksStay
         \/ KillRebuild /\ BlocksStay
         \/ Refused
<1>1. ASSUME NEW n \in Blocks, AddBlock(n) PROVE Added(n, content[n])
  BY <1>1 DEF AddBlock, Accumulated, Harvest, Added
<1>2. ASSUME NEW n \in Blocks, AddBlockWithoutEvents(n)
      PROVE  Added(n, WithoutEvents(content[n]))
  BY <1>2 DEF AddBlockWithoutEvents, Accumulated, Harvest, Added, ContentInv
<1>3. ASSUME NEW n \in Blocks, RefusedBlock(n) PROVE Refused
  BY <1>3 DEF RefusedBlock, Refused, BlocksStay, RebuildStays, vars, rebuildVars
<1>4. ASSUME NEW n \in Blocks, RemoveBlock(n) PROVE Removed(n)
  BY <1>4 DEF RemoveBlock, RemoveRows, Removed, ContentInv, rebuildVars
<1>5. ASSUME NEW n \in Blocks, CreateFullSnapshot(n) PROVE FullTaken(n)
  BY <1>5 DEF CreateFullSnapshot, FullTaken, BlocksStay, RebuildStays, vars, rebuildVars
<1>6. TruncateIndex => BlocksStay
  BY DEF TruncateIndex, BlocksStay, vars
<1>7. ListBlocks => BlocksStay
  BY DEF ListBlocks, BlocksStay, vars
<1>8. RebuildBlock => BlocksStay
  BY DEF RebuildBlock, BlocksStay, vars
<1>9. KillRebuild => BlocksStay
  BY DEF KillRebuild, BlocksStay, vars
<1>10. CASE vars2' = vars2
  <2>1. /\ vars' = vars /\ chains' = chains /\ content' = content /\ tables' = tables
        /\ rebuildVars' = rebuildVars /\ upward' = upward
    BY <1>10, Zenon DEF vars2
  <2>2. RebuildStays
    BY <2>1, Zenon DEF RebuildStays, rebuildVars
  <2>3. QED  BY <2>1, <2>2 DEF Refused, BlocksStay, vars
<1>11. QED
  BY <1>1, <1>2, <1>3, <1>4, <1>5, <1>6, <1>7, <1>8, <1>9, <1>10 DEF AccumulationNext

\* A block that has been taken out by then has nothing to index.
LEMMA RebuildsNothing ==
  ASSUME NEW t, HasTables(t), NEW n,
         {r \in t.extrinsics : r[1] = n} = {}, {r \in t.events : r[1] = n} = {}
  PROVE  SameButIndex(Reindexed(t, n), t) /\ AddsOnly(Reindexed(t, n).index, t.index, {})
<1> DEFINE c == [hash |-> 0, spec |-> 0, parentSpec |-> 0, events |-> <<>>, extrinsics |-> <<>>,
                 time |-> 0, logs |-> <<>>]
<1>1. c.events = <<>> /\ c.extrinsics = <<>> /\ c.logs = <<>>
      /\ DOMAIN c = {"hash", "spec", "parentSpec", "events", "extrinsics", "time", "logs"}
  OBVIOUS
<1> HIDE DEF c
<1>2. DOMAIN c.events = {} /\ DOMAIN c.extrinsics = {}
  BY <1>1
<1>3. IsBlock(c)
  BY <1>1, <1>2, AreLists DEF IsBlock, SignersKnown
<1>4. CallRows(n, c) = {} /\ EventRows(n, c) = {} /\ Slots(c) = {}
  BY <1>2 DEF CallRows, EventRows, Slots
<1>5. SameButIndex(Reindexed(t, n), t) /\ IndexedOver(Reindexed(t, n).index, t.index, n, c, {})
  <2>1. {r \in t.extrinsics : r[1] = n} = CallRows(n, c) /\ {r \in t.events : r[1] = n} = EventRows(n, c)
    BY <1>4
  <2>2. QED  BY <1>3, <1>4, <2>1, RebuildsIndex
<1>6. KeysOf(n, c, {}) = {}
  BY DEF KeysOf
<1>7. QED  BY <1>5, <1>6 DEF IndexedOver

LEMMA NoRowsAmong ==
  ASSUME NEW t, NEW at, NEW hs, IsolatedIn(t, at, hs),
         \A m \in hs : IsBlock(at[m]), NEW n, n \notin hs
  PROVE  {r \in t.extrinsics : r[1] = n} = {} /\ {r \in t.events : r[1] = n} = {}
<1> DEFINE alone(m) == WithBlock(NoTables, m, at[m])
<1>1. \A m \in hs : RowsOf(alone(m), m, at[m])
  BY AddsOwnRows DEF IsBlock
<1> HIDE DEF alone
<1>2. /\ t.extrinsics = UNION {alone(m).extrinsics : m \in hs}
      /\ t.events = UNION {alone(m).events : m \in hs}
  BY DEF IsolatedIn, alone, OwnTables
<1>3. \A m \in hs : \A r \in alone(m).events : r[1] = m
  BY <1>1 DEF RowsOf, EventRows
<1>4. \A m \in hs : \A r \in alone(m).extrinsics : r[1] = m
  BY <1>1 DEF RowsOf, CallRows, CallRow
<1>5. QED  BY <1>2, <1>3, <1>4

LEMMA ReindexesOnly ==
  ASSUME TablesInv, NEW n
  PROVE  /\ SameButIndex(Reindexed(tables, n), tables)
         /\ n \in harvested =>
              IndexedOver(Reindexed(tables, n).index, tables.index, n, content[n], Slots(content[n]))
         /\ n \notin harvested => AddsOnly(Reindexed(tables, n).index, tables.index, {})
<1>1. \A m \in harvested : IsBlock(content[m])
  BY ContentIsBlocks DEF TablesInv, ChainInv
<1>2. HasTables(tables) /\ IsolatedIn(tables, content, harvested)
  BY DEF TablesInv, IsolatedIn
<1>3. CASE n \in harvested
  BY <1>1, <1>2, <1>3, RowsAmong, RebuildsIndex
<1>4. CASE n \notin harvested
  BY <1>1, <1>2, <1>4, NoRowsAmong, RebuildsNothing
<1>5. QED  BY <1>3, <1>4

LEMMA FullSnapshotKeeps ==
  ASSUME HasTables(tables), NEW n, FullTaken(n)
  PROVE  /\ HasTables(tables')
         /\ \A f \in TableNames \ {"snapshots"} : tables'[f] = tables[f]
BY DEF FullTaken, Snapshotted, HasTables, TableNames

LEMMA StepTables == TablesInv /\ [AccumulationNext]_vars2 => TablesInv'
<1> SUFFICES ASSUME TablesInv, [AccumulationNext]_vars2 PROVE TablesInv'
  OBVIOUS
<1> USE DEF TablesInv
<1>1. ChainInv'
  <2>1. vars2' = vars2 => vars' = vars
    BY Zenon DEF vars2
  <2>2. QED  BY <2>1, StepReminders, StepChain
<1>2. ContentInv'
  BY StepContent
<1>3. harvested \subseteq Blocks /\ \A m \in Blocks : IsBlock(content[m])
  BY ContentIsBlocks DEF ChainInv
<1>4. HasTables(tables)
  BY DEF IsolatedIn
<1>5. ASSUME NEW n \in Blocks, NEW c, Added(n, c)
      PROVE  IsolatedIn(tables', content', harvested')
  <2>1. Agree(content, content', harvested) /\ content'[n] = c
    BY <1>3, <1>5 DEF Agree, Added
  <2>2. IsBlock(c)
    BY <1>3, <1>5, WithoutEventsIsBlock DEF Added
  <2>3. OneBlockEach(tables, n, c)
    BY <1>3, <1>5, TakePartInOneBlock DEF Added
  <2>4. QED  BY <1>5, <2>1, <2>2, <2>3, AddsIsolated DEF Added
<1>6. ASSUME NEW n \in Blocks, Removed(n)
      PROVE  IsolatedIn(tables', content', harvested')
  <2> DEFINE t == Archived(tables, n)
  <2>1. IsolatedIn(t, content, harvested)
    <3>1. HasTables(t) /\ \A f \in TableNames \ {"reorg"} : t[f] = tables[f]
      BY <1>4, ArchivedKeeps
    <3>2. QED  BY <3>1, SameTablesIsolated
  <2>2. Agree(content, content', harvested \ {n})
    BY <1>3, <1>6 DEF Agree, Removed
  <2>3. tables' = WithoutBlock(t, n)
    BY <1>6 DEF Removed, TakenOut
  <2> HIDE DEF t
  <2>4. QED  BY <1>3, <1>6, <2>1, <2>2, <2>3, TakesIsolated DEF Removed
<1>7. ASSUME BlocksStay, SameButIndex(tables', tables)
      PROVE  IsolatedIn(tables', content', harvested')
  <2>1. HasTables(tables') /\ \A f \in TableNames \ {"reorg", "index", "snapshots"} : tables'[f] = tables[f]
    BY <1>7 DEF SameButIndex
  <2>2. QED  BY <1>7, <2>1, SameTablesIsolated DEF BlocksStay
<1>8. CASE TruncateIndex /\ BlocksStay
  <2>1. SameButIndex(tables', tables)
    BY <1>4, <1>8 DEF TruncateIndex, SameButIndex, HasTables, TableNames
  <2>2. QED  BY <1>1, <1>2, <1>7, <1>8, <2>1
<1>9. CASE RebuildBlock /\ BlocksStay
  <2>1. SameButIndex(tables', tables)
    BY <1>9, ReindexesOnly DEF RebuildBlock
  <2>2. QED  BY <1>1, <1>2, <1>7, <1>9, <2>1
<1>10. ASSUME tables' = tables, BlocksStay PROVE TablesInv'
  BY <1>1, <1>2, <1>10 DEF BlocksStay
<1>11. KillRebuild \/ ListBlocks => tables' = tables
  BY DEF KillRebuild, ListBlocks
<1>12. ASSUME NEW n \in Blocks, FullTaken(n) PROVE TablesInv'
  <2>1. /\ HasTables(tables')
        /\ \A f \in TableNames \ {"snapshots"} : tables'[f] = tables[f]
    BY <1>4, <1>12, FullSnapshotKeeps
  <2>2. IsolatedIn(tables', content, harvested)
    BY <2>1, SameTablesIsolated
  <2>3. QED  BY <1>1, <1>2, <1>12, <2>2 DEF FullTaken, BlocksStay
<1>13. QED
  BY <1>1, <1>2, <1>5, <1>6, <1>8, <1>9, <1>10, <1>11, <1>12, StepsAre DEF Refused

LEMMA TablesInvariant == AccumulationSpec => []TablesInv
<1>1. AccumulationInit => TablesInv
  BY InitTables
<1>2. TablesInv /\ [AccumulationNext]_vars2 => TablesInv'
  BY StepTables
<1>3. QED  BY <1>1, <1>2, PTL DEF AccumulationSpec

\* Whatever order blocks come in in, go and come back, the tables of a block's
\* own rows hold what each harvested block would have written alone.
THEOREM BlocksIsolated == AccumulationSpec => []Isolated
<1>1. AccumulationSpec => []TablesInv
  BY TablesInvariant
<1>2. TablesInv => Isolated
  <2> SUFFICES ASSUME TablesInv PROVE Isolated
    OBVIOUS
  <2> DEFINE alone == [n \in harvested |-> Alone(n)]
  <2>1. \A n \in harvested : alone[n] = WithBlock(NoTables, n, content[n])
    BY DEF Alone
  <2>2. ASSUME NEW f \in IsolatedTables
        PROVE  tables[f] = UNION {alone[n][f] : n \in harvested}
    <3>1. f \in OwnTables
      BY DEF IsolatedTables, OwnTables, RevertedTables
    <3>2. tables[f] = UNION {WithBlock(NoTables, n, content[n])[f] : n \in harvested}
      BY <3>1 DEF TablesInv, IsolatedIn
    <3>3. {WithBlock(NoTables, n, content[n])[f] : n \in harvested} = {alone[n][f] : n \in harvested}
      BY <2>1
    <3>4. QED  BY <3>2, <3>3
  <2>3. tables.blocks = [n \in harvested |-> alone[n].blocks[n]]
    BY <2>1 DEF TablesInv, IsolatedIn
  <2>4. QED  BY <2>2, <2>3 DEF Isolated
<1>3. QED  BY <1>1, <1>2, PTL

------------------------------------------------------------------------------
(* Balance snapshots.                                                        *)

\* What the steps do to the tables.
LEMMA AddedDoes ==
  ASSUME TablesInv, NEW n \in Blocks, NEW c, Added(n, c)
  PROVE  /\ IsBlock(c)
         /\ BlockAdded(tables', tables, WithBlock(NoTables, n, c), n, c)
         /\ IndexedOver(tables'.index, tables.index, n, c, Slots(c))
<1>1. IsBlock(c)
  BY ContentIsBlocks, WithoutEventsIsBlock DEF TablesInv, Added
<1>2. HasTables(tables) /\ tables.fresh = {} /\ tables.gone = {}
  BY DEF TablesInv, IsolatedIn
<1>3. tables' = WithBlock(tables, n, c)
  BY DEF Added
<1>4. IsList(c.events) /\ IsList(c.extrinsics)
  BY <1>1 DEF IsBlock
<1>5. BlockAdded(WithBlock(tables, n, c), tables, WithBlock(NoTables, n, c), n, c)
  BY <1>2, <1>4, AddsBlock
<1>6. IndexedOver(WithBlock(tables, n, c).index, tables.index, n, c, Slots(c))
  BY <1>1, <1>2, AddsIndex
<1>7. QED  BY <1>1, <1>3, <1>5, <1>6

LEMMA RemovedDoes ==
  ASSUME TablesInv, NEW n \in Blocks, Removed(n)
  PROVE  /\ tables'.index = tables.index /\ tables'.snapshots = tables.snapshots
         /\ tables'.reorg = Archived(tables, n).reorg /\ tables'.checks = tables.checks
<1> DEFINE t == Archived(tables, n)
<1>1. HasTables(t) /\ \A f \in TableNames \ {"reorg"} : t[f] = tables[f]
  BY ArchivedKeeps DEF TablesInv, IsolatedIn
<1>2. \A m \in harvested : IsBlock(content[m])
  BY ContentIsBlocks DEF TablesInv, ChainInv
<1>3. IsolatedIn(t, content, harvested)
  BY <1>1, SameTablesIsolated DEF TablesInv
<1>4. n \in harvested /\ tables' = WithoutBlock(t, n)
  BY DEF Removed, TakenOut
<1> HIDE DEF t
<1>5. BlockTaken(tables', t, n)
  BY <1>1, <1>2, <1>3, <1>4, StoredEvents, TakesBlock
<1>6. /\ tables'.index = t.index /\ tables'.snapshots = t.snapshots
      /\ tables'.reorg = t.reorg /\ tables'.checks = t.checks
  BY <1>5 DEF BlockTaken
<1>7. t.index = tables.index /\ t.snapshots = tables.snapshots /\ t.checks = tables.checks
  BY <1>1 DEF TableNames
<1>8. QED  BY <1>6, <1>7 DEF t

\* Every snapshot is of an account that the index has at the block, as long as the
\* index has not been rebuilt and the block is not a full one.
SnapshotsIndexed ==
  rebuilds = 0 =>
    \A key \in DOMAIN tables.snapshots :
      key[1] \notin FullBlocks =>
        key = <<key[1], key[2]>> /\ key[2] \in IndexedAt(tables, key[1])

SnapshotsInv ==
  rebuilds \in Nat /\ updates \subseteq FullBlocks /\ SnapshotsIndexed /\ SnapshotsCurrent

\* The index has more rows than before.
LEMMA IndexGrows ==
  ASSUME NEW t, NEW u, NEW keys, AddsOnly(u.index, t.index, keys)
  PROVE  \A m : IndexedAt(t, m) \subseteq IndexedAt(u, m)
BY DEF AddsOnly, IndexedAt

\* Updates are queued for full blocks only.
LEMMA StepUpdates ==
  updates \subseteq FullBlocks /\ [AccumulationNext]_vars2 => updates' \subseteq FullBlocks
<1> SUFFICES ASSUME updates \subseteq FullBlocks, [AccumulationNext]_vars2
             PROVE  updates' \subseteq FullBlocks
  OBVIOUS
<1>1. ASSUME NEW n, NEW c, Accumulated(n, c) PROVE updates' \subseteq FullBlocks
  BY <1>1 DEF Accumulated, Queued
<1>2. ASSUME NEW n \in Blocks, AddBlock(n) PROVE updates' \subseteq FullBlocks
  BY <1>1, <1>2 DEF AddBlock
<1>3. ASSUME NEW n \in Blocks, AddBlockWithoutEvents(n) PROVE updates' \subseteq FullBlocks
  BY <1>1, <1>3 DEF AddBlockWithoutEvents
<1>4. ASSUME NEW n \in Blocks, RefusedBlock(n) PROVE updates' \subseteq FullBlocks
  BY <1>4 DEF RefusedBlock, Queued
<1>5. ASSUME NEW n \in Blocks, RemoveBlock(n) PROVE updates' = updates
  BY <1>5 DEF RemoveBlock
<1>6. ASSUME NEW n \in Blocks, CreateFullSnapshot(n) PROVE updates' \subseteq FullBlocks
  BY <1>6 DEF CreateFullSnapshot
<1>7. TruncateIndex \/ ListBlocks \/ RebuildBlock \/ KillRebuild => updates' = updates
  BY DEF TruncateIndex, ListBlocks, RebuildBlock, KillRebuild
<1>8. vars2' = vars2 => updates' = updates
  BY Zenon DEF vars2
<1>9. QED  BY <1>2, <1>3, <1>4, <1>5, <1>6, <1>7, <1>8 DEF AccumulationNext

LEMMA StepSnapshots ==
  TablesInv /\ SnapshotsInv /\ [AccumulationNext]_vars2 => SnapshotsInv'
<1> SUFFICES ASSUME TablesInv, SnapshotsInv, [AccumulationNext]_vars2 PROVE SnapshotsInv'
  OBVIOUS
<1>0. updates' \subseteq FullBlocks
  BY StepUpdates DEF SnapshotsInv
<1>1. ASSUME NEW n \in Blocks, NEW c, Added(n, c) PROVE SnapshotsInv'
  <2> SUFFICES ASSUME rebuilds = 0, NEW key \in DOMAIN tables'.snapshots, key[1] \notin FullBlocks
               PROVE  /\ key = <<key[1], key[2]>> /\ key[2] \in IndexedAt(tables', key[1])
                      /\ key[1] \in harvested' => tables'.snapshots[key] = content'[key[1]].hash
    BY <1>0, <1>1 DEF SnapshotsInv, SnapshotsIndexed, SnapshotsCurrent, Added
  <2> DEFINE new == IF n \in FullBlocks THEN {} ELSE {<<n, a>> : a \in IndexedAt(tables', n)}
  <2>1. /\ BlockAdded(tables', tables, WithBlock(NoTables, n, c), n, c)
        /\ IndexedOver(tables'.index, tables.index, n, c, Slots(c))
    BY <1>1, AddedDoes
  <2>2. /\ DOMAIN tables'.snapshots \subseteq DOMAIN tables.snapshots \cup new
        /\ \A k \in DOMAIN tables'.snapshots :
             tables'.snapshots[k] = IF k \in new THEN c.hash ELSE tables.snapshots[k]
    <3>1. CASE n \in FullBlocks
      BY <2>1, <3>1 DEF BlockAdded, Snapshots
    <3>2. CASE n \notin FullBlocks
      BY <2>1, <3>2 DEF BlockAdded, Snapshots
    <3>3. QED  BY <3>1, <3>2
  <2>3. \A m : IndexedAt(tables, m) \subseteq IndexedAt(tables', m)
    BY <2>1, IndexGrows DEF IndexedOver
  <2>4. CASE key \in new
    <3>1. key[1] = n /\ key[2] \in IndexedAt(tables', n) /\ key = <<key[1], key[2]>>
      BY <2>4
    <3>2. tables'.snapshots[key] = c.hash
      BY <2>2, <2>4
    <3>3. content'[n] = c
      BY <1>1 DEF Added
    <3>4. QED  BY <3>1, <3>2, <3>3
  <2>5. CASE key \notin new
    <3>1. key \in DOMAIN tables.snapshots /\ tables'.snapshots[key] = tables.snapshots[key]
      BY <2>2, <2>5
    <3>2. key = <<key[1], key[2]>> /\ key[2] \in IndexedAt(tables, key[1])
      BY <3>1 DEF SnapshotsInv, SnapshotsIndexed
    <3>3. key[1] # n
      <4>1. CASE key[1] = n
        <5>1. key[2] \in IndexedAt(tables', n)
          BY <2>3, <3>2, <4>1
        <5>2. key \in new
          BY <3>2, <4>1, <5>1
        <5>3. QED  BY <2>5, <5>2
      <4>2. QED  BY <4>1
    <3>4. key[1] \in harvested => tables.snapshots[key] = content[key[1]].hash
      BY <3>1 DEF SnapshotsInv, SnapshotsCurrent
    <3>5. key[1] \in harvested' => key[1] \in harvested /\ content'[key[1]] = content[key[1]]
      BY <1>1, <3>3 DEF Added, TablesInv, ChainInv
    <3>6. QED  BY <2>3, <3>1, <3>2, <3>4, <3>5
  <2>6. QED  BY <2>4, <2>5
<1>2. ASSUME NEW n \in Blocks, Removed(n) PROVE SnapshotsInv'
  <2>1. tables'.index = tables.index /\ tables'.snapshots = tables.snapshots
    BY <1>2, RemovedDoes
  <2>2. \A m : IndexedAt(tables', m) = IndexedAt(tables, m)
    BY <2>1 DEF IndexedAt
  <2>3. \A m \in harvested' : m \in harvested /\ content'[m] = content[m]
    BY <1>2 DEF Removed, TablesInv, ChainInv
  <2>4. rebuilds' = rebuilds
    BY <1>2 DEF Removed
  <2>5. QED
    BY <1>0, <2>1, <2>2, <2>3, <2>4 DEF SnapshotsInv, SnapshotsIndexed, SnapshotsCurrent
<1>3. CASE TruncateIndex
  <2>1. rebuilds' \in Nat /\ rebuilds' # 0
    BY <1>3 DEF TruncateIndex, SnapshotsInv
  <2>2. QED  BY <1>0, <2>1 DEF SnapshotsInv, SnapshotsIndexed, SnapshotsCurrent
<1>4. ASSUME tables'.snapshots = tables.snapshots, BlocksStay, rebuilds' = rebuilds,
             \A m : IndexedAt(tables, m) \subseteq IndexedAt(tables', m)
      PROVE  SnapshotsInv'
  BY <1>0, <1>4 DEF BlocksStay, SnapshotsInv, SnapshotsIndexed, SnapshotsCurrent
<1>5. CASE RebuildBlock /\ BlocksStay
  <2> DEFINE n == Min(todo)
  <2>1. SameButIndex(Reindexed(tables, n), tables)
    BY ReindexesOnly
  <2>2. \E keys : AddsOnly(Reindexed(tables, n).index, tables.index, keys)
    BY ReindexesOnly DEF IndexedOver
  <2>3. tables' = Reindexed(tables, n) /\ rebuilds' = rebuilds
    BY <1>5 DEF RebuildBlock
  <2>4. tables'.snapshots = tables.snapshots
    BY <2>1, <2>3 DEF SameButIndex, TableNames
  <2>5. \A m : IndexedAt(tables, m) \subseteq IndexedAt(tables', m)
    BY <2>2, <2>3, IndexGrows
  <2>6. QED  BY <1>4, <1>5, <2>3, <2>4, <2>5
<1>6. CASE (KillRebuild \/ ListBlocks) /\ BlocksStay
  BY <1>4, <1>6 DEF KillRebuild, ListBlocks
<1>7. CASE Refused
  BY <1>4, <1>7 DEF Refused, RebuildStays
<1>8. ASSUME NEW n \in Blocks, FullTaken(n) PROVE SnapshotsInv'
  <2>1. PICK hash : tables' = Snapshotted(tables, n, Holders, hash)
    BY <1>8 DEF FullTaken
  <2>2. n \in FullBlocks
    BY <1>8 DEF FullTaken, SnapshotsInv
  <2>3. tables'.index = tables.index
    BY <1>8, FullSnapshotKeeps DEF TablesInv, IsolatedIn, TableNames
  <2>4. ASSUME NEW key \in DOMAIN tables'.snapshots, key[1] \notin FullBlocks
        PROVE  key \in DOMAIN tables.snapshots /\ tables'.snapshots[key] = tables.snapshots[key]
    <3>1. /\ DOMAIN tables'.snapshots = DOMAIN tables.snapshots \cup {<<n, a>> : a \in Holders}
          /\ key \notin {<<n, a>> : a \in Holders} => tables'.snapshots[key] = tables.snapshots[key]
      BY <2>1, <2>4 DEF Snapshotted, TablesInv, IsolatedIn, HasTables, TableNames
    <3>2. key \notin {<<n, a>> : a \in Holders}
      BY <2>2, <2>4
    <3>3. QED  BY <2>4, <3>1, <3>2
  <2>5. \A m : IndexedAt(tables', m) = IndexedAt(tables, m)
    BY <2>3 DEF IndexedAt
  <2>6. rebuilds' = rebuilds /\ harvested' = harvested /\ content' = content
    BY <1>8 DEF FullTaken, BlocksStay, RebuildStays
  <2>7. QED
    BY <1>0, <2>4, <2>5, <2>6 DEF SnapshotsInv, SnapshotsIndexed, SnapshotsCurrent
<1>9. QED  BY <1>1, <1>2, <1>3, <1>5, <1>6, <1>7, <1>8, StepsAre DEF TablesInv

\* No harvested block shows balances of another one, whatever was removed and came
\* back before, until the index is rebuilt, but for the full blocks.
THEOREM SnapshotsStayCurrent == AccumulationSpec => []SnapshotsCurrent
<1>1. AccumulationSpec => []TablesInv
  BY TablesInvariant
<1>2. AccumulationInit => SnapshotsInv
  <2>1. AccumulationInit => rebuilds = 0 /\ updates = {} /\ DOMAIN tables.snapshots = {}
    BY DEF AccumulationInit, NoTables, NoRows
  <2>2. QED  BY <2>1 DEF SnapshotsInv, SnapshotsIndexed, SnapshotsCurrent
<1>3. TablesInv /\ SnapshotsInv /\ [AccumulationNext]_vars2 => SnapshotsInv'
  BY StepSnapshots
<1>4. SnapshotsInv => SnapshotsCurrent
  BY DEF SnapshotsInv
<1>5. QED  BY <1>1, <1>2, <1>3, <1>4, PTL DEF AccumulationSpec

------------------------------------------------------------------------------
(* The search index.                                                         *)

\* The index rows of a block alone.
IndexAlone(n, c) == WithBlock(NoTables, n, c).index

LEMMA IndexOfOne ==
  ASSUME NEW n, NEW c, IsBlock(c)
  PROVE  /\ IndexedOver(IndexAlone(n, c), NoRows, n, c, Slots(c))
         /\ DOMAIN IndexAlone(n, c) = KeysOf(n, c, Slots(c))
<1>1. IndexedOver(IndexAlone(n, c), NoTables.index, n, c, Slots(c))
  BY NoTablesAreTables, AddsIndex DEF IndexAlone
<1>2. NoTables.index = NoRows /\ DOMAIN NoRows = {}
  BY DEF NoTables, NoRows
<1>3. QED  BY <1>1, <1>2 DEF IndexedOver, AddsOnly

LEMMA KeysAreOfBlock ==
  ASSUME NEW n, NEW c, NEW slots, NEW key \in KeysOf(n, c, slots)
  PROVE  \E from \in slots : \E account : key = <<n, from, account>>
BY DEF KeysOf, KeysAt

\* The index has all the rows of these blocks.
CompleteFor(rows, at, done) == \A m \in done : DOMAIN IndexAlone(m, at[m]) \subseteq DOMAIN rows

LEMMA AddsComplete ==
  ASSUME NEW rows, NEW at, NEW done, CompleteFor(rows, at, done),
         NEW n, NEW c, IsBlock(c), NEW new, IndexedOver(new, rows, n, c, Slots(c)),
         NEW other, Agree(at, other, done \ {n}), other[n] = c
  PROVE  CompleteFor(new, other, done \cup {n})
<1>1. DOMAIN new = DOMAIN rows \cup KeysOf(n, c, Slots(c))
  BY DEF IndexedOver, AddsOnly
<1>2. DOMAIN IndexAlone(n, c) = KeysOf(n, c, Slots(c))
  BY IndexOfOne
<1>3. \A m \in done \ {n} : other[m] = at[m]
  BY DEF Agree
<1>4. QED  BY <1>1, <1>2, <1>3 DEF CompleteFor

\* It has these rows only, and each as often as the block alone would have it, or
\* twice as often.
Often(m, twice, once) == IF m \in twice THEN 2 * once ELSE once

ExactFor(rows, at, done, twice) ==
  /\ DOMAIN rows = UNION {DOMAIN IndexAlone(m, at[m]) : m \in done}
  /\ \A m \in done : \A row \in DOMAIN IndexAlone(m, at[m]) :
       rows[row] = Often(m, twice, IndexAlone(m, at[m])[row])

LEMMA AddsExact ==
  ASSUME NEW rows, NEW at, NEW done, NEW twice, ExactFor(rows, at, done, twice),
         \A m \in done : IsBlock(at[m]),
         NEW n, n \notin done, n \notin twice, NEW c, IsBlock(c),
         NEW new, IndexedOver(new, rows, n, c, Slots(c)),
         NEW other, Agree(at, other, done), other[n] = c
  PROVE  ExactFor(new, other, done \cup {n}, twice)
<1> DEFINE keys(m) == DOMAIN IndexAlone(m, other[m])
           alone == IndexAlone(n, c)
<1>1. \A m \in done : other[m] = at[m]
  BY DEF Agree
<1>2. ASSUME NEW m \in done \cup {n}, NEW key \in keys(m)
      PROVE  \E from, account : key = <<m, from, account>>
  <2>1. IsBlock(other[m])
    BY <1>1
  <2>2. keys(m) = KeysOf(m, other[m], Slots(other[m]))
    BY <2>1, IndexOfOne
  <2>3. QED  BY <2>2, KeysAreOfBlock
<1>3. DOMAIN rows = UNION {keys(m) : m \in done}
  <2>1. {keys(m) : m \in done} = {DOMAIN IndexAlone(m, at[m]) : m \in done}
    BY <1>1
  <2>2. QED  BY <2>1 DEF ExactFor
<1>4. keys(n) = KeysOf(n, c, Slots(c)) /\ keys(n) = DOMAIN alone
  BY IndexOfOne
<1>5. \A key \in DOMAIN rows : key[1] # n
  <2> HIDE DEF keys
  <2>1. QED  BY <1>2, <1>3
<1>6. DOMAIN new = UNION {keys(m) : m \in done \cup {n}}
  <2>1. DOMAIN new = DOMAIN rows \cup keys(n)
    BY <1>4 DEF IndexedOver, AddsOnly
  <2> HIDE DEF keys
  <2>2. QED  BY <1>3, <2>1
<1>7. ASSUME NEW m \in done, NEW key \in keys(m)
      PROVE  new[key] = Often(m, twice, IndexAlone(m, other[m])[key])
  <2>1. rows[key] = Often(m, twice, IndexAlone(m, other[m])[key])
    BY <1>1, <1>7 DEF ExactFor
  <2>2. key \in DOMAIN rows
    <3> HIDE DEF keys
    <3>1. QED  BY <1>3, <1>7
  <2>3. key \notin keys(n)
    <3> HIDE DEF keys
    <3>1. QED  BY <1>2, <1>5, <2>2
  <2>4. new[key] = rows[key]
    BY <1>4, <2>2, <2>3 DEF IndexedOver, AddsOnly
  <2>5. QED  BY <2>1, <2>4
<1>8. ASSUME NEW key \in keys(n) PROVE new[key] = alone[key]
  <2>a. key \in KeysOf(n, c, Slots(c))
    BY <1>4, <1>8
  <2>1. PICK from \in Slots(c) : \E account : key = <<n, from, account>>
    <3> HIDE DEF keys
    <3>1. QED  BY <2>a, KeysAreOfBlock
  <2>2. PICK account : key = <<n, from, account>>
    BY <2>1
  <2> DEFINE accounts == AccountsAt(c, from)
  <2>3. IsList(accounts)
    BY AccountsAreLists
  <2>4. SameAt(rows, NoRows, n, from)
    <3>1. \A a : <<n, from, a>> \notin DOMAIN rows
      BY <1>5
    <3>2. DOMAIN NoRows = {}
      BY DEF NoRows
    <3>3. QED  BY <3>1, <3>2 DEF SameAt
  <2>5. SameAt(new, IndexRows(rows, n, from, accounts), n, from)
    BY DEF IndexedOver
  <2>6. SameAt(IndexRows(rows, n, from, accounts), IndexRows(NoRows, n, from, accounts), n, from)
    BY <2>3, <2>4, SameIsAdded
  <2>7. SameAt(alone, IndexRows(NoRows, n, from, accounts), n, from)
    BY IndexOfOne DEF IndexedOver
  <2> HIDE DEF accounts, alone
  <2>8. SameAt(alone, new, n, from)
    BY <2>5, <2>6, <2>7, SameIsEquivalence
  <2>9. QED  BY <1>4, <1>8, <2>2, <2>8 DEF SameAt
<1> HIDE DEF alone
<1>9. \A key \in keys(n) : new[key] = Often(n, twice, IndexAlone(n, other[n])[key])
  BY <1>8 DEF alone, Often
<1>10. \A m \in done \cup {n} : \A key \in keys(m) :
         new[key] = Often(m, twice, IndexAlone(m, other[m])[key])
  <2> HIDE DEF keys
  <2>1. QED  BY <1>7, <1>9
<1>11. QED  BY <1>6, <1>10 DEF ExactFor

\* What the rows of one block are worth at a slot.
LEMMA AloneAt ==
  ASSUME NEW n, NEW c, IsBlock(c), NEW from \in Slots(c), NEW account,
         <<n, from, account>> \in DOMAIN IndexAlone(n, c)
  PROVE  LET key == <<n, from, account>>
         IN /\ IndexAlone(n, c)[key] = RowOr(IndexRows(NoRows, n, from, AccountsAt(c, from)), key, 0)
            /\ IndexAlone(n, c)[key] \in Nat
<1> DEFINE key == <<n, from, account>>
           alone == IndexAlone(n, c)
           accounts == AccountsAt(c, from)
<1>1. IsList(accounts)
  BY AccountsAreLists
<1>2. SameAt(alone, IndexRows(NoRows, n, from, accounts), n, from)
  BY IndexOfOne DEF IndexedOver
<1>3. \A a : RowOr(NoRows, <<n, from, a>>, 0) \in Nat
  BY DEF RowOr, NoRows
<1>4. RowOr(IndexRows(NoRows, n, from, accounts), key, 0) \in Nat
  BY <1>1, <1>3, RowsAddUp
<1>5. key \in DOMAIN alone
  OBVIOUS
<1> HIDE DEF alone, accounts
<1>6. alone[key] = RowOr(IndexRows(NoRows, n, from, accounts), key, 0)
  BY <1>2, <1>5 DEF SameAt, RowOr
<1>7. QED  BY <1>4, <1>6 DEF alone, accounts

\* A block that is indexed once more has each of its rows twice.
LEMMA AddsTwice ==
  ASSUME NEW rows, NEW at, NEW done, NEW twice, ExactFor(rows, at, done, twice),
         \A m \in done : IsBlock(at[m]),
         NEW n \in done, n \notin twice,
         NEW new, IndexedOver(new, rows, n, at[n], Slots(at[n]))
  PROVE  ExactFor(new, at, done, twice \cup {n})
<1> DEFINE c == at[n]
           keys(m) == DOMAIN IndexAlone(m, at[m])
           alone == IndexAlone(n, c)
<1>1. \A m \in done : keys(m) = KeysOf(m, at[m], Slots(at[m]))
  BY IndexOfOne
<1>2. ASSUME NEW m \in done, NEW key \in keys(m)
      PROVE  \E from \in Slots(at[m]) : \E account : key = <<m, from, account>>
  BY <1>1, KeysAreOfBlock
<1>3. DOMAIN rows = UNION {keys(m) : m \in done}
  BY DEF ExactFor
<1>4. keys(n) = KeysOf(n, c, Slots(c)) /\ keys(n) = DOMAIN alone /\ IsBlock(c)
  BY <1>1
<1>5. \A key \in DOMAIN rows : key[1] = n => key \in keys(n)
  <2> HIDE DEF keys
  <2>1. QED  BY <1>2, <1>3
<1>6. DOMAIN new = DOMAIN rows
  <2>1. DOMAIN new = DOMAIN rows \cup keys(n)
    BY <1>4 DEF IndexedOver, AddsOnly
  <2> HIDE DEF keys
  <2>2. QED  BY <1>3, <2>1
<1>7. ASSUME NEW m \in done, m # n, NEW key \in keys(m)
      PROVE  new[key] = Often(m, twice \cup {n}, IndexAlone(m, at[m])[key])
  <2>1. rows[key] = Often(m, twice, IndexAlone(m, at[m])[key])
    BY <1>7 DEF ExactFor
  <2>2. key \in DOMAIN rows /\ key \notin keys(n)
    <3> HIDE DEF keys
    <3>1. QED  BY <1>2, <1>3, <1>7
  <2>3. new[key] = rows[key]
    BY <1>4, <2>2 DEF IndexedOver, AddsOnly
  <2>4. QED  BY <1>7, <2>1, <2>3 DEF Often
<1>8. ASSUME NEW key \in keys(n) PROVE new[key] = 2 * alone[key]
  <2>1. PICK from \in Slots(c) : \E account : key = <<n, from, account>>
    <3> HIDE DEF keys
    <3>1. QED  BY <1>2, <1>8
  <2> DEFINE accounts == AccountsAt(c, from)
             old == RowOr(IndexRows(NoRows, n, from, accounts), key, 0)
  <2>2. IsList(accounts)
    BY <1>4, AccountsAreLists
  <2>3. key \in DOMAIN alone /\ key \in DOMAIN rows
    <3>1. key \in DOMAIN rows
      <4> HIDE DEF keys
      <4>1. QED  BY <1>3, <1>8
    <3>2. QED  BY <1>4, <1>8, <3>1
  <2>4. \A k \in DOMAIN alone : rows[k] = alone[k]
    BY DEF ExactFor, Often
  <2>5. ASSUME NEW a PROVE RowOr(rows, <<n, from, a>>, 0) \in Nat
    <3>1. CASE <<n, from, a>> \in DOMAIN rows
      <4>1. <<n, from, a>> \in DOMAIN alone
        <5> HIDE DEF keys
        <5>1. QED  BY <1>4, <1>5, <3>1
      <4>2. alone[<<n, from, a>>] \in Nat
        BY <1>4, <4>1, AloneAt
      <4> HIDE DEF alone
      <4>3. QED  BY <2>4, <3>1, <4>1, <4>2 DEF RowOr
    <3>2. CASE <<n, from, a>> \notin DOMAIN rows
      BY <3>2 DEF RowOr
    <3>3. QED  BY <3>1, <3>2
  <2>6. RowOr(IndexRows(rows, n, from, accounts), key, 0) = RowOr(rows, key, 0) + old
    BY <2>1, <2>2, <2>5, RowsAddUp
  <2>7. alone[key] = old /\ alone[key] \in Nat
    BY <1>4, <2>1, <2>3, AloneAt
  <2>8. SameAt(new, IndexRows(rows, n, from, accounts), n, from)
    BY DEF IndexedOver
  <2>9. key \in DOMAIN new
    BY <1>6, <2>3
  <2> HIDE DEF accounts, alone, old
  <2>10. new[key] = RowOr(IndexRows(rows, n, from, accounts), key, 0)
    BY <2>1, <2>8, <2>9 DEF SameAt, RowOr
  <2>11. RowOr(rows, key, 0) = alone[key]
    BY <2>3, <2>4 DEF RowOr
  <2>12. QED  BY <2>6, <2>7, <2>10, <2>11
<1>9. ASSUME NEW m \in done, NEW key \in keys(m)
      PROVE  new[key] = Often(m, twice \cup {n}, IndexAlone(m, at[m])[key])
  BY <1>7, <1>8, <1>9 DEF Often
<1>10. QED  BY <1>3, <1>6, <1>9 DEF ExactFor

\* The blocks that are indexed, and those that are so twice.
Indexed == harvested \ Waiting
Twice == {n \in between : IndexedTwice(n)}

\* What the blocks added bring into the index, as long as no rebuild was killed;
\* the blocks a rebuild has still to do are harvested, as long as none goes out.
IndexInv ==
  /\ removals \in Nat /\ todo \subseteq Blocks
  /\ listing => todo = {}
  /\ removals = 0 => todo \subseteq harvested /\ between \subseteq harvested
  /\ ~partial => CompleteFor(tables.index, content, Indexed)
  /\ removals = 0 /\ ~partial => ExactFor(tables.index, content, Indexed, Twice)

\* The next block of a rebuild is one of those to do.
LEMMA NextToDo ==
  ASSUME todo \subseteq Blocks, todo # {}
  PROVE  Min(todo) \in todo
<1>1. todo \in SUBSET Nat
  BY RemindersAssumption DEF RemindersAssumption, Blocks
<1>2. \E m \in todo : \A k \in todo : m <= k
  BY <1>1, Indexing!Least
<1>3. QED  BY <1>2 DEF Min

LEMMA InitIndex == AccumulationInit => IndexInv
<1> SUFFICES ASSUME AccumulationInit PROVE IndexInv
  OBVIOUS
<1>1. /\ harvested = {} /\ todo = {} /\ between = {} /\ ~listing /\ removals = 0
      /\ tables.index = NoRows /\ DOMAIN NoRows = {}
  BY DEF AccumulationInit, Init, NoTables, NoRows
<1>2. Indexed = {}
  BY <1>1 DEF Indexed
<1>3. CompleteFor(tables.index, content, {}) /\ ExactFor(tables.index, content, {}, Twice)
  <2>1. UNION {DOMAIN IndexAlone(m, content[m]) : m \in {}} = {}
    OBVIOUS
  <2>2. QED  BY <1>1, <2>1 DEF CompleteFor, ExactFor
<1>4. QED  BY <1>1, <1>2, <1>3 DEF IndexInv

\* A rebuild of the index, step by step, on blocks that stay.
LEMMA StepRebuild ==
  ASSUME TablesInv, IndexInv, BlocksStay, TruncateIndex \/ ListBlocks \/ RebuildBlock \/ KillRebuild
  PROVE  IndexInv'
<1>1. /\ harvested \subseteq Blocks /\ \A m \in Blocks : IsBlock(content[m])
      /\ harvested' = harvested /\ removals' = removals /\ content' = content
  BY ContentIsBlocks DEF TablesInv, ChainInv, BlocksStay
<1>2. CASE TruncateIndex
  <2>1. /\ todo' = {} /\ listing' /\ between' = {} /\ partial' = FALSE
        /\ tables' = [tables EXCEPT !.index = NoRows]
    BY <1>2 DEF TruncateIndex
  <2>2. tables'.index = NoRows /\ DOMAIN NoRows = {}
    BY <2>1 DEF TablesInv, IsolatedIn, HasTables, TableNames, NoRows
  <2>3. Indexed' = {}
    BY <2>1 DEF Indexed, Waiting
  <2>4. UNION {DOMAIN IndexAlone(m, content[m]) : m \in {}} = {}
    OBVIOUS
  <2>5. \A twice : CompleteFor(NoRows, content, {}) /\ ExactFor(NoRows, content, {}, twice)
    BY <2>2, <2>4 DEF CompleteFor, ExactFor
  <2>6. QED  BY <1>1, <2>1, <2>2, <2>3, <2>5 DEF IndexInv
<1>3. CASE ListBlocks
  <2>1. /\ listing /\ ~listing' /\ todo' = harvested /\ between' = between
        /\ tables' = tables /\ partial' = partial
    BY <1>3 DEF ListBlocks
  <2>2. Indexed' = Indexed
    BY <1>1, <2>1 DEF Indexed, Waiting
  <2>3. removals = 0 => Twice' = {} /\ Twice = {}
    BY <2>1 DEF IndexInv, Twice, IndexedTwice
  <2>4. QED  BY <1>1, <2>1, <2>2, <2>3 DEF IndexInv
<1>4. CASE RebuildBlock
  <2> DEFINE n == Min(todo)
  <2>1. /\ n \in todo /\ todo' = todo \ {n} /\ tables' = Reindexed(tables, n)
        /\ partial' = partial /\ listing' = listing /\ between' = between
    BY <1>4, NextToDo DEF RebuildBlock, IndexInv
  <2>2. ~listing
    BY <2>1 DEF IndexInv
  <2>3. /\ n \in harvested =>
             IndexedOver(tables'.index, tables.index, n, content[n], Slots(content[n]))
        /\ n \notin harvested => AddsOnly(tables'.index, tables.index, {})
    BY <2>1, ReindexesOnly
  <2>4. \A m \in Indexed : IsBlock(content[m])
    BY <1>1 DEF Indexed
  <2> HIDE DEF n
  <2>5. CASE n \notin harvested
    <3>1. Indexed' = Indexed
      BY <1>1, <2>1, <2>2, <2>5 DEF Indexed, Waiting
    <3>2. DOMAIN tables'.index = DOMAIN tables.index
      BY <2>3, <2>5 DEF AddsOnly
    <3>3. removals # 0
      BY <2>1, <2>5 DEF IndexInv
    <3>4. ~partial => CompleteFor(tables'.index, content, Indexed)
      BY <3>2 DEF IndexInv, CompleteFor
    <3>5. QED  BY <1>1, <2>1, <2>2, <3>1, <3>3, <3>4 DEF IndexInv
  <2>6. CASE n \in harvested /\ n \notin between
    <3>1. Indexed' = Indexed \cup {n} /\ n \notin Indexed /\ Twice' = Twice /\ n \notin Twice
          /\ IsBlock(content[n])
      BY <1>1, <2>1, <2>2, <2>6 DEF Indexed, Waiting, Twice, IndexedTwice
    <3>2. Agree(content, content, Indexed) /\ Agree(content, content, Indexed \ {n})
      BY DEF Agree
    <3>3. CompleteFor(tables.index, content, Indexed)
            => CompleteFor(tables'.index, content, Indexed \cup {n})
      BY <2>3, <2>6, <3>1, <3>2, AddsComplete
    <3>4. ExactFor(tables.index, content, Indexed, Twice)
            => ExactFor(tables'.index, content, Indexed \cup {n}, Twice)
      BY <2>3, <2>4, <2>6, <3>1, <3>2, AddsExact
    <3>5. QED  BY <1>1, <2>1, <2>2, <3>1, <3>3, <3>4 DEF IndexInv
  <2>7. CASE n \in harvested /\ n \in between
    <3>1. Indexed' = Indexed /\ n \in Indexed /\ Twice' = Twice \cup {n} /\ n \notin Twice
          /\ IsBlock(content[n])
      BY <1>1, <2>1, <2>2, <2>7 DEF Indexed, Waiting, Twice, IndexedTwice
    <3>2. Agree(content, content, Indexed \ {n}) /\ Indexed \cup {n} = Indexed
      BY <3>1 DEF Agree
    <3>3. CompleteFor(tables.index, content, Indexed) => CompleteFor(tables'.index, content, Indexed)
      <4>1. CompleteFor(tables.index, content, Indexed)
              => CompleteFor(tables'.index, content, Indexed \cup {n})
        BY <2>3, <2>7, <3>1, <3>2, AddsComplete
      <4>2. QED  BY <3>2, <4>1
    <3>4. ExactFor(tables.index, content, Indexed, Twice)
            => ExactFor(tables'.index, content, Indexed, Twice \cup {n})
      BY <2>3, <2>4, <2>7, <3>1, AddsTwice
    <3>5. QED  BY <1>1, <2>1, <2>2, <3>1, <3>3, <3>4 DEF IndexInv
  <2>8. QED  BY <2>5, <2>6, <2>7
<1>5. CASE KillRebuild
  <2>1. partial' /\ todo' = {} /\ between' = between
    BY <1>5 DEF KillRebuild
  <2>2. QED  BY <1>1, <2>1 DEF IndexInv
<1>6. QED  BY <1>2, <1>3, <1>4, <1>5

\* A block that is in has all its rows, a block to do as well.
LEMMA StepIndex ==
  TablesInv /\ IndexInv /\ [AccumulationNext]_vars2 => IndexInv'
<1> SUFFICES ASSUME TablesInv, IndexInv, [AccumulationNext]_vars2 PROVE IndexInv'
  OBVIOUS
<1>1. harvested \subseteq Blocks /\ \A m \in Blocks : IsBlock(content[m])
  BY ContentIsBlocks DEF TablesInv, ChainInv
<1>2. ASSUME NEW n \in Blocks, NEW c, Added(n, c) PROVE IndexInv'
  <2>0. /\ harvested' = harvested \cup {n} /\ n \notin harvested
        /\ removals' = removals /\ listing' = listing /\ todo' = todo /\ partial' = partial
        /\ between' = IF listing THEN between \cup {n} ELSE between
    BY <1>2 DEF Added
  <2>1. IsBlock(c) /\ IndexedOver(tables'.index, tables.index, n, c, Slots(c))
    BY <1>2, AddedDoes
  <2>2. /\ n \notin Indexed /\ Indexed \subseteq harvested
        /\ Agree(content, content', Indexed) /\ Agree(content, content', Indexed \ {n})
        /\ content'[n] = c
    BY <1>1, <1>2 DEF Agree, Added, Indexed
  <2>3. ASSUME ~partial PROVE CompleteFor(tables'.index, content', Indexed \cup {n})
    BY <2>1, <2>2, <2>3, AddsComplete DEF IndexInv
  <2>4. Indexed' \subseteq Indexed \cup {n}
    BY <2>0 DEF Indexed, Waiting
  <2>5. ~partial' => CompleteFor(tables'.index, content', Indexed')
    BY <2>0, <2>3, <2>4 DEF CompleteFor
  <2>6. ASSUME removals' = 0, ~partial'
        PROVE  ExactFor(tables'.index, content', Indexed', Twice')
    <3>1. removals = 0 /\ ~partial
      BY <2>0, <2>6
    <3>2. /\ ExactFor(tables.index, content, Indexed, Twice)
          /\ todo \subseteq harvested /\ between \subseteq harvested
      BY <3>1 DEF IndexInv
    <3>3. Indexed' = Indexed \cup {n}
      BY <2>0, <3>2 DEF Indexed, Waiting
    <3>4. Twice' = Twice /\ n \notin Twice
      BY <2>0, <3>2 DEF Twice, IndexedTwice
    <3>5. \A m \in Indexed : IsBlock(content[m])
      BY <1>1, <2>2
    <3>6. ExactFor(tables'.index, content', Indexed \cup {n}, Twice)
      BY <2>1, <2>2, <3>2, <3>4, <3>5, AddsExact
    <3>7. QED  BY <3>3, <3>4, <3>6
  <2>7. /\ removals' \in Nat /\ todo' \subseteq Blocks /\ (listing' => todo' = {})
        /\ removals' = 0 => todo' \subseteq harvested' /\ between' \subseteq harvested'
    BY <2>0 DEF IndexInv
  <2>8. QED  BY <2>5, <2>6, <2>7 DEF IndexInv
<1>3. ASSUME NEW n \in Blocks, Removed(n) PROVE IndexInv'
  <2>1. tables'.index = tables.index
    BY <1>3, RemovedDoes
  <2>2. /\ removals' \in Nat /\ removals' # 0 /\ harvested' = harvested \ {n}
        /\ todo' = todo /\ partial' = partial /\ listing' = listing /\ between' = between
    BY <1>3 DEF Removed, IndexInv
  <2>3. \A m \in Indexed' : m \in Indexed /\ content'[m] = content[m]
    BY <1>1, <1>3, <2>2 DEF Removed, Indexed, Waiting
  <2>4. ~partial => CompleteFor(tables.index, content, Indexed)
    BY DEF IndexInv
  <2>5. ~partial' => CompleteFor(tables'.index, content', Indexed')
    BY <2>1, <2>2, <2>3, <2>4 DEF CompleteFor
  <2>6. QED  BY <2>2, <2>5 DEF IndexInv
<1>4. ASSUME tables'.index = tables.index, BlocksStay, RebuildStays PROVE IndexInv'
  <2>1. Indexed' = Indexed /\ Twice' = Twice
    BY <1>4 DEF BlocksStay, RebuildStays, Indexed, Waiting, Twice, IndexedTwice
  <2>2. QED  BY <1>4, <2>1 DEF BlocksStay, RebuildStays, IndexInv
<1>5. CASE Refused
  BY <1>4, <1>5 DEF Refused
<1>6. ASSUME NEW n \in Blocks, FullTaken(n) PROVE IndexInv'
  <2>1. tables'.index = tables.index
    BY <1>6, FullSnapshotKeeps DEF TablesInv, IsolatedIn, TableNames
  <2>2. QED  BY <1>4, <1>6, <2>1 DEF FullTaken
<1>7. QED  BY <1>2, <1>3, <1>5, <1>6, StepRebuild, StepsAre DEF TablesInv

LEMMA IndexInvariant == AccumulationSpec => []IndexInv
<1>1. AccumulationSpec => []TablesInv
  BY TablesInvariant
<1>2. AccumulationInit => IndexInv
  BY InitIndex
<1>3. TablesInv /\ IndexInv /\ [AccumulationNext]_vars2 => IndexInv'
  BY StepIndex
<1>4. QED  BY <1>1, <1>2, <1>3, PTL DEF AccumulationSpec

\* Every account that a harvested block is about has its row in the index, but for
\* blocks a rebuild has still to do or was killed before.
THEOREM IndexIsComplete == AccumulationSpec => []IndexComplete
<1>1. AccumulationSpec => []IndexInv
  BY IndexInvariant
<1>2. IndexInv => IndexComplete
  BY DEF IndexInv, IndexComplete, CompleteFor, IndexAlone, Alone, Indexed
<1>3. QED  BY <1>1, <1>2, PTL

\* As long as no block has been removed it has no other row, and each as often as
\* the block alone would write it, rebuilt or not; but for a block that came in
\* between the TRUNCATE and the list of a rebuild, which has them twice.
THEOREM IndexIsExact == AccumulationSpec => []IndexExact
<1>1. AccumulationSpec => []IndexInv
  BY IndexInvariant
<1>2. IndexInv => IndexExact
  <2> SUFFICES ASSUME IndexInv, removals = 0, ~partial
               PROVE  /\ DOMAIN tables.index = UNION {DOMAIN Alone(n).index : n \in Indexed}
                      /\ \A n \in Indexed : \A row \in DOMAIN Alone(n).index :
                           LET once == Alone(n).index[row]
                           IN tables.index[row] = IF IndexedTwice(n) THEN 2 * once ELSE once
    BY DEF IndexExact, Indexed
  <2>1. \A n : Alone(n).index = IndexAlone(n, content[n])
    BY DEF IndexAlone, Alone
  <2>2. {DOMAIN Alone(n).index : n \in Indexed} = {DOMAIN IndexAlone(n, content[n]) : n \in Indexed}
    BY <2>1
  <2>3. ExactFor(tables.index, content, Indexed, Twice)
    BY DEF IndexInv
  <2>4. \A n : n \in Twice <=> IndexedTwice(n)
    BY DEF Twice, IndexedTwice
  <2>5. QED  BY <2>1, <2>2, <2>3, <2>4 DEF ExactFor, Often
<1>3. QED  BY <1>1, <1>2, PTL

------------------------------------------------------------------------------
(* The counters of block rows.                                               *)

\* The counters k are the numbers of these rows.
Matches(k, events, calls, logs) ==
  /\ k.events = Cardinality(events)
  /\ k.extrinsics = Cardinality(calls)
  /\ k.logs = Cardinality(logs)
  /\ k.success = Cardinality({r \in calls : r[3].success})
  /\ events # {} => k.error = Cardinality({r \in calls : ~r[3].success})

LEMMA PlacesCounted ==
  ASSUME NEW s, IsList(s)
  PROVE  IsFiniteSet(DOMAIN s) /\ Cardinality(DOMAIN s) = Len(s)
<1>1. Len(s) \in Nat /\ DOMAIN s = 1 .. Len(s)
  BY ListDomain
<1>2. \A m \in Nat : IsFiniteSet(1 .. m) /\ Cardinality(1 .. m) = m
  BY FS_Interval
<1>3. QED  BY <1>1, <1>2

\* Two sets that a function takes one to one are of one size.
LEMMA OneToOne ==
  ASSUME NEW S, IsFiniteSet(S), NEW T, NEW f \in [S -> T],
         \A i, j \in S : f[i] = f[j] => i = j, \A t \in T : \E i \in S : f[i] = t
  PROVE  IsFiniteSet(T) /\ Cardinality(T) = Cardinality(S)
<1>1. f \in Bijection(S, T)
  BY DEF Bijection, Injection, Surjection, IsInjective
<1>2. ExistsBijection(S, T)
  BY <1>1 DEF ExistsBijection
<1>3. QED  BY <1>2, FS_Bijection

LEMMA LogRowsCounted ==
  ASSUME NEW n, NEW c, IsList(c.logs)
  PROVE  Cardinality(LogRows(n, c)) = Len(c.logs)
<1> DEFINE S == DOMAIN c.logs
           T == LogRows(n, c)
           row == [i \in S |-> <<n, i>>]
<1>1. /\ row \in [S -> T] /\ \A i, j \in S : row[i] = row[j] => i = j
      /\ \A t \in T : \E i \in S : row[i] = t
  BY DEF LogRows
<1>2. IsFiniteSet(S) /\ Cardinality(S) = Len(c.logs)
  BY PlacesCounted
<1> HIDE DEF S, T, row
<1>3. Cardinality(T) = Cardinality(S)
  BY <1>1, <1>2, OneToOne
<1>4. QED  BY <1>2, <1>3 DEF T

CallsAt(n, c, calls) == {CallRow(n, c, i) : i \in calls}

\* These are the calls that the events of this kind are about, each of one.
AreOf(c, kind, calls) ==
  LET events == Positions(c.events, {kind})
  IN /\ calls \subseteq DOMAIN c.extrinsics
     /\ \A j \in events : c.events[j].extrinsic \in calls
     /\ \A i \in calls : \E j \in events : c.events[j].extrinsic = i
     /\ \A i, j \in events : c.events[i].extrinsic = c.events[j].extrinsic => i = j

LEMMA CallsCounted ==
  ASSUME NEW n, NEW c, IsList(c.events), NEW kind, NEW calls, AreOf(c, kind, calls)
  PROVE  Cardinality(CallsAt(n, c, calls)) = Cardinality(Positions(c.events, {kind}))
<1> DEFINE P == Positions(c.events, {kind})
           of == [j \in P |-> c.events[j].extrinsic]
           row == [i \in calls |-> CallRow(n, c, i)]
           T == CallsAt(n, c, calls)
<1>1. IsFiniteSet(P)
  <2>1. IsFiniteSet(DOMAIN c.events) /\ P \subseteq DOMAIN c.events
    BY PlacesCounted DEF Positions
  <2>2. QED  BY <2>1, FS_Subset
<1>2. /\ of \in [P -> calls] /\ \A i, j \in P : of[i] = of[j] => i = j
      /\ \A t \in calls : \E i \in P : of[i] = t
  BY DEF AreOf
<1>3. /\ row \in [calls -> T] /\ \A i, j \in calls : row[i] = row[j] => i = j
      /\ \A t \in T : \E i \in calls : row[i] = t
  BY DEF CallRow, CallsAt
<1> HIDE DEF P, of, row, T
<1>4. IsFiniteSet(calls) /\ Cardinality(calls) = Cardinality(P)
  BY <1>1, <1>2, OneToOne
<1>5. Cardinality(T) = Cardinality(calls)
  BY <1>3, <1>4, OneToOne
<1>6. QED  BY <1>4, <1>5 DEF P, T

LEMMA CountersMatch ==
  ASSUME NEW n, NEW c, IsBlock(c), IsSettled(c), NEW u
  PROVE  Matches(Counters(u, n, c), EventRows(n, c), CallRows(n, c), LogRows(n, c))
<1> DEFINE good == {i \in DOMAIN c.extrinsics : Succeeded(c, i)}
           bad == {i \in DOMAIN c.extrinsics : ~Succeeded(c, i)}
           P(kind) == Positions(c.events, {kind})
           outcomes == Positions(c.events, {"ExtrinsicSuccess", "ExtrinsicFailed"})
<1>1. IsList(c.events) /\ IsList(c.extrinsics) /\ IsList(c.logs)
  BY DEF IsBlock
<1>2. /\ Cardinality(EventRows(n, c)) = Len(c.events)
      /\ Cardinality(CallRows(n, c)) = Len(c.extrinsics)
      /\ Cardinality(LogRows(n, c)) = Len(c.logs)
  BY <1>1, BlockRowsCounted, LogRowsCounted
<1>3. /\ {r \in CallRows(n, c) : r[3].success} = CallsAt(n, c, good)
      /\ {r \in CallRows(n, c) : ~r[3].success} = CallsAt(n, c, bad)
  <2>1. \A i \in DOMAIN c.extrinsics : CallRow(n, c, i)[3].success = Succeeded(c, i)
    BY DEF CallRow
  <2>2. QED  BY <2>1 DEF CallRows, CallsAt
<1>4. CASE c.events = <<>>
  <2>1. EventRows(n, c) = {} /\ P("ExtrinsicSuccess") = {} /\ outcomes = {}
    BY <1>4 DEF EventRows, Positions
  <2>2. good = {}
    BY <2>1 DEF Succeeded
  <2>3. Cardinality(CallsAt(n, c, good)) = Cardinality(P("ExtrinsicSuccess"))
    BY <2>1, <2>2 DEF CallsAt
  <2>4. QED  BY <1>2, <1>3, <2>1, <2>3 DEF Matches, Counters, Outcomes
<1>5. CASE c.events # <<>>
  <2>1. /\ \A i \in DOMAIN c.extrinsics : \E j \in outcomes : c.events[j].extrinsic = i
        /\ \A j \in outcomes : c.events[j].extrinsic \in DOMAIN c.extrinsics
        /\ \A i, j \in outcomes : c.events[i].extrinsic = c.events[j].extrinsic => i = j
    BY <1>5 DEF IsSettled, Positions
  <2>2. ASSUME NEW j \in outcomes
        PROVE  Succeeded(c, c.events[j].extrinsic) <=> c.events[j].kind = "ExtrinsicSuccess"
    <3> DEFINE same == {k \in outcomes : c.events[k].extrinsic = c.events[j].extrinsic}
    <3>1. same = {j}
      BY <2>1
    <3>2. j \in Nat
      BY <1>1, ListDomain DEF Positions
    <3>3. Max({j}) = j
      BY <3>2 DEF Max
    <3> HIDE DEF outcomes
    <3>4. Succeeded(c, c.events[j].extrinsic)
            <=> same # {} /\ c.events[Max(same)].kind = "ExtrinsicSuccess"
      BY DEF Succeeded, outcomes
    <3>5. QED  BY <3>1, <3>3, <3>4
  <2>3. /\ P("ExtrinsicSuccess") \subseteq outcomes /\ P("ExtrinsicFailed") \subseteq outcomes
        /\ \A j \in outcomes : j \in P("ExtrinsicSuccess") <=> c.events[j].kind = "ExtrinsicSuccess"
        /\ \A j \in outcomes : j \in P("ExtrinsicFailed") <=> c.events[j].kind # "ExtrinsicSuccess"
    BY DEF Positions
  <2> HIDE DEF outcomes, P
  <2>4. Cardinality(CallsAt(n, c, good)) = Cardinality(P("ExtrinsicSuccess"))
    <3>1. AreOf(c, "ExtrinsicSuccess", good)
      BY <2>1, <2>2, <2>3 DEF AreOf, P
    <3> HIDE DEF good
    <3>2. QED  BY <1>1, <3>1, CallsCounted DEF P
  <2>5. Cardinality(CallsAt(n, c, bad)) = Cardinality(P("ExtrinsicFailed"))
    <3>1. AreOf(c, "ExtrinsicFailed", bad)
      BY <2>1, <2>2, <2>3 DEF AreOf, P
    <3> HIDE DEF bad
    <3>2. QED  BY <1>1, <3>1, CallsCounted DEF P
  <2>6. /\ Counters(u, n, c).success = Cardinality(P("ExtrinsicSuccess"))
        /\ Counters(u, n, c).error = Cardinality(P("ExtrinsicFailed"))
        /\ Counters(u, n, c).events = Len(c.events)
        /\ Counters(u, n, c).extrinsics = Len(c.extrinsics)
        /\ Counters(u, n, c).logs = Len(c.logs)
    BY DEF Counters, Outcomes, P
  <2> HIDE DEF good, bad
  <2>7. QED  BY <1>2, <1>3, <2>4, <2>5, <2>6 DEF Matches
<1>6. QED  BY <1>4, <1>5

LEMMA ContentIsSettled ==
  ASSUME ContentInv
  PROVE  \A n \in Blocks : IsSettled(content[n])
<1> SUFFICES ASSUME NEW n \in Blocks PROVE IsSettled(content[n])
  OBVIOUS
<1>1. PICK k \in chains : content[n] \in {k[n], WithoutEvents(k[n])}
  BY DEF ContentInv
<1>2. IsBlock(k[n]) /\ IsSettled(k[n])
  BY AccumulationAssumption DEF AccumulationAssumption, ContentInv
<1>3. IsSettled(WithoutEvents(k[n]))
  BY <1>2, WithoutEventsIsBlock DEF IsSettled
<1>4. QED  BY <1>1, <1>2, <1>3

\* The row of a harvested block matches the rows that are stored for it.
LEMMA HarvestedMatch ==
  ASSUME TablesInv, NEW n \in harvested
  PROVE  /\ Matches(tables.blocks[n].counters, {r \in tables.events : r[1] = n},
                    {r \in tables.extrinsics : r[1] = n}, {r \in tables.logs : r[1] = n})
         /\ n \in Blocks
<1> DEFINE c == content[n]
           alone == WithBlock(NoTables, n, c)
<1>1. n \in Blocks /\ harvested \subseteq Blocks
  BY DEF TablesInv, ChainInv
<1>2. \A m \in harvested : IsBlock(content[m])
  BY <1>1, ContentIsBlocks DEF TablesInv
<1>3. IsSettled(c)
  BY <1>1, ContentIsSettled DEF TablesInv
<1>4. IsolatedIn(tables, content, harvested)
  BY DEF TablesInv
<1>5. /\ {r \in tables.events : r[1] = n} = EventRows(n, c)
      /\ {r \in tables.extrinsics : r[1] = n} = CallRows(n, c)
      /\ {r \in tables.logs : r[1] = n} = LogRows(n, c)
  BY <1>2, <1>4, RowsAmong
<1>6. tables.blocks[n] = alone.blocks[n]
  BY <1>4 DEF IsolatedIn
<1>7. IsList(c.events) /\ IsList(c.extrinsics)
  BY <1>2 DEF IsBlock
<1>8. BlockAdded(alone, NoTables, alone, n, c)
  <2>1. NoTables.fresh = {} /\ NoTables.gone = {}
    BY DEF NoTables
  <2>2. QED  BY <1>7, <2>1, NoTablesAreTables, AddsBlock
<1> HIDE DEF alone
<1>9. alone.blocks[n] = BlockRow(Gathered(NoTables, n, c), n, c)
  BY <1>8 DEF BlockAdded, Put
<1>10. tables.blocks[n].counters = Counters(Gathered(NoTables, n, c), n, c)
  BY <1>6, <1>9 DEF BlockRow
<1>11. Matches(Counters(Gathered(NoTables, n, c), n, c), EventRows(n, c), CallRows(n, c), LogRows(n, c))
  BY <1>2, <1>3, CountersMatch
<1> HIDE DEF c
<1>12. QED  BY <1>1, <1>5, <1>10, <1>11

\* So does what the archive keeps.
ArchiveMatches ==
  \A h \in DOMAIN tables.reorg :
    LET r == tables.reorg[h]
    IN Matches(r.counters, r.events, r.extrinsics, r.logs)

LEMMA StepArchive ==
  TablesInv /\ ArchiveMatches /\ [AccumulationNext]_vars2 => ArchiveMatches'
<1> SUFFICES ASSUME TablesInv, ArchiveMatches, [AccumulationNext]_vars2 PROVE ArchiveMatches'
  OBVIOUS
<1>1. ASSUME tables'.reorg = tables.reorg PROVE ArchiveMatches'
  BY <1>1 DEF ArchiveMatches, Matches
<1>2. ASSUME NEW n \in Blocks, NEW c, Added(n, c) PROVE tables'.reorg = tables.reorg
  BY <1>2, AddedDoes DEF BlockAdded
<1>3. ASSUME NEW n \in Blocks, Removed(n) PROVE ArchiveMatches'
  <2> DEFINE block == tables.blocks[n]
             row == [counters |-> block.counters, events |-> {r \in tables.events : r[1] = n},
                     extrinsics |-> {r \in tables.extrinsics : r[1] = n},
                     logs |-> {r \in tables.logs : r[1] = n}]
  <2>1. tables'.reorg = Archived(tables, n).reorg
    BY <1>3, RemovedDoes
  <2>2. CASE block.hash \in DOMAIN tables.reorg
    BY <1>1, <2>1, <2>2 DEF Archived
  <2>3. CASE block.hash \notin DOMAIN tables.reorg
    <3>1. Archived(tables, n) = [tables EXCEPT !.reorg = Put(@, block.hash, row)]
      BY <2>3 DEF Archived
    <3>2. Archived(tables, n).reorg = Put(tables.reorg, block.hash, row)
      BY <3>1 DEF TablesInv, IsolatedIn, HasTables, TableNames
    <3>3. n \in harvested
      BY <1>3 DEF Removed
    <3>4. Matches(row.counters, row.events, row.extrinsics, row.logs)
      BY <3>3, HarvestedMatch
    <3> HIDE DEF row, block
    <3>5. /\ DOMAIN tables'.reorg = DOMAIN tables.reorg \cup {block.hash}
          /\ \A h \in DOMAIN tables'.reorg :
               tables'.reorg[h] = IF h = block.hash THEN row ELSE tables.reorg[h]
      BY <2>1, <3>2 DEF Put
    <3>6. ASSUME NEW h \in DOMAIN tables'.reorg
          PROVE  Matches(tables'.reorg[h].counters, tables'.reorg[h].events,
                         tables'.reorg[h].extrinsics, tables'.reorg[h].logs)
      BY <3>4, <3>5, <3>6 DEF ArchiveMatches
    <3>7. QED  BY <3>6 DEF ArchiveMatches, Matches
  <2>4. QED  BY <2>2, <2>3
<1>4. CASE TruncateIndex
  <2>1. tables'.reorg = tables.reorg
    BY <1>4 DEF TruncateIndex, TablesInv, IsolatedIn, HasTables, TableNames
  <2>2. QED  BY <1>1, <2>1
<1>5. CASE RebuildBlock
  <2>1. tables'.reorg = tables.reorg
    BY <1>5, ReindexesOnly DEF RebuildBlock, SameButIndex, TableNames
  <2>2. QED  BY <1>1, <2>1
<1>6. CASE KillRebuild \/ ListBlocks \/ Refused
  BY <1>1, <1>6 DEF KillRebuild, ListBlocks, Refused
<1>7. ASSUME NEW n \in Blocks, FullTaken(n) PROVE tables'.reorg = tables.reorg
  BY <1>7, FullSnapshotKeeps DEF TablesInv, IsolatedIn, TableNames
<1>8. QED  BY <1>1, <1>2, <1>3, <1>4, <1>5, <1>6, <1>7, StepsAre DEF TablesInv

\* The counters of every block row, harvested or archived, are the numbers of its
\* rows, whatever was added, removed and added again.
THEOREM CountersAlwaysMatch == AccumulationSpec => []CountersMatchRows
<1>1. AccumulationSpec => []TablesInv
  BY TablesInvariant
<1>2. AccumulationInit => ArchiveMatches
  <2>1. AccumulationInit => DOMAIN tables.reorg = {}
    BY DEF AccumulationInit, NoTables, NoRows
  <2>2. QED  BY <2>1 DEF ArchiveMatches
<1>3. TablesInv /\ ArchiveMatches /\ [AccumulationNext]_vars2 => ArchiveMatches'
  BY StepArchive
<1>4. TablesInv /\ ArchiveMatches => CountersMatchRows
  <2> SUFFICES ASSUME TablesInv, ArchiveMatches PROVE CountersMatchRows
    OBVIOUS
  <2>1. \A n \in harvested :
          Matches(tables.blocks[n].counters, {r \in tables.events : r[1] = n},
                  {r \in tables.extrinsics : r[1] = n}, {r \in tables.logs : r[1] = n})
    BY HarvestedMatch
  <2>2. QED  BY <2>1 DEF ArchiveMatches, Matches, CountersMatchRows
<1>5. QED  BY <1>1, <1>2, <1>3, <1>4, PTL DEF AccumulationSpec

------------------------------------------------------------------------------
(* The tables that the events of many blocks share.                          *)

\* What the blocks harvested tell.
HeardOf(at, hs) == UNION {HeardIn(n, at[n], DOMAIN at[n].events) : n \in hs}

\* As long as no block has been removed, the blocks are those of one chain.
OfOneChain(k) ==
  k \in chains /\ \A n \in Blocks : content[n] \in {k[n], WithoutEvents(k[n])}

SharedInv ==
  /\ removals \in Nat
  /\ removals = 0 => \E k : OfOneChain(k)
  /\ IsFiniteSet(HeardOf(content, harvested))
  /\ ChecksTold(tables.checks, HeardOf(content, harvested))
  /\ removals = 0 => Told(tables, HeardOf(content, harvested))
  /\ removals = 0 /\ upward => Latest(tables, HeardOf(content, harvested))

\* E is what is heard of the block as well.
HeardMore(E, F, n, c) == E = F \cup HeardIn(n, c, DOMAIN c.events)

LEMMA HeardOfMore ==
  ASSUME NEW at, NEW hs, NEW n, NEW c, NEW other, Agree(at, other, hs), other[n] = c,
         NEW more, more = hs \cup {n}
  PROVE  HeardMore(HeardOf(other, more), HeardOf(at, hs), n, c)
<1> DEFINE of(m) == HeardIn(m, at[m], DOMAIN at[m].events)
           new(m) == HeardIn(m, other[m], DOMAIN other[m].events)
<1>1. \A m \in hs : new(m) = of(m)
  BY DEF Agree
<1> HIDE DEF of, new
<1>2. UNION {new(m) : m \in hs \cup {n}} = (UNION {of(m) : m \in hs}) \cup new(n)
  BY <1>1
<1>3. QED  BY <1>2 DEF HeardMore, HeardOf, of, new

LEMMA HeardOfLess ==
  ASSUME NEW at, NEW hs, NEW n, NEW other, Agree(at, other, hs \ {n})
  PROVE  HeardOf(other, hs \ {n}) \subseteq HeardOf(at, hs)
BY DEF Agree, HeardOf

\* Every event heard of is one of a block harvested.
LEMMA HeardOfBlocks ==
  ASSUME NEW at, NEW hs, NEW f
  PROVE  f \in HeardOf(at, hs) <=>
           \E n \in hs : \E i \in DOMAIN at[n].events : f = Heard(n, at[n].events[i])
BY DEF HeardOf, HeardIn

\* Where the event comes from on chain k.
At(k, f, m, j) == m \in Blocks /\ j \in DOMAIN k[m].events /\ f = Heard(m, k[m].events[j])

LEMMA HeardOnChain ==
  ASSUME ContentInv, harvested \subseteq Blocks, NEW k, OfOneChain(k),
         NEW n \in Blocks, n \notin harvested, NEW c, c \in {content[n], WithoutEvents(content[n])},
         NEW i \in DOMAIN c.events
  PROVE  /\ At(k, Heard(n, c.events[i]), n, i)
         /\ \A g \in Others(HeardOf(content, harvested), n, c, i) : \E m, j :
              At(k, g, m, j) /\ <<m, j>> # <<n, i>> /\ (m = n \/ m \in harvested)
<1>1. \A m \in Blocks : IsBlock(k[m]) /\ DOMAIN WithoutEvents(k[m]).events = {}
  <2>1. \A m \in Blocks : IsBlock(k[m])
    BY AccumulationAssumption DEF AccumulationAssumption, ContentInv, OfOneChain
  <2>2. \A m \in Blocks : DOMAIN WithoutEvents(k[m]).events = {}
    BY <2>1, WithoutEventsIsBlock
  <2>3. QED  BY <2>1, <2>2
<1>2. \A m \in Blocks : DOMAIN content[m].events # {} => content[m] = k[m]
  BY <1>1 DEF OfOneChain
<1>3. c = k[n]
  <2>1. IsBlock(content[n])
    BY ContentIsBlocks
  <2>2. DOMAIN WithoutEvents(content[n]).events = {}
    BY <2>1, WithoutEventsIsBlock
  <2>3. QED  BY <1>2, <2>2
<1>4. At(k, Heard(n, c.events[i]), n, i)
  BY <1>3 DEF At
<1>5. ASSUME NEW g \in Others(HeardOf(content, harvested), n, c, i)
      PROVE  \E m, j : At(k, g, m, j) /\ <<m, j>> # <<n, i>> /\ (m = n \/ m \in harvested)
  <2>1. CASE g \in HeardOf(content, harvested)
    <3>1. PICK m \in harvested : \E j \in DOMAIN content[m].events : g = Heard(m, content[m].events[j])
      BY <2>1, HeardOfBlocks
    <3>2. PICK j \in DOMAIN content[m].events : g = Heard(m, content[m].events[j])
      BY <3>1
    <3>3. content[m] = k[m] /\ m \in Blocks
      BY <1>2, <3>1, <3>2
    <3>4. At(k, g, m, j) /\ m # n
      BY <3>1, <3>2, <3>3 DEF At
    <3>5. QED  BY <3>1, <3>4
  <2>2. CASE g \in HeardIn(n, c, DOMAIN c.events \ {i})
    <3>1. PICK j \in DOMAIN c.events \ {i} : g = Heard(n, c.events[j])
      BY <2>2 DEF HeardIn
    <3>2. At(k, g, n, j) /\ j # i
      BY <1>3, <3>1 DEF At
    <3>3. QED  BY <3>2
  <2>3. QED  BY <2>1, <2>2 DEF Others
<1>6. QED  BY <1>4, <1>5

\* What the assumption on chains says of two events heard.
LEMMA HeardApart ==
  ASSUME ContentInv, NEW k \in chains, NEW f, NEW n, NEW i, At(k, f, n, i),
         NEW g, NEW m, NEW j, At(k, g, m, j), <<m, j>> # <<n, i>>
  PROVE  /\ f.block = n /\ g.block = m
         /\ ~SaySame(f.e, g.e)
         /\ SameEstimate(f, g) => m # n /\ (f.e.kind = "NewEstimates" => n < m)
         /\ IsOf(f, "NewSession") /\ IsOf(g, "NewSession") => m # n
<1>1. /\ n \in Blocks /\ i \in DOMAIN k[n].events /\ f.block = n /\ f.e = k[n].events[i]
      /\ m \in Blocks /\ j \in DOMAIN k[m].events /\ g.block = m /\ g.e = k[m].events[j]
  BY DEF At, Heard
<1>2. chains \in Themes
  BY DEF ContentInv
<1>3. /\ ~SaySame(f.e, g.e)
      /\ OfOneEstimate(g.e, f.e) => m # n /\ (f.e.kind = "NewEstimates" => n < m)
      /\ g.e.kind = "NewSession" /\ f.e.kind = "NewSession" => m # n
  <2>1. ~SaySame(k[n].events[i], k[m].events[j])
    BY <1>1, <1>2, HistoryAssumption DEF HistoryAssumption
  <2>2. LET d == k[m].events[j]
            e == k[n].events[i]
        IN /\ OfOneEstimate(d, e) => m # n /\ (e.kind = "NewEstimates" => n < m)
           /\ d.kind = "NewSession" /\ e.kind = "NewSession" => m # n
    BY <1>1, <1>2, HistoryAssumption DEF HistoryAssumption
  <2>3. QED  BY <1>1, <2>1, <2>2
<1>4. QED  BY <1>1, <1>3 DEF SameEstimate, IsOfEstimate, OfOneEstimate, IsOf

LEMMA BlockSaysOnce ==
  ASSUME ContentInv, harvested \subseteq Blocks, NEW k, OfOneChain(k),
         NEW n \in Blocks, n \notin harvested, NEW c, c \in {content[n], WithoutEvents(content[n])}
  PROVE  /\ AllOnce(HeardOf(content, harvested), n, c)
         /\ (\A m \in harvested : m < n) => AllAbove(HeardOf(content, harvested), n, c)
<1> DEFINE F == HeardOf(content, harvested)
<1>1. k \in chains
  BY DEF OfOneChain
<1>2. ASSUME NEW i \in DOMAIN c.events PROVE Once(Others(F, n, c, i), Heard(n, c.events[i]))
  <2> DEFINE f == Heard(n, c.events[i])
  <2>1. \A g \in Others(F, n, c, i) : ~SaySame(f.e, g.e)
    BY <1>1, HeardOnChain, HeardApart
  <2> HIDE DEF f, F
  <2>2. Once(Others(F, n, c, i), f)
    BY <2>1 DEF Once, SaySame, IsOf
  <2>3. QED  BY <2>2 DEF f
<1>3. ASSUME \A m \in harvested : m < n, NEW i \in DOMAIN c.events
      PROVE  Above(Others(F, n, c, i), Heard(n, c.events[i]))
  <2> DEFINE f == Heard(n, c.events[i])
  <2>1. \A m \in Blocks : m \in Nat
    BY RemindersAssumption DEF RemindersAssumption, Blocks
  <2>2. ASSUME NEW g \in Others(F, n, c, i)
        PROVE  /\ g.block \in Nat
               /\ SameEstimate(f, g) => g.block < f.block /\ f.e.kind # "NewEstimates"
               /\ IsOf(f, "NewSession") /\ IsOf(g, "NewSession") => g.block < f.block
    <3>1. At(k, f, n, i)
      BY HeardOnChain
    <3>2. PICK m, j : At(k, g, m, j) /\ <<m, j>> # <<n, i>> /\ (m = n \/ m \in harvested)
      BY HeardOnChain
    <3> HIDE DEF f, F
    <3>3. /\ f.block = n /\ g.block = m
          /\ SameEstimate(f, g) => m # n /\ (f.e.kind = "NewEstimates" => n < m)
          /\ IsOf(f, "NewSession") /\ IsOf(g, "NewSession") => m # n
      BY <1>1, <3>1, <3>2, HeardApart
    <3>4. m \in Nat /\ n \in Nat /\ (m # n => m < n)
      BY <1>3, <2>1, <3>2 DEF At
    <3>5. QED  BY <3>3, <3>4
  <2>3. f.block \in Nat
    BY <2>1 DEF Heard
  <2> HIDE DEF f, F
  <2>4. Above(Others(F, n, c, i), f)
    BY <2>2, <2>3 DEF Above
  <2>5. QED  BY <2>4 DEF f
<1>4. QED  BY <1>2, <1>3 DEF AllOnce, AllAbove

LEMMA InitShared == AccumulationInit => SharedInv
<1> SUFFICES ASSUME AccumulationInit PROVE SharedInv
  OBVIOUS
<1>1. harvested = {} /\ removals = 0 /\ tables = NoTables
  BY DEF AccumulationInit, Init
<1>2. OfOneChain(content)
  BY DEF AccumulationInit, OfOneChain
<1>3. HeardOf(content, harvested) = {}
  BY <1>1 DEF HeardOf
<1>4. /\ DOMAIN NoTables.purchases = {} /\ DOMAIN NoTables.eras = {}
      /\ NoTables.estimates = <<>> /\ NoTables.checks = NoRows
  BY DEF NoTables, NoRows
<1>5. PurchasesTold(NoTables.purchases, {}) /\ ErasTold(NoTables.eras, {})
  BY <1>4 DEF PurchasesTold, ErasTold
<1>6. IsEstimateList(<<>>) /\ EstimatesTold(<<>>, {}) /\ EstimatesLatest(<<>>, {})
  BY AreLists DEF IsEstimateList, EstimatesTold, EstimatesLatest
<1>7. ChecksTold(NoTables.checks, {}) /\ ChecksLatest(NoTables.checks, {})
  BY DEF ChecksTold, ChecksLatest
<1>8. Told(NoTables, {}) /\ Latest(NoTables, {})
  BY <1>4, <1>5, <1>6, <1>7 DEF Told, Latest
<1>9. IsFiniteSet({})
  BY FS_EmptySet
<1>10. QED  BY <1>1, <1>2, <1>3, <1>7, <1>8, <1>9 DEF SharedInv

\* The shared tables as they are.
SameShared(u, t) ==
  /\ u.purchases = t.purchases /\ u.eras = t.eras
  /\ u.estimates = t.estimates /\ u.checks = t.checks

LEMMA StepShared ==
  TablesInv /\ SharedInv /\ [AccumulationNext]_vars2 => SharedInv'
<1> SUFFICES ASSUME TablesInv, SharedInv, [AccumulationNext]_vars2 PROVE SharedInv'
  OBVIOUS
<1> DEFINE F == HeardOf(content, harvested)
<1>1. ContentInv /\ harvested \subseteq Blocks /\ HasTables(tables)
  BY DEF TablesInv, ChainInv, IsolatedIn
<1>2. ASSUME NEW n \in Blocks, NEW c, Added(n, c) PROVE SharedInv'
  <2> DEFINE H == F \cup HeardIn(n, c, DOMAIN c.events)
  <2>1. IsBlock(c)
    BY <1>2, AddedDoes
  <2>2. HeardOf(content', harvested') = H
    <3>1. Agree(content, content', harvested) /\ content'[n] = c /\ harvested' = harvested \cup {n}
      BY <1>1, <1>2 DEF Agree, Added
    <3>2. HeardMore(HeardOf(content', harvested'), F, n, c)
      BY <3>1, HeardOfMore
    <3>3. QED  BY <3>2 DEF HeardMore
  <2>3. Tells(tables', tables, F, n, c, DOMAIN c.events)
    <3>1. IsFiniteSet(F) /\ tables' = WithBlock(tables, n, c)
      BY <1>2 DEF SharedInv, Added
    <3> HIDE DEF F
    <3>2. QED  BY <1>1, <2>1, <3>1, BlockTells DEF IsBlock
  <2>4. ASSUME removals = 0
        PROVE  /\ \E k : OfOneChain(k)'
               /\ AllOnce(F, n, c) /\ ((\A m \in harvested : m < n) => AllAbove(F, n, c))
    <3>1. PICK k : OfOneChain(k)
      BY <2>4 DEF SharedInv
    <3>2. n \notin harvested /\ c \in {content[n], WithoutEvents(content[n])}
      BY <1>2 DEF Added
    <3>3. OfOneChain(k)'
      <4>1. content'[n] \in {k[n], WithoutEvents(k[n])}
        <5>1. WithoutEvents(WithoutEvents(k[n])) = WithoutEvents(k[n])
          BY DEF WithoutEvents
        <5>2. QED  BY <1>2, <3>1, <3>2, <5>1 DEF Added, OfOneChain
      <4>2. chains' = chains /\ \A m \in Blocks \ {n} : content'[m] = content[m]
        BY <1>2 DEF Added
      <4>3. QED  BY <3>1, <4>1, <4>2 DEF OfOneChain
    <3>4. QED  BY <1>1, <3>1, <3>2, <3>3, BlockSaysOnce
  <2>5. removals' = removals /\ upward' = (upward /\ \A m \in harvested : m < n)
    BY <1>2 DEF Added
  <2> HIDE DEF H
  <2>6. IsFiniteSet(H) /\ ChecksTold(tables'.checks, H)
    BY <2>3 DEF Tells, SharedInv, H
  <2>7. removals = 0 => Told(tables', H)
    BY <2>3, <2>4 DEF Tells, SharedInv, H
  <2>8. removals = 0 /\ upward' => Latest(tables', H)
    <3>1. SUFFICES ASSUME removals = 0, upward' PROVE Latest(tables', H)
      OBVIOUS
    <3>2. upward /\ AllOnce(F, n, c) /\ AllAbove(F, n, c)
      BY <2>4, <2>5, <3>1
    <3>3. Told(tables, F) /\ Latest(tables, F) /\ ChecksTold(tables.checks, F)
      BY <3>1, <3>2 DEF SharedInv
    <3> HIDE DEF F
    <3>4. QED  BY <2>3, <3>2, <3>3 DEF Tells, H
  <2>9. QED  BY <2>2, <2>4, <2>5, <2>6, <2>7, <2>8 DEF SharedInv
<1>3. ASSUME NEW n \in Blocks, Removed(n) PROVE SharedInv'
  <2>1. tables'.checks = tables.checks /\ removals' \in Nat /\ removals' # 0
    BY <1>3, RemovedDoes DEF Removed, SharedInv
  <2>2. HeardOf(content', harvested') \subseteq F
    <3>1. Agree(content, content', harvested \ {n}) /\ harvested' = harvested \ {n}
      BY <1>1, <1>3 DEF Agree, Removed
    <3>2. QED  BY <3>1, HeardOfLess
  <2>3. IsFiniteSet(HeardOf(content', harvested'))
    BY <2>2, FS_Subset DEF SharedInv
  <2>4. ChecksTold(tables'.checks, HeardOf(content', harvested'))
    BY <2>1, <2>2 DEF ChecksTold, SharedInv
  <2>5. QED  BY <2>1, <2>3, <2>4 DEF SharedInv
<1>4. ASSUME BlocksStay, SameShared(tables', tables) PROVE SharedInv'
  <2>1. /\ harvested' = harvested /\ removals' = removals /\ chains' = chains
        /\ content' = content /\ upward' = upward
    BY <1>4 DEF BlocksStay
  <2>2. \A E : /\ Told(tables, E) => Told(tables', E)
               /\ Latest(tables, E) => Latest(tables', E)
               /\ ChecksTold(tables.checks, E) => ChecksTold(tables'.checks, E)
    BY <1>4 DEF SameShared, Told, Latest
  <2>3. \A k : OfOneChain(k) => OfOneChain(k)'
    BY <2>1 DEF OfOneChain
  <2>4. QED  BY <2>1, <2>2, <2>3 DEF SharedInv
<1>5. CASE TruncateIndex /\ BlocksStay
  <2>1. SameShared(tables', tables)
    BY <1>1, <1>5 DEF TruncateIndex, SameShared, HasTables, TableNames
  <2>2. QED  BY <1>4, <1>5, <2>1
<1>6. CASE RebuildBlock /\ BlocksStay
  <2>1. SameShared(tables', tables)
    BY <1>6, ReindexesOnly DEF RebuildBlock, SameButIndex, TableNames, SameShared
  <2>2. QED  BY <1>4, <1>6, <2>1
<1>7. CASE (KillRebuild \/ ListBlocks) /\ BlocksStay
  BY <1>4, <1>7 DEF KillRebuild, ListBlocks, SameShared
<1>8. CASE Refused
  BY <1>4, <1>8 DEF Refused, SameShared
<1>9. ASSUME NEW n \in Blocks, FullTaken(n) PROVE SharedInv'
  <2>1. SameShared(tables', tables)
    BY <1>1, <1>9, FullSnapshotKeeps DEF SameShared, TableNames
  <2>2. QED  BY <1>4, <1>9, <2>1 DEF FullTaken
<1>10. QED  BY <1>2, <1>3, <1>5, <1>6, <1>7, <1>8, <1>9, StepsAre DEF TablesInv

LEMMA SharedInvariant == AccumulationSpec => []SharedInv
<1>1. AccumulationSpec => []TablesInv
  BY TablesInvariant
<1>2. AccumulationInit => SharedInv
  BY InitShared
<1>3. TablesInv /\ SharedInv /\ [AccumulationNext]_vars2 => SharedInv'
  BY StepShared
<1>4. QED  BY <1>1, <1>2, <1>3, PTL DEF AccumulationSpec

LEMMA FoundIsHeard ==
  ASSUME NEW kind
  PROVE  Found(kind) = {f \in HeardOf(content, harvested) : IsOf(f, kind)}
<1>1. ASSUME NEW f \in Found(kind) PROVE f \in HeardOf(content, harvested) /\ IsOf(f, kind)
  <2>1. PICK n \in harvested : \E i \in Positions(content[n].events, {kind}) :
                                 f = [block |-> n, e |-> content[n].events[i]]
    BY DEF Found
  <2>2. PICK i \in Positions(content[n].events, {kind}) :
               f = [block |-> n, e |-> content[n].events[i]]
    BY <2>1
  <2>3. i \in DOMAIN content[n].events /\ content[n].events[i].kind = kind
    BY <2>2 DEF Positions
  <2>4. f = Heard(n, content[n].events[i]) /\ IsOf(f, kind)
    BY <2>2, <2>3 DEF Heard, IsOf
  <2>5. QED  BY <2>1, <2>3, <2>4, HeardOfBlocks
<1>2. ASSUME NEW f \in HeardOf(content, harvested), IsOf(f, kind) PROVE f \in Found(kind)
  <2>1. PICK n \in harvested : \E i \in DOMAIN content[n].events : f = Heard(n, content[n].events[i])
    BY HeardOfBlocks
  <2>2. PICK i \in DOMAIN content[n].events : f = Heard(n, content[n].events[i])
    BY <2>1
  <2>3. i \in Positions(content[n].events, {kind})
    BY <1>2, <2>2 DEF Positions, Heard, IsOf
  <2>4. f = [block |-> n, e |-> content[n].events[i]]
    BY <2>2 DEF Heard
  <2>5. QED  BY <2>1, <2>3, <2>4 DEF Found
<1>3. QED  BY <1>1, <1>2

\* In whatever order the events of purchases and eras come in, their rows add up.
THEOREM RequestsAlwaysAddUp == AccumulationSpec => []RequestsAddUp
<1>1. AccumulationSpec => []SharedInv
  BY SharedInvariant
<1>2. SharedInv => RequestsAddUp
  <2> SUFFICES ASSUME SharedInv, removals = 0 PROVE RequestsAddUp
    BY DEF RequestsAddUp
  <2> DEFINE F == HeardOf(content, harvested)
  <2>1. \A kind : Found(kind) = {f \in F : IsOf(f, kind)}
    BY FoundIsHeard
  <2>2. PurchasesTold(tables.purchases, F) /\ ErasTold(tables.eras, F)
    BY DEF SharedInv, Told
  <2> HIDE DEF F
  <2>3. \A era : {f \in Found("NewPurchasedRequest") : f.e.era = era} = RequestsOf(F, era)
    BY <2>1 DEF RequestsOf
  <2>4. \A f \in Found("NewPurchasedRequest") : tables.purchases[f.e.id].created = f.block
    BY <2>1, <2>2 DEF PurchasesTold
  <2>5. \A f \in Found("PayForPurchase") :
          tables.purchases[f.e.id].status = 1 /\ tables.purchases[f.e.id].payment = f.e.fee
    BY <2>1, <2>2 DEF PurchasesTold
  <2>6. \A f \in Found("PurchasedAvgPrice") : tables.purchases[f.e.id].ended = f.block
    BY <2>1, <2>2 DEF PurchasesTold
  <2>7. \A f \in Found("EndOfAskEra") : f.e.points > 0 => tables.eras[f.e.era].ended = f.block
    BY <2>1, <2>2 DEF ErasTold
  <2>8. \A era \in DOMAIN tables.eras :
          tables.eras[era].requests = Cardinality({f \in Found("NewPurchasedRequest") : f.e.era = era})
    BY <2>2, <2>3 DEF ErasTold
  <2>9. QED  BY <2>4, <2>5, <2>6, <2>7, <2>8 DEF RequestsAddUp
<1>3. QED  BY <1>1, <1>2, PTL

\* No estimate that a block tells of is missing from the list, and as long as blocks
\* come in upwards it is there once, in its latest state.
THEOREM EstimatesStayListed == AccumulationSpec => []EstimatesListed
<1>1. AccumulationSpec => []SharedInv
  BY SharedInvariant
<1>2. SharedInv => EstimatesListed
  <2> DEFINE F == HeardOf(content, harvested)
  <2> SUFFICES ASSUME SharedInv, removals = 0, NEW f \in EstimateEvents
               PROVE  LET rows == RowsOfEstimate(tables, f.e.estimate)
                          same == {g \in EstimateEvents : g.e.estimate = f.e.estimate}
                      IN /\ rows # {}
                         /\ upward /\ (\A g \in same : g.block <= f.block) =>
                              /\ Cardinality(rows) = 1
                              /\ tables.estimates[Min(rows)].state = f.e.state
    BY DEF EstimatesListed
  <2> DEFINE rows == RowsOfEstimate(tables, f.e.estimate)
             same == {g \in EstimateEvents : g.e.estimate = f.e.estimate}
  <2>1. EstimateEvents = {g \in F : IsOfEstimate(g)}
    BY FoundIsHeard DEF EstimateEvents, IsOfEstimate, EstimateKinds, IsOf
  <2>2. rows = RowsIn(tables.estimates, f.e.estimate)
    BY DEF RowsOfEstimate, RowsIn
  <2>3. IsEstimateList(tables.estimates) /\ EstimatesTold(tables.estimates, F)
    BY DEF SharedInv, Told
  <2>4. rows # {}
    BY <2>1, <2>2, <2>3 DEF EstimatesTold
  <2>5. ASSUME upward, \A g \in same : g.block <= f.block
        PROVE  Cardinality(rows) = 1 /\ tables.estimates[Min(rows)].state = f.e.state
    <3>1. EstimatesLatest(tables.estimates, F)
      BY <2>5 DEF SharedInv, Latest
    <3>2. \A g \in F : SameEstimate(f, g) => g.block <= f.block
      BY <2>1, <2>5 DEF SameEstimate
    <3>3. \A i \in rows : tables.estimates[i].state = f.e.state
      BY <2>1, <2>2, <3>1, <3>2 DEF EstimatesLatest
    <3>4. \A i, j \in rows : i = j
      BY <2>2, <3>1 DEF EstimatesLatest, RowsIn
    <3>5. rows \subseteq Nat
      BY <2>2, <2>3, ListDomain DEF IsEstimateList, RowsIn
    <3> HIDE DEF rows
    <3>6. PICK i : rows = {i} /\ i \in Nat
      BY <2>4, <3>4, <3>5
    <3>7. Min(rows) = i
      BY <3>6 DEF Min
    <3>8. Cardinality(rows) = 1
      BY <3>6, FS_Singleton
    <3>9. QED  BY <3>3, <3>6, <3>7, <3>8
  <2>6. QED  BY <2>4, <2>5
<1>3. QED  BY <1>1, <1>2, PTL

\* No check of a validator that a session finds is ever lost, and as long as blocks
\* come in upwards and none is removed it is that of the latest session.
THEOREM ChecksStayListed == AccumulationSpec => []ChecksListed
<1>1. AccumulationSpec => []SharedInv
  BY SharedInvariant
<1>2. SharedInv => ChecksListed
  <2> DEFINE F == HeardOf(content, harvested)
  <2> SUFFICES ASSUME SharedInv, NEW f \in Found("NewSession"), NEW key \in DOMAIN f.e.checks
               PROVE  /\ key \in DOMAIN tables.checks
                      /\ removals = 0 /\ upward
                           /\ (\A g \in Found("NewSession") :
                                 key \in DOMAIN g.e.checks => g.block <= f.block)
                         => tables.checks[key] = f.e.checks[key]
    BY DEF ChecksListed
  <2>1. Found("NewSession") = {g \in F : IsOf(g, "NewSession")}
    BY FoundIsHeard
  <2>2. ChecksTold(tables.checks, F)
    BY DEF SharedInv
  <2>3. removals = 0 /\ upward => ChecksLatest(tables.checks, F)
    BY DEF SharedInv, Latest
  <2> HIDE DEF F
  <2>4. key \in DOMAIN tables.checks
    BY <2>1, <2>2 DEF ChecksTold
  <2>5. ASSUME removals = 0, upward,
               \A g \in Found("NewSession") : key \in DOMAIN g.e.checks => g.block <= f.block
        PROVE  tables.checks[key] = f.e.checks[key]
    BY <2>1, <2>3, <2>5 DEF ChecksLatest
  <2>6. QED  BY <2>4, <2>5
<1>3. QED  BY <1>1, <1>2, PTL

------------------------------------------------------------------------------
(* The rows of a runtime.                                                  *)

ConstantStep(a, i, r) == WithConstant(r, a[i])
PalletStep(a, i, r) == WithPallet(r, a[i])

Noting == INSTANCE Recursion WITH Step <- ConstantStep, Pick <- Max
Processing == INSTANCE Recursion WITH Step <- PalletStep, Pick <- Max

LEMMA ConstantsIterate ==
  ASSUME NEW r, NEW pallet, IsList(pallet.constants)
  PROVE  \E iter : /\ Noting!Iterates(iter, pallet.constants, r, DOMAIN pallet.constants)
                   /\ WithConstants(r, pallet) = iter[DOMAIN pallet.constants]
<1> DEFINE list == pallet.constants
           S == DOMAIN list
           Folds(g) ==
             g = [s \in SUBSET S |->
                    IF s = {} THEN r ELSE WithConstant(g[s \ {Max(s)}], list[Max(s)])]
<1>1. PICK iter : Noting!Iterates(iter, list, r, S)
  <2>1. /\ Noting!Sized(S)
        /\ \A s \in SUBSET S : s # {} => Max(s) \in s
    BY LastIsMember DEF Noting!Sized, Indexing!Sized
  <2>2. QED  BY <2>1, Noting!IterationExists
<1>2. \A g : Folds(g) <=> Noting!Iterates(g, list, r, S)
  BY DEF Noting!Iterates, ConstantStep
<1>3. WithConstants(r, pallet) = (CHOOSE g : Folds(g))[S]
  BY DEF WithConstants, FoldLeft, MapThenFoldSet
<1>4. Folds(CHOOSE g : Folds(g))
  <2> HIDE DEF Folds
  <2>1. QED  BY <1>1, <1>2, Zenon
<1> HIDE DEF Folds
<1>5. QED  BY <1>2, <1>3, <1>4

LEMMA PalletsIterate ==
  ASSUME NEW pallets, IsList(pallets)
  PROVE  \E iter : /\ Processing!Iterates(iter, pallets, NoRuntime(pallets), DOMAIN pallets)
                   /\ Processed(pallets) = iter[DOMAIN pallets]
<1> DEFINE S == DOMAIN pallets
           r == NoRuntime(pallets)
           Folds(g) ==
             g = [s \in SUBSET S |->
                    IF s = {} THEN r ELSE WithPallet(g[s \ {Max(s)}], pallets[Max(s)])]
<1>1. PICK iter : Processing!Iterates(iter, pallets, r, S)
  <2>1. /\ Processing!Sized(S)
        /\ \A s \in SUBSET S : s # {} => Max(s) \in s
    BY LastIsMember DEF Processing!Sized, Indexing!Sized
  <2>2. QED  BY <2>1, Processing!IterationExists
<1>2. \A g : Folds(g) <=> Processing!Iterates(g, pallets, r, S)
  BY DEF Processing!Iterates, PalletStep
<1>3. Processed(pallets) = (CHOOSE g : Folds(g))[S]
  BY DEF Processed, FoldLeft, MapThenFoldSet
<1>4. Folds(CHOOSE g : Folds(g))
  <2> HIDE DEF Folds
  <2>1. QED  BY <1>1, <1>2, Zenon
<1> HIDE DEF Folds
<1>5. QED  BY <1>2, <1>3, <1>4

\* The constants of a pallet leave alone what there is of the runtime's modules.
KeepsModules(r, q) ==
  /\ DOMAIN r = DOMAIN q
  /\ r.modules = q.modules /\ r.counts = q.counts /\ r.clash = q.clash

IsResult(r) == DOMAIN r = {"modules", "constants", "type", "raised", "clash", "counts"}

LEMMA ConstantKeeps ==
  ASSUME NEW r, NEW q, IsResult(q), KeepsModules(r, q), NEW constant
  PROVE  KeepsModules(WithConstant(r, constant), q)
BY DEF IsResult, KeepsModules, WithConstant

LEMMA ConstantsKeep ==
  ASSUME NEW q, IsResult(q), NEW pallet, IsList(pallet.constants)
  PROVE  KeepsModules(WithConstants(q, pallet), q)
<1> DEFINE list == pallet.constants
           S == DOMAIN list
<1>1. PICK iter : Noting!Iterates(iter, list, q, S) /\ WithConstants(q, pallet) = iter[S]
  BY ConstantsIterate
<1>2. Noting!Sized(S) /\ \A s \in SUBSET S : s # {} => Max(s) \in s
  BY LastIsMember DEF Noting!Sized, Indexing!Sized
<1> DEFINE G == {s \in SUBSET S : KeepsModules(iter[s], q)}
<1> HIDE DEF S, list
<1>3. {} \in G
  BY <1>1 DEF Noting!Iterates, KeepsModules
<1>4. ASSUME NEW s \in SUBSET S, s # {}, s \ {Max(s)} \in G PROVE s \in G
  <2> DEFINE rest == s \ {Max(s)}
  <2>1. iter[s] = ConstantStep(list, Max(s), iter[rest])
    BY <1>1, <1>4 DEF Noting!Iterates
  <2>2. KeepsModules(iter[rest], q)
    BY <1>4
  <2> HIDE DEF rest
  <2>3. QED  BY <2>1, <2>2, ConstantKeeps DEF ConstantStep
<1>5. S \in G
  <2> HIDE DEF G
  <2>1. QED  BY <1>2, <1>3, <1>4, Noting!IterationKeeps
<1>6. QED  BY <1>1, <1>5 DEF S

Parts == {"calls", "events", "storage", "errors", "constants"}

LEMMA RowCountIsSum ==
  ASSUME NEW modules, IsFiniteSet(DOMAIN modules), NEW what
  PROVE  \E f : /\ Sums!IsSum(f, [id \in DOMAIN modules |-> Cardinality(modules[id][what])],
                              DOMAIN modules)
                /\ RowCount(modules, what) = f[DOMAIN modules]
<1> DEFINE S == DOMAIN modules
           v == [id \in S |-> Cardinality(modules[id][what])]
           Folds(f) ==
             f = [s \in SUBSET S |->
                    IF s = {} THEN 0
                    ELSE Cardinality(modules[CHOOSE x \in s : TRUE][what])
                           + f[s \ {CHOOSE x \in s : TRUE}]]
<1>1. \A s \in SUBSET S : s # {} => AnyOf(s) \in s
  BY DEF AnyOf
<1>2. Sums!Sized(S)
  BY FiniteSetsAreSized
<1>3. PICK f : Sums!Iterates(f, v, 0, S)
  <2> HIDE DEF v
  <2>1. QED  BY <1>1, <1>2, Sums!IterationExists
<1>4. Folds(f)
  BY <1>1, <1>3 DEF Plus, AnyOf, Sums!Iterates
<1>5. \A g : Folds(g) => Sums!IsSum(g, v, S)
  BY <1>1 DEF Sums!IsSum, Sums!Any, AnyOf
<1>6. RowCount(modules, what) = (CHOOSE g : Folds(g))[S]
  BY DEF RowCount, MapThenSumSet, MapThenFoldSet
<1>7. Folds(CHOOSE g : Folds(g))
  BY <1>4, Zenon
<1>8. QED  BY <1>5, <1>6, <1>7

LEMMA RowCountOfNone ==
  ASSUME NEW what
  PROVE  RowCount(NoRows, what) = 0
<1>1. DOMAIN NoRows = {} /\ IsFiniteSet({})
  BY FS_EmptySet DEF NoRows
<1>2. PICK f : /\ Sums!IsSum(f, [id \in {} |-> Cardinality(NoRows[id][what])], {})
               /\ RowCount(NoRows, what) = f[{}]
  BY <1>1, RowCountIsSum
<1>3. QED  BY <1>2 DEF Sums!IsSum

\* Every module has a number of rows of the kind.
Sizes(modules, what) == \A id \in DOMAIN modules : Cardinality(modules[id][what]) \in Int

LEMMA RowCountOfOneMore ==
  ASSUME NEW modules, IsFiniteSet(DOMAIN modules), NEW id, id \notin DOMAIN modules,
         NEW row, NEW what, Sizes(modules, what), Cardinality(row[what]) \in Int
  PROVE  /\ Sizes(Put(modules, id, row), what)
         /\ RowCount(modules, what) \in Int
         /\ RowCount(Put(modules, id, row), what) = Cardinality(row[what]) + RowCount(modules, what)
<1> DEFINE more == Put(modules, id, row)
           S == DOMAIN modules
           T == DOMAIN more
           v == [k \in S |-> Cardinality(modules[k][what])]
           w == [k \in T |-> Cardinality(more[k][what])]
<1>0. T = S \cup {id} /\ (\A k \in S : more[k] = modules[k]) /\ more[id] = row
  BY DEF Put
<1> HIDE DEF more
<1>1. IsFiniteSet(T)
  BY <1>0, FS_AddElement
<1>2. PICK f : Sums!IsSum(f, v, S) /\ RowCount(modules, what) = f[S]
  BY RowCountIsSum
<1>3. PICK g : Sums!IsSum(g, w, T) /\ RowCount(more, what) = g[T]
  BY <1>1, RowCountIsSum
<1>4. \A s \in SUBSET T : g[s] \in Int /\ \A x \in s : g[s] = w[x] + g[s \ {x}]
  <2>1. Sums!Sized(T) /\ w \in [T -> Int]
    BY <1>0, <1>1, FiniteSetsAreSized DEF Sizes
  <2> HIDE DEF w, T
  <2>2. Sums!TakesAny(g, w, T)
    BY <1>3, <2>1, Sums!SumTakesAny
  <2>3. QED  BY <2>2 DEF Sums!TakesAny
<1>5. f[S] = g[S]
  <2>1. Sums!Sized(S) /\ S \subseteq T /\ \A m \in S : v[m] = w[m]
    BY <1>0, FiniteSetsAreSized
  <2> HIDE DEF v, w, T, S
  <2>2. QED  BY <1>2, <1>3, <2>1, Sums!SumsAgree
<1>6. T \ {id} = S /\ S \in SUBSET T /\ id \in T
  BY <1>0
<1>7. g[T] = w[id] + g[S]
  BY <1>4, <1>6
<1>8. w[id] = Cardinality(row[what])
  BY <1>0
<1>9. Sizes(more, what)
  BY <1>0 DEF Sizes
<1>10. QED  BY <1>2, <1>3, <1>4, <1>5, <1>6, <1>7, <1>8, <1>9 DEF more

\* The totals are the numbers of the rows of the modules.
Fits(counts, modules) ==
  /\ IsFiniteSet(DOMAIN modules)
  /\ \A what \in Parts : /\ Sizes(modules, what)
                         /\ counts[what] = RowCount(modules, what)

\* There is a module for each pallet in s, and a second one of a name only for
\* two pallets of it.
Named(modules, pallets, s) ==
  /\ Cardinality(DOMAIN modules) = Cardinality(s)
  /\ \A name :
       /\ <<name, 0>> \in DOMAIN modules => \E i \in s : pallets[i].name = name
       /\ <<name, 1>> \in DOMAIN modules =>
            \E i, j \in s : i < j /\ pallets[i].name = name /\ pallets[j].name = name

\* Three pallets have one name.
ThreeAlike(pallets) ==
  \E i, j, k \in DOMAIN pallets :
    /\ i < j /\ j < k
    /\ pallets[i].name = pallets[j].name /\ pallets[j].name = pallets[k].name

\* What the pallets in s have made of a runtime.
ResultOf(r, pallets, s) ==
  /\ IsResult(r)
  /\ r.clash => ThreeAlike(pallets)
  /\ ~r.clash /\ ~r.raised =>
       /\ Fits(r.counts, r.modules) /\ Named(r.modules, pallets, s)
       /\ r.counts.modules = Len(pallets)

LEMMA ModuleRowSizes ==
  ASSUME NEW p, {p.calls, p.events, p.storage, p.errors} \subseteq Nat, IsList(p.constants),
         NEW counts
  PROVE  \A what \in Parts :
           /\ Cardinality(ModuleRow(p)[what]) \in Nat
           /\ counts[what] \in Int =>
                Totals(counts, p)[what] = Cardinality(ModuleRow(p)[what]) + counts[what]
<1>1. \A k \in Nat : Cardinality(1 .. k) = k
  BY FS_Interval
<1>2. Len(p.constants) \in Nat
  BY ListDomain
<1>3. QED
  BY <1>1, <1>2 DEF Parts, ModuleRow, Totals, RuntimeCalls, RuntimeEvents, RuntimeStorage,
                    RuntimeErrors, RuntimeConstants

LEMMA FitsOneMore ==
  ASSUME NEW counts, NEW modules, Fits(counts, modules), NEW id, id \notin DOMAIN modules,
         NEW p, {p.calls, p.events, p.storage, p.errors} \subseteq Nat, IsList(p.constants)
  PROVE  Fits(Totals(counts, p), Put(modules, id, ModuleRow(p)))
<1> DEFINE row == ModuleRow(p)
           more == Put(modules, id, row)
<1>1. IsFiniteSet(DOMAIN more)
  <2>1. DOMAIN more = DOMAIN modules \cup {id}
    BY DEF Put
  <2>2. QED  BY <2>1, FS_AddElement DEF Fits
<1>2. ASSUME NEW what \in Parts
      PROVE  Sizes(more, what) /\ Totals(counts, p)[what] = RowCount(more, what)
  <2>1. Cardinality(row[what]) \in Nat
    BY ModuleRowSizes
  <2> HIDE DEF row
  <2>2. /\ Sizes(more, what) /\ RowCount(modules, what) \in Int
        /\ RowCount(more, what) = Cardinality(row[what]) + RowCount(modules, what)
    BY <2>1, RowCountOfOneMore DEF Fits
  <2>3. counts[what] = RowCount(modules, what)
    BY DEF Fits
  <2>4. Totals(counts, p)[what] = Cardinality(row[what]) + counts[what]
    BY <2>2, <2>3, ModuleRowSizes DEF row
  <2> HIDE DEF more
  <2>5. QED  BY <2>2, <2>3, <2>4
<1> HIDE DEF more
<1>3. Fits(Totals(counts, p), more)
  BY <1>1, <1>2 DEF Fits
<1>4. QED  BY <1>3 DEF more

LEMMA PalletResult ==
  ASSUME NEW pallets, IsMetadata(pallets), NEW s \in SUBSET DOMAIN pallets, s # {},
         NEW q, ResultOf(q, pallets, s \ {Max(s)})
  PROVE  ResultOf(WithPallet(q, pallets[Max(s)]), pallets, s)
<1> DEFINE i == Max(s)
           p == pallets[i]
           rest == s \ {i}
           id == ModuleId(q.modules, p.name)
           r == WithPallet(q, p)
<1>1. i \in s /\ i \in DOMAIN pallets /\ IsList(pallets)
  BY LastIsMember DEF IsMetadata
<1>2. \A j \in rest : j \in DOMAIN pallets /\ j < i
  <2>1. Len(pallets) \in Nat /\ DOMAIN pallets = 1 .. Len(pallets)
    BY <1>1, ListDomain
  <2>2. \A j \in s : j <= i
    <3>1. s \in SUBSET (0 .. Len(pallets))
      BY <2>1
    <3>2. \E m \in s : \A k \in s : k <= m
      BY <2>1, <3>1, Indexing!Greatest
    <3>3. \E m \in s : \A k \in s : m >= k
      BY <2>1, <3>2
    <3>4. \A k \in s : i >= k
      BY <3>3 DEF Max
    <3>5. QED  BY <1>1, <2>1, <3>4
  <2>3. QED  BY <1>1, <2>1, <2>2
<1>3. {p.calls, p.events, p.storage, p.errors} \subseteq Nat /\ IsList(p.constants)
  BY <1>1 DEF IsMetadata
<1> HIDE DEF i
<1>4. CASE q.clash \/ q.raised
  <2>1. r = q
    BY <1>4 DEF WithPallet
  <2>2. QED  BY <1>4, <2>1 DEF ResultOf, i
<1>5. CASE ~q.clash /\ ~q.raised /\ id \in DOMAIN q.modules
  <2>1. r = [q EXCEPT !.clash = TRUE]
    BY <1>5 DEF WithPallet
  <2>2. id = <<p.name, 1>>
    BY <1>5 DEF ModuleId
  <2>3. Named(q.modules, pallets, rest)
    BY <1>5 DEF ResultOf, i
  <2>4. PICK j, k \in rest : j < k /\ pallets[j].name = p.name /\ pallets[k].name = p.name
    <3> HIDE DEF p, rest, id
    <3>1. QED  BY <1>5, <2>2, <2>3 DEF Named
  <2>5. ThreeAlike(pallets)
    BY <1>1, <1>2, <2>4 DEF ThreeAlike
  <2>6. IsResult(r) /\ r.clash
    BY <2>1 DEF ResultOf, IsResult, i
  <2> HIDE DEF r, p
  <2>7. QED  BY <2>5, <2>6 DEF ResultOf, p, r, i
<1>6. CASE ~q.clash /\ ~q.raised /\ id \notin DOMAIN q.modules
  <2> DEFINE w == WithConstants(q, p)
             row == ModuleRow(p)
  <2>1. /\ IsResult(q) /\ Fits(q.counts, q.modules) /\ Named(q.modules, pallets, rest)
        /\ q.counts.modules = Len(pallets)
    BY <1>6 DEF ResultOf, i
  <2>2. KeepsModules(w, q)
    <3> HIDE DEF p
    <3>1. QED  BY <1>3, <2>1, ConstantsKeep
  <2>3. r = [w EXCEPT !.modules = Put(@, id, row), !.counts = Totals(@, p)]
    BY <1>6 DEF WithPallet
  <2> HIDE DEF w
  <2>4. /\ IsResult(r) /\ ~r.clash
        /\ r.modules = Put(q.modules, id, row) /\ r.counts = Totals(q.counts, p)
    BY <1>6, <2>1, <2>2, <2>3 DEF KeepsModules, IsResult
  <2>5. Fits(r.counts, r.modules)
    <3> HIDE DEF p, r, id
    <3>1. QED  BY <1>3, <1>6, <2>1, <2>4, FitsOneMore DEF row
  <2>6. r.counts.modules = Len(pallets)
    BY <2>1, <2>4 DEF Totals
  <2>7. DOMAIN r.modules = DOMAIN q.modules \cup {id}
    BY <2>4 DEF Put
  <2>8. Cardinality(DOMAIN r.modules) = Cardinality(s)
    <3>1. IsFiniteSet(s) /\ IsFiniteSet(rest) /\ s = rest \cup {i} /\ i \notin rest
      BY <1>1, ListDomain, FS_Subset
    <3>2. Cardinality(s) = Cardinality(rest) + 1
      BY <3>1, FS_AddElement
    <3>3. Cardinality(DOMAIN r.modules) = Cardinality(DOMAIN q.modules) + 1
      <4>1. IsFiniteSet(DOMAIN q.modules)
        BY <2>1 DEF Fits
      <4> HIDE DEF r, id, p
      <4>2. QED  BY <1>6, <2>7, <4>1, FS_AddElement
    <3>4. Cardinality(DOMAIN q.modules) = Cardinality(rest)
      BY <2>1 DEF Named
    <3>5. QED  BY <3>2, <3>3, <3>4
  <2>9. ASSUME NEW name
        PROVE  /\ <<name, 0>> \in DOMAIN r.modules => \E j \in s : pallets[j].name = name
               /\ <<name, 1>> \in DOMAIN r.modules =>
                    \E j, k \in s : j < k /\ pallets[j].name = name /\ pallets[k].name = name
    <3>1. CASE <<name, 0>> \in DOMAIN r.modules
      <4>1. <<name, 0>> = id \/ <<name, 0>> \in DOMAIN q.modules
        BY <2>7, <3>1
      <4>2. <<name, 0>> = id => name = p.name
        BY DEF ModuleId
      <4>3. <<name, 0>> \in DOMAIN q.modules => \E j \in rest : pallets[j].name = name
        BY <2>1 DEF Named
      <4>4. \E j \in s : pallets[j].name = name
        BY <1>1, <4>1, <4>2, <4>3
      <4>5. <<name, 1>> \in DOMAIN r.modules =>
              \E j, k \in s : j < k /\ pallets[j].name = name /\ pallets[k].name = name
        <5>1. SUFFICES ASSUME <<name, 1>> \in DOMAIN r.modules
              PROVE \E j, k \in s : j < k /\ pallets[j].name = name /\ pallets[k].name = name
          OBVIOUS
        <5>2. CASE <<name, 1>> \in DOMAIN q.modules
          BY <2>1, <5>2 DEF Named
        <5>3. CASE <<name, 1>> = id
          <6>1. name = p.name /\ <<name, 0>> \in DOMAIN q.modules
            BY <5>3 DEF ModuleId
          <6>2. PICK j \in rest : pallets[j].name = name
            BY <2>1, <6>1 DEF Named
          <6>3. j < i /\ j \in s
            BY <1>2
          <6>4. QED  BY <1>1, <6>1, <6>2, <6>3
        <5>4. QED  BY <2>7, <5>1, <5>2, <5>3
      <4>6. QED  BY <4>4, <4>5
    <3>2. CASE <<name, 0>> \notin DOMAIN r.modules
      <4>1. <<name, 1>> = id => <<name, 0>> \in DOMAIN q.modules
        BY DEF ModuleId
      <4>2. <<name, 1>> \in DOMAIN r.modules => <<name, 1>> \in DOMAIN q.modules
        BY <2>7, <3>2, <4>1
      <4>3. QED  BY <2>1, <3>2, <4>2 DEF Named
    <3>3. QED  BY <3>1, <3>2
  <2>10. Named(r.modules, pallets, s)
    <3> HIDE DEF r
    <3>1. QED  BY <2>8, <2>9 DEF Named
  <2> HIDE DEF r
  <2>11. ResultOf(r, pallets, s)
    BY <2>4, <2>5, <2>6, <2>10 DEF ResultOf
  <2>12. QED  BY <2>11 DEF r, i
<1>7. QED  BY <1>4, <1>5, <1>6

LEMMA ProcessedResult ==
  ASSUME NEW pallets, IsMetadata(pallets)
  PROVE  ResultOf(Processed(pallets), pallets, DOMAIN pallets)
<1> DEFINE S == DOMAIN pallets
<1>0. IsList(pallets)
  BY DEF IsMetadata
<1>1. PICK iter : /\ Processing!Iterates(iter, pallets, NoRuntime(pallets), S)
                  /\ Processed(pallets) = iter[S]
  BY <1>0, PalletsIterate
<1>2. Processing!Sized(S) /\ \A s \in SUBSET S : s # {} => Max(s) \in s
  BY <1>0, LastIsMember DEF Processing!Sized, Indexing!Sized
<1> DEFINE G == {s \in SUBSET S : ResultOf(iter[s], pallets, s)}
<1>3. {} \in G
  <2> DEFINE r == NoRuntime(pallets)
  <2>1. IsResult(r) /\ ~r.clash /\ r.counts.modules = Len(pallets) /\ r.modules = NoRows
    BY DEF NoRuntime, IsResult
  <2>2. \A what \in Parts : r.counts[what] = 0
    BY DEF NoRuntime, Parts
  <2>3. DOMAIN NoRows = {} /\ IsFiniteSet({}) /\ Cardinality({}) = 0
    BY FS_EmptySet DEF NoRows
  <2> HIDE DEF r
  <2>4. Fits(r.counts, r.modules)
    BY <2>1, <2>2, <2>3, RowCountOfNone DEF Fits, Sizes
  <2>5. Named(r.modules, pallets, {})
    BY <2>1, <2>3 DEF Named
  <2>6. ResultOf(r, pallets, {})
    BY <2>1, <2>4, <2>5 DEF ResultOf
  <2>7. iter[{}] = r
    BY <1>1 DEF Processing!Iterates, r
  <2>8. QED  BY <2>6, <2>7
<1>4. ASSUME NEW s \in SUBSET S, s # {}, s \ {Max(s)} \in G PROVE s \in G
  <2> DEFINE rest == s \ {Max(s)}
  <2>1. iter[s] = PalletStep(pallets, Max(s), iter[rest])
    BY <1>1, <1>4 DEF Processing!Iterates
  <2>2. ResultOf(iter[rest], pallets, rest)
    BY <1>4
  <2>3. ResultOf(WithPallet(iter[rest], pallets[Max(s)]), pallets, s)
    BY <1>4, <2>2, PalletResult
  <2>4. QED  BY <2>1, <2>3 DEF PalletStep
<1>5. S \in G
  <2> HIDE DEF G
  <2>1. QED  BY <1>2, <1>3, <1>4, Processing!IterationKeeps
<1>6. QED  BY <1>1, <1>5

\* Every runtime there is has all its rows, and its totals are their numbers.
WholeIn(rows) ==
  \A spec \in DOMAIN rows :
    LET r == rows[spec]
    IN Fits(r.counts, r.modules) /\ r.counts.modules = Cardinality(DOMAIN r.modules)

\* The runtime is there, or cannot be.
Shown(rows, spec) == spec \in DOMAIN rows \/ ThreeAlike(Pallets[spec])

LEMMA RuntimeIsWhole ==
  ASSUME NEW rows, WholeIn(rows), NEW spec, IsMetadata(Pallets[spec])
  PROVE  LET more == WithRuntime(rows, spec, Pallets[spec])
         IN /\ WholeIn(more) /\ DOMAIN rows \subseteq DOMAIN more
            /\ Raises(rows, spec, Pallets[spec]) \/ Shown(more, spec)
<1> DEFINE pallets == Pallets[spec]
           r == Processed(pallets)
           more == WithRuntime(rows, spec, pallets)
           row == [counts |-> r.counts, modules |-> r.modules]
<1>1. ResultOf(r, pallets, DOMAIN pallets)
  <2> HIDE DEF pallets
  <2>1. QED  BY ProcessedResult DEF pallets
<1>2. Cardinality(DOMAIN pallets) = Len(pallets)
  <2>1. Len(pallets) \in Nat /\ DOMAIN pallets = 1 .. Len(pallets)
    BY ListDomain DEF IsMetadata
  <2> HIDE DEF pallets
  <2>2. QED  BY <2>1, FS_Interval
<1> HIDE DEF pallets
<1>3. CASE spec \in DOMAIN rows \/ r.clash \/ r.raised
  <2>1. more = rows
    BY <1>3 DEF WithRuntime
  <2>2. r.raised /\ spec \notin DOMAIN rows => Raises(rows, spec, pallets)
    BY DEF Raises
  <2>3. r.clash => ThreeAlike(pallets)
    BY <1>1 DEF ResultOf
  <2>4. Raises(rows, spec, pallets) \/ Shown(more, spec)
    BY <1>3, <2>1, <2>2, <2>3 DEF Shown, pallets
  <2>5. QED  BY <2>1, <2>4 DEF pallets
<1>4. CASE spec \notin DOMAIN rows /\ ~r.clash /\ ~r.raised
  <2>1. more = Put(rows, spec, row)
    BY <1>4 DEF WithRuntime
  <2>2. /\ Fits(r.counts, r.modules) /\ r.counts.modules = Len(pallets)
        /\ Cardinality(DOMAIN r.modules) = Len(pallets)
    BY <1>1, <1>2, <1>4 DEF ResultOf, Named
  <2>3. /\ DOMAIN more = DOMAIN rows \cup {spec}
        /\ \A s \in DOMAIN rows : more[s] = rows[s]
        /\ more[spec] = row
    BY <1>4, <2>1 DEF Put
  <2>4. row.counts = r.counts /\ row.modules = r.modules
    OBVIOUS
  <2> HIDE DEF more, r, row
  <2>5. WholeIn(more)
    BY <2>2, <2>3, <2>4 DEF WholeIn
  <2>6. Shown(more, spec)
    BY <2>3 DEF Shown
  <2>7. QED  BY <2>3, <2>5, <2>6 DEF more, pallets
<1>5. QED  BY <1>3, <1>4

\* What a block makes of the runtimes: its own and its parent's.
LEMMA BlockRuntimesWhole ==
  ASSUME WholeIn(runtimes), NEW c, IsMetadata(Pallets[c.spec]), IsMetadata(Pallets[c.parentSpec])
  PROVE  /\ WholeIn(OwnRuntime(c)) /\ DOMAIN runtimes \subseteq DOMAIN OwnRuntime(c)
         /\ WholeIn(BothRuntimes(c)) /\ DOMAIN runtimes \subseteq DOMAIN BothRuntimes(c)
         /\ ~OwnRaises(c) /\ ~ParentRaises(c) =>
              \A spec \in {c.spec, c.parentSpec} : Shown(BothRuntimes(c), spec)
<1> DEFINE own == OwnRuntime(c)
           both == BothRuntimes(c)
<1>1. /\ WholeIn(own) /\ DOMAIN runtimes \subseteq DOMAIN own
      /\ OwnRaises(c) \/ Shown(own, c.spec)
  BY RuntimeIsWhole DEF OwnRuntime, OwnRaises
<1> HIDE DEF own
<1>2. /\ WholeIn(both) /\ DOMAIN own \subseteq DOMAIN both
      /\ ParentRaises(c) \/ Shown(both, c.parentSpec)
  BY <1>1, RuntimeIsWhole DEF BothRuntimes, ParentRaises, own
<1> HIDE DEF both
<1>3. Shown(own, c.spec) => Shown(both, c.spec)
  BY <1>2 DEF Shown
<1>4. DOMAIN runtimes \subseteq DOMAIN both
  BY <1>1, <1>2
<1>5. QED  BY <1>1, <1>2, <1>3, <1>4 DEF own, both

LEMMA ContentHasRuntimes ==
  ASSUME ContentInv, NEW n \in Blocks
  PROVE  IsMetadata(Pallets[content[n].spec]) /\ IsMetadata(Pallets[content[n].parentSpec])
<1>1. PICK k \in chains : content[n] \in {k[n], WithoutEvents(k[n])}
  BY DEF ContentInv
<1>2. IsBlock(k[n]) /\ IsMetadata(Pallets[k[n].spec]) /\ IsMetadata(Pallets[k[n].parentSpec])
  BY AccumulationAssumption DEF AccumulationAssumption, ContentInv
<1>3. content[n].spec = k[n].spec /\ content[n].parentSpec = k[n].parentSpec
  BY <1>1, <1>2 DEF WithoutEvents, IsBlock
<1>4. QED  BY <1>2, <1>3

\* The steps by what they do to the runtimes.
LEMMA RuntimeSteps ==
  ASSUME ContentInv, [AccumulationNext]_vars2
  PROVE  \/ \E n \in Blocks : \E c :
              /\ Added(n, c) /\ ~OwnRaises(c) /\ ~ParentRaises(c)
              /\ runtimes' = BothRuntimes(c)
         \/ \E n \in Blocks : runtimes' \in {OwnRuntime(content[n]), BothRuntimes(content[n])}
                              /\ BlocksStay
         \/ (\E n \in Blocks : Removed(n)) /\ runtimes' = runtimes
         \/ BlocksStay /\ runtimes' = runtimes
<1>1. ASSUME NEW n \in Blocks, AddBlock(n)
      PROVE  /\ Added(n, content[n]) /\ ~OwnRaises(content[n]) /\ ~ParentRaises(content[n])
             /\ runtimes' = BothRuntimes(content[n])
  BY <1>1 DEF AddBlock, Accumulated, Accepted, Harvest, Added
<1>2. ASSUME NEW n \in Blocks, AddBlockWithoutEvents(n)
      PROVE  LET c == WithoutEvents(content[n])
             IN /\ Added(n, c) /\ ~OwnRaises(c) /\ ~ParentRaises(c)
                /\ runtimes' = BothRuntimes(c)
  BY <1>2 DEF AddBlockWithoutEvents, Accumulated, Accepted, Harvest, Added, ContentInv
<1>3. ASSUME NEW n \in Blocks, RefusedBlock(n)
      PROVE  /\ runtimes' \in {OwnRuntime(content[n]), BothRuntimes(content[n])}
             /\ BlocksStay
  BY <1>3 DEF RefusedBlock, BlocksStay, vars
<1>4. ASSUME NEW n \in Blocks, RemoveBlock(n) PROVE Removed(n) /\ runtimes' = runtimes
  BY <1>4 DEF RemoveBlock, RemoveRows, Removed, ContentInv, rebuildVars
<1>5. ASSUME NEW n \in Blocks, CreateFullSnapshot(n) PROVE BlocksStay /\ runtimes' = runtimes
  BY <1>5 DEF CreateFullSnapshot, BlocksStay, vars
<1>6. TruncateIndex \/ ListBlocks => BlocksStay /\ runtimes' = runtimes
  BY DEF TruncateIndex, ListBlocks, BlocksStay, vars
<1>7. RebuildBlock \/ KillRebuild => BlocksStay /\ runtimes' = runtimes
  BY DEF RebuildBlock, KillRebuild, BlocksStay, vars
<1>8. CASE vars2' = vars2
  <2>1. /\ vars' = vars /\ chains' = chains /\ content' = content /\ runtimes' = runtimes
        /\ upward' = upward
    BY <1>8, Zenon DEF vars2
  <2>2. QED  BY <2>1 DEF BlocksStay, vars
<1>9. QED  BY <1>1, <1>2, <1>3, <1>4, <1>5, <1>6, <1>7, <1>8 DEF AccumulationNext

RuntimesInv ==
  /\ harvested \subseteq Blocks
  /\ WholeIn(runtimes)
  /\ \A n \in harvested : \A spec \in {content[n].spec, content[n].parentSpec} :
       Shown(runtimes, spec)

LEMMA StepRuntimes == ContentInv /\ RuntimesInv /\ [AccumulationNext]_vars2 => RuntimesInv'
<1> SUFFICES ASSUME ContentInv, RuntimesInv, [AccumulationNext]_vars2 PROVE RuntimesInv'
  OBVIOUS
<1>1. DOMAIN runtimes \subseteq DOMAIN runtimes' =>
        \A spec : Shown(runtimes, spec) => Shown(runtimes', spec)
  BY DEF Shown
<1>2. ASSUME NEW n \in Blocks, NEW c, Added(n, c), ~OwnRaises(c), ~ParentRaises(c),
             runtimes' = BothRuntimes(c)
      PROVE  RuntimesInv'
  <2>1. c.spec = content[n].spec /\ c.parentSpec = content[n].parentSpec
    <3>1. IsBlock(content[n])
      BY ContentIsBlocks
    <3>2. QED  BY <1>2, <3>1 DEF Added, WithoutEvents, IsBlock
  <2>2. /\ WholeIn(runtimes') /\ DOMAIN runtimes \subseteq DOMAIN runtimes'
        /\ \A spec \in {c.spec, c.parentSpec} : Shown(runtimes', spec)
    BY <1>2, <2>1, ContentHasRuntimes, BlockRuntimesWhole DEF RuntimesInv
  <2>3. ASSUME NEW m \in harvested', NEW spec \in {content'[m].spec, content'[m].parentSpec}
        PROVE  Shown(runtimes', spec)
    <3>1. CASE m = n
      BY <1>2, <2>2, <3>1 DEF Added
    <3>2. CASE m # n
      BY <1>1, <1>2, <2>2, <3>2 DEF Added, RuntimesInv
    <3>3. QED  BY <3>1, <3>2
  <2>4. harvested' \subseteq Blocks
    BY <1>2 DEF Added, RuntimesInv
  <2>5. QED  BY <2>2, <2>3, <2>4 DEF RuntimesInv
<1>3. ASSUME NEW n \in Blocks, BlocksStay,
             runtimes' \in {OwnRuntime(content[n]), BothRuntimes(content[n])}
      PROVE  RuntimesInv'
  <2>1. WholeIn(runtimes') /\ DOMAIN runtimes \subseteq DOMAIN runtimes'
    BY <1>3, ContentHasRuntimes, BlockRuntimesWhole DEF RuntimesInv
  <2>2. QED  BY <1>1, <1>3, <2>1 DEF BlocksStay, RuntimesInv
<1>4. ASSUME NEW n \in Blocks, Removed(n), runtimes' = runtimes PROVE RuntimesInv'
  BY <1>4 DEF Removed, RuntimesInv
<1>5. CASE BlocksStay /\ runtimes' = runtimes
  BY <1>5 DEF BlocksStay, RuntimesInv
<1>6. QED  BY <1>2, <1>3, <1>4, <1>5, RuntimeSteps

\* A runtime is never there in part: its totals are the numbers of its rows, and
\* no harvested block is without its runtime and its parent's, unless three
\* pallets of it have one name.
THEOREM RuntimesStayWhole == AccumulationSpec => []RuntimesWhole
<1>1. AccumulationSpec => []TablesInv
  BY TablesInvariant
<1>2. AccumulationInit => RuntimesInv
  <2>1. AccumulationInit => harvested = {} /\ DOMAIN runtimes = {}
    BY DEF AccumulationInit, Init, NoRows
  <2>2. QED  BY <2>1 DEF RuntimesInv, WholeIn
<1>3. TablesInv /\ RuntimesInv /\ [AccumulationNext]_vars2 => RuntimesInv'
  BY StepRuntimes DEF TablesInv
<1>4. RuntimesInv => RuntimesWhole
  <2> SUFFICES ASSUME RuntimesInv PROVE RuntimesWhole
    OBVIOUS
  <2>1. ASSUME NEW n \in harvested, NEW spec \in {content[n].spec, content[n].parentSpec}
        PROVE  spec \in DOMAIN runtimes \/ ThreeAlike(Pallets[spec])
    BY DEF RuntimesInv, Shown
  <2>2. ASSUME NEW spec \in DOMAIN runtimes
        PROVE  LET r == runtimes[spec]
               IN /\ r.counts.modules = Cardinality(DOMAIN r.modules)
                  /\ \A what \in Parts : r.counts[what] = RowCount(r.modules, what)
    BY DEF RuntimesInv, WholeIn, Fits
  <2>3. QED  BY <2>1, <2>2, Zenon DEF RuntimesWhole, ThreeAlike, Parts
<1>5. QED  BY <1>1, <1>2, <1>3, <1>4, PTL DEF AccumulationSpec
==============================================================================
