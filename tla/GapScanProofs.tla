----------------------------- MODULE GapScanProofs -----------------------------
(***************************************************************************)
(* The search for missing blocks, proved for tables of any size: one pass  *)
(* over the rows finds the maximal runs of missing numbers, and the loop   *)
(* over a run makes the pieces that the harvester's specification uses.    *)
(***************************************************************************)
EXTENDS GapScan, FiniteSetTheorems, SequenceTheorems, TLAPS

------------------------------------------------------------------------------
(* The pass over the rows.                                                   *)

\* The run of missing numbers between two numbers of which none is between.
IsGap(g, a, b, ids_, floor) ==
  /\ a \in ids_ \cup {floor} /\ b \in ids_
  /\ floor <= a /\ a + 1 < b
  /\ \A m \in a + 1 .. b - 1 : m \notin ids_
  /\ g = <<a + 1, b - 1>>

LEMMA GapsAre ==
  ASSUME NEW S, NEW floor
  PROVE  \A g : g \in Gaps(S, floor) <=> \E a, b : IsGap(g, a, b, S, floor)
<1> SUFFICES ASSUME NEW g
             PROVE  g \in Gaps(S, floor) <=> \E a, b : IsGap(g, a, b, S, floor)
  OBVIOUS
<1>1. ASSUME g \in Gaps(S, floor) PROVE \E a, b : IsGap(g, a, b, S, floor)
  BY <1>1 DEF Gaps, IsGap
<1>2. ASSUME NEW a, NEW b, IsGap(g, a, b, S, floor) PROVE g \in Gaps(S, floor)
  <2> DEFINE q == <<a, b>>
  <2>1. /\ q \in (S \cup {floor}) \X S
        /\ floor <= q[1] /\ q[1] + 1 < q[2]
        /\ \A m \in q[1] + 1 .. q[2] - 1 : m \notin S
        /\ g = <<q[1] + 1, q[2] - 1>>
    BY <1>2 DEF IsGap
  <2> HIDE DEF q
  <2>2. QED  BY <2>1 DEF Gaps
<1>3. QED  BY <1>1, <1>2

\* A row above all others closes one more run, or none when it is the next number.
LEMMA GapsOfOneMore ==
  ASSUME NEW S \in SUBSET Nat, NEW n \in Nat, NEW r \in S \cup {Floor}, r \in Nat, r < n,
         Floor \in Nat, \A m \in S : Floor < m /\ m <= r
  PROVE  Gaps(S \cup {n}, Floor)
           = Gaps(S, Floor) \cup (IF r + 1 = n THEN {} ELSE {<<r + 1, n - 1>>})
<1> DEFINE T == S \cup {n}
           new == <<r + 1, n - 1>>
<1>0. Floor <= r
  OBVIOUS
<1>1. ASSUME NEW g, NEW a, NEW b, IsGap(g, a, b, S, Floor) PROVE IsGap(g, a, b, T, Floor)
  BY <1>1 DEF IsGap
<1>2. r + 1 # n => IsGap(new, r, n, T, Floor)
  <2>1. SUFFICES ASSUME r + 1 # n PROVE IsGap(new, r, n, T, Floor)
    OBVIOUS
  <2>2. \A m \in r + 1 .. n - 1 : m \notin T
    OBVIOUS
  <2>3. QED  BY <1>0, <2>1, <2>2 DEF IsGap
<1>3. ASSUME NEW g, NEW a, NEW b, IsGap(g, a, b, T, Floor)
      PROVE  IsGap(g, a, b, S, Floor) \/ (r + 1 # n /\ g = new)
  <2>1. a \in T \cup {Floor} /\ b \in T /\ Floor <= a /\ a + 1 < b /\ g = <<a + 1, b - 1>>
        /\ \A m \in a + 1 .. b - 1 : m \notin T
    BY <1>3 DEF IsGap
  <2>2. a \in Nat /\ b \in Nat /\ a # n
    BY <2>1
  <2>3. CASE b # n
    BY <2>1, <2>2, <2>3 DEF IsGap
  <2>4. CASE b = n
    <3>1. a <= r
      BY <1>0, <2>1, <2>2
    <3>2. a = r
      <4>1. SUFFICES ASSUME a < r PROVE FALSE
        BY <2>2, <3>1
      <4>2. r \in S
        BY <2>1, <2>2, <4>1
      <4>3. r \in a + 1 .. b - 1
        BY <2>2, <2>4, <4>1
      <4>4. QED  BY <2>1, <4>2, <4>3
    <3>3. QED  BY <2>1, <2>4, <3>2
  <2>5. QED  BY <2>3, <2>4
<1> HIDE DEF T, new
<1>4. \A g : g \in Gaps(T, Floor) <=> g \in Gaps(S, Floor) \/ (r + 1 # n /\ g = new)
  BY <1>1, <1>2, <1>3, GapsAre
<1>5. QED  BY <1>4 DEF T, new

\* The rows that the pass leaves out make no difference.
LEMMA GapsAboveFloor ==
  ASSUME ids \subseteq Nat, Floor \in Nat
  PROVE  Gaps(AboveFloor, Floor) = Gaps(ids, Floor)
<1>1. ASSUME NEW g, NEW a, NEW b PROVE IsGap(g, a, b, AboveFloor, Floor) <=> IsGap(g, a, b, ids, Floor)
  <2>1. CASE a \in AboveFloor \cup {Floor} /\ b \in AboveFloor
    <3>1. a \in Nat /\ b \in Nat /\ Floor <= a /\ a \in ids \cup {Floor} /\ b \in ids
      BY <2>1 DEF AboveFloor
    <3>2. \A m \in a + 1 .. b - 1 : m \in ids <=> m \in AboveFloor
      BY <3>1 DEF AboveFloor
    <3>3. QED  BY <2>1, <3>1, <3>2 DEF IsGap
  <2>2. CASE a \in ids \cup {Floor} /\ b \in ids /\ Floor <= a /\ a + 1 < b
    <3>1. a \in Nat /\ b \in Nat
      BY <2>2
    <3>2. a \in AboveFloor \cup {Floor} /\ b \in AboveFloor
      BY <2>2, <3>1 DEF AboveFloor
    <3>3. QED  BY <2>1, <3>2
  <2>3. QED  BY <2>1, <2>2 DEF IsGap
<1>2. \A g : g \in Gaps(AboveFloor, Floor) <=> g \in Gaps(ids, Floor)
  BY <1>1, GapsAre
<1>3. QED  BY <1>2

RowStep(a, id, s) == ScanRow(s, id)
Scan == INSTANCE Recursion WITH Step <- RowStep, Pick <- Max

\* A finite set of numbers has a highest.
LEMMA Highest ==
  ASSUME NEW S \in SUBSET (0 .. MaxId), MaxId \in Nat, S # {}
  PROVE  Max(S) \in S /\ \A k \in S : k <= Max(S)
<1>1. \E m \in S : \A k \in S : k <= m
  BY Scan!Greatest
<1>2. \E m \in S : \A k \in S : m >= k
  BY <1>1
<1>3. Max(S) \in S /\ \A k \in S : Max(S) >= k
  BY <1>2 DEF Max
<1>4. QED  BY <1>3

\* Where the pass is after the rows S: at the last of them, with the runs below it.
Scanned(q, S) ==
  /\ q.rownum \in S \cup {Floor} /\ \A m \in S : m <= q.rownum
  /\ q.runs \in Seq(Nat \X Nat)
  /\ ToSet(q.runs) = Gaps(S, Floor)
  /\ \A i \in DOMAIN q.runs : q.runs[i][1] <= q.rownum
  /\ \A i, j \in DOMAIN q.runs : i < j => q.runs[i][1] < q.runs[j][1]

LEMMA RowScanned ==
  ASSUME Floor \in Nat, NEW S \in SUBSET Nat, \A m \in S : Floor < m,
         NEW n \in Nat, Floor < n, \A m \in S : m < n, NEW q, Scanned(q, S)
  PROVE  Scanned(ScanRow(q, n), S \cup {n})
<1> DEFINE r == q.rownum
           runs == q.runs
           T == S \cup {n}
           new == <<r + 1, n - 1>>
<1>1. /\ r \in S \cup {Floor} /\ r \in Nat /\ r < n /\ \A m \in S : m <= r
      /\ runs \in Seq(Nat \X Nat) /\ ToSet(runs) = Gaps(S, Floor)
      /\ \A i \in DOMAIN runs : runs[i][1] <= r
      /\ \A i, j \in DOMAIN runs : i < j => runs[i][1] < runs[j][1]
  BY DEF Scanned
<1>2. Gaps(T, Floor) = Gaps(S, Floor) \cup (IF r + 1 = n THEN {} ELSE {new})
  <2> HIDE DEF r
  <2>1. QED  BY <1>1, GapsOfOneMore
<1> HIDE DEF r, runs
<1>3. CASE r + 1 = n
  <2>1. ScanRow(q, n) = [rownum |-> r + 1, runs |-> runs]
    BY <1>3 DEF ScanRow, r, runs
  <2>2. \A i \in DOMAIN runs : runs[i][1] <= r + 1
    <3>1. \A i \in DOMAIN runs : runs[i] \in Nat \X Nat
      BY <1>1
    <3>2. QED  BY <1>1, <3>1
  <2>3. \A m \in T : m <= r + 1
    BY <1>1, <1>3
  <2>4. r + 1 \in T
    BY <1>3
  <2> HIDE DEF T, new
  <2>5. ToSet(runs) = Gaps(T, Floor)
    BY <1>1, <1>2, <1>3
  <2>6. ScanRow(q, n).rownum = r + 1 /\ ScanRow(q, n).runs = runs
    BY <2>1
  <2>7. Scanned(ScanRow(q, n), T)
    BY <1>1, <2>2, <2>3, <2>4, <2>5, <2>6 DEF Scanned
  <2>8. QED  BY <2>7 DEF T
<1>4. CASE r + 1 # n
  <2> DEFINE more == Append(runs, new)
  <2>1. ScanRow(q, n) = [rownum |-> n, runs |-> more]
    BY <1>4 DEF ScanRow, r, runs
  <2>2. new \in Nat \X Nat
    BY <1>1, <1>4
  <2> HIDE DEF new
  <2>3. /\ more \in Seq(Nat \X Nat) /\ Len(more) = Len(runs) + 1 /\ more[Len(more)] = new
        /\ \A i \in 1 .. Len(runs) : more[i] = runs[i]
        /\ DOMAIN runs = 1 .. Len(runs) /\ DOMAIN more = 1 .. Len(more) /\ Len(runs) \in Nat
    BY <1>1, <2>2, AppendProperties
  <2> HIDE DEF more
  <2>4. ToSet(more) = ToSet(runs) \cup {new}
    <3>1. \A x : x \in ToSet(more) <=> \E i \in DOMAIN more : x = more[i]
      BY DEF ToSet
    <3>2. \A x : x \in ToSet(runs) <=> \E i \in DOMAIN runs : x = runs[i]
      BY DEF ToSet
    <3>3. DOMAIN more = DOMAIN runs \cup {Len(more)}
      BY <2>3
    <3>4. \A i \in DOMAIN runs : more[i] = runs[i]
      BY <2>3
    <3>5. \A x : x \in ToSet(more) <=> x \in ToSet(runs) \/ x = new
      BY <2>3, <3>1, <3>2, <3>3, <3>4, Zenon
    <3>6. QED  BY <3>5
  <2>5. new[1] = r + 1
    BY DEF new
  <2>6. \A i \in DOMAIN more : more[i][1] <= n
    <3>1. ASSUME NEW i \in DOMAIN more PROVE more[i][1] <= n
      <4>1. CASE i = Len(more)
        BY <1>1, <2>3, <2>5, <4>1
      <4>2. CASE i \in 1 .. Len(runs)
        <5>1. more[i] = runs[i] /\ runs[i] \in Nat \X Nat /\ runs[i][1] <= r
          BY <1>1, <2>3, <4>2
        <5>2. QED  BY <1>1, <5>1
      <4>3. QED  BY <2>3, <4>1, <4>2
    <3>2. QED  BY <3>1
  <2>7. ASSUME NEW i \in DOMAIN more, NEW j \in DOMAIN more, i < j PROVE more[i][1] < more[j][1]
    <3>1. i \in 1 .. Len(runs)
      BY <2>3, <2>7
    <3>2. more[i] = runs[i] /\ runs[i] \in Nat \X Nat /\ runs[i][1] <= r
      BY <1>1, <2>3, <3>1
    <3>3. CASE j = Len(more)
      BY <1>1, <2>3, <2>5, <3>2, <3>3
    <3>4. CASE j \in 1 .. Len(runs)
      BY <1>1, <2>3, <2>7, <3>1, <3>4
    <3>5. QED  BY <2>3, <3>3, <3>4
  <2>8. \A m \in T : m <= n
    BY <1>1
  <2>9. n \in T
    OBVIOUS
  <2> HIDE DEF T
  <2>10. ToSet(more) = Gaps(T, Floor)
    BY <1>1, <1>2, <1>4, <2>4
  <2>11. QED  BY <2>1, <2>3, <2>6, <2>7, <2>8, <2>9, <2>10 DEF Scanned, T
<1>5. QED  BY <1>3, <1>4
TableInv == ids \subseteq 0 .. MaxId

LEMMA AboveFloorIsSized ==
  ASSUME TableInv
  PROVE  /\ Scan!Sized(AboveFloor)
         /\ \A s \in SUBSET AboveFloor : s # {} => Max(s) \in s /\ \A k \in s : k <= Max(s)
<1>1. MaxId \in Nat
  BY GapScanAssumption DEF GapScanAssumption
<1>2. IsFiniteSet(AboveFloor)
  <2>1. IsFiniteSet(0 .. MaxId)
    BY <1>1, FS_Interval
  <2>2. AboveFloor \subseteq 0 .. MaxId
    BY DEF TableInv, AboveFloor
  <2>3. QED  BY <2>1, <2>2, FS_Subset
<1>3. Scan!Sized(AboveFloor)
  BY <1>2, Scan!FiniteSetsAreSized DEF IsFiniteSet, Scan!IsFiniteSet
<1>4. \A s \in SUBSET AboveFloor : s \in SUBSET (0 .. MaxId)
  BY DEF TableInv, AboveFloor
<1>5. QED  BY <1>1, <1>3, <1>4, Highest

\* The pass is an iteration over the rows.
LEMMA PassIterates ==
  ASSUME TableInv
  PROVE  \E iter : /\ Scan!Iterates(iter, Floor, [rownum |-> Floor, runs |-> <<>>], AboveFloor)
                   /\ Pass = iter[AboveFloor]
<1> DEFINE base == [rownum |-> Floor, runs |-> <<>>]
           Folds(g) ==
             g = [s \in SUBSET AboveFloor |->
                    IF s = {} THEN base ELSE ScanRow(g[s \ {Max(s)}], Max(s))]
<1>1. PICK iter : Scan!Iterates(iter, Floor, base, AboveFloor)
  <2> HIDE DEF base
  <2>1. QED  BY AboveFloorIsSized, Scan!IterationExists
<1>2. \A g : Folds(g) <=> Scan!Iterates(g, Floor, base, AboveFloor)
  <2> HIDE DEF base
  <2>1. QED  BY DEF Scan!Iterates, RowStep
<1>3. Pass = (CHOOSE g : Folds(g))[AboveFloor]
  BY DEF Pass, MapThenFoldSet
<1>4. Folds(CHOOSE g : Folds(g))
  <2> HIDE DEF Folds
  <2>1. QED  BY <1>1, <1>2, Zenon
<1> HIDE DEF Folds
<1>5. QED  BY <1>2, <1>3, <1>4

LEMMA PassScans ==
  ASSUME TableInv
  PROVE  Scanned(Pass, AboveFloor)
<1> DEFINE base == [rownum |-> Floor, runs |-> <<>>]
           S == AboveFloor
<1>0. Floor \in Nat /\ S \subseteq Nat /\ \A m \in S : Floor < m
  <2>1. Floor \in Nat
    BY GapScanAssumption DEF GapScanAssumption
  <2>2. \A m \in S : m \in 0 .. MaxId /\ Floor < m
    BY DEF AboveFloor, TableInv
  <2>3. QED  BY <2>1, <2>2
<1>1. PICK iter : Scan!Iterates(iter, Floor, base, S) /\ Pass = iter[S]
  BY PassIterates
<1>2. /\ Scan!Sized(S)
      /\ \A s \in SUBSET S : s # {} => Max(s) \in s /\ \A k \in s : k <= Max(s)
  BY AboveFloorIsSized
<1> HIDE DEF S
<1> DEFINE G == {s \in SUBSET S : Scanned(iter[s], s)}
<1>3. {} \in G
  <2>1. iter[{}] = base
    BY <1>1 DEF Scan!Iterates
  <2>2. Gaps({}, Floor) = {}
    BY DEF Gaps
  <2>3. ToSet(<<>>) = {} /\ <<>> \in Seq(Nat \X Nat) /\ DOMAIN <<>> = {}
    BY DEF ToSet
  <2>4. Scanned(base, {})
    BY <2>2, <2>3 DEF Scanned
  <2>5. QED  BY <2>1, <2>4
<1>4. ASSUME NEW s \in SUBSET S, s # {}, s \ {Max(s)} \in G PROVE s \in G
  <2> DEFINE n == Max(s)
             rest == s \ {n}
  <2>1. iter[s] = ScanRow(iter[rest], n)
    BY <1>1, <1>4 DEF Scan!Iterates, RowStep
  <2>2. Scanned(iter[rest], rest)
    BY <1>4
  <2>3. n \in s /\ \A k \in s : k <= n
    BY <1>2, <1>4
  <2> HIDE DEF n
  <2>4. /\ rest \in SUBSET Nat /\ n \in Nat /\ Floor < n
        /\ \A m \in rest : Floor < m /\ m < n
    <3>1. n \in Nat /\ Floor < n
      BY <1>0, <2>3
    <3>2. ASSUME NEW m \in rest PROVE m \in Nat /\ Floor < m /\ m < n
      <4>1. m \in Nat /\ Floor < m /\ m <= n /\ m # n
        BY <1>0, <2>3
      <4>2. QED  BY <3>1, <4>1
    <3>3. QED  BY <3>1, <3>2
  <2>5. rest \cup {n} = s
    BY <2>3
  <2> HIDE DEF rest
  <2>6. Scanned(ScanRow(iter[rest], n), rest \cup {n})
    BY <1>0, <2>2, <2>4, RowScanned
  <2>7. QED  BY <2>1, <2>5, <2>6
<1>5. S \in G
  <2> HIDE DEF G
  <2>1. \A s \in SUBSET S : s # {} => Max(s) \in s
    BY <1>2
  <2>2. QED  BY <1>2, <1>3, <1>4, <2>1, Scan!IterationKeeps
<1>6. QED  BY <1>1, <1>5 DEF S

LEMMA ReverseIs ==
  ASSUME NEW X, NEW s \in Seq(X)
  PROVE  /\ DOMAIN Reverse(s) = DOMAIN s /\ DOMAIN s = 1 .. Len(s) /\ Len(s) \in Nat
         /\ Len(Reverse(s)) = Len(s)
         /\ \A i \in DOMAIN s : Len(s) - i + 1 \in DOMAIN s /\ Reverse(s)[i] = s[Len(s) - i + 1]
         /\ ToSet(Reverse(s)) = ToSet(s)
<1>1. DOMAIN s = 1 .. Len(s) /\ Len(s) \in Nat
  BY LenProperties
<1>2. DOMAIN Reverse(s) = 1 .. Len(s)
  BY DEF Reverse
<1>3. \A i \in DOMAIN s : Len(s) - i + 1 \in DOMAIN s /\ Reverse(s)[i] = s[Len(s) - i + 1]
  BY <1>1 DEF Reverse
<1>4. Len(Reverse(s)) = Len(s)
  <2>1. Reverse(s) \in Seq(X)
    <3>1. \A i \in 1 .. Len(s) : s[(Len(s) - i) + 1] \in X
      BY <1>1
    <3>2. QED  BY <1>1, <3>1 DEF Reverse
  <2>2. DOMAIN Reverse(s) = 1 .. Len(Reverse(s)) /\ Len(Reverse(s)) \in Nat
    BY <2>1, LenProperties
  <2>3. QED  BY <1>1, <1>2, <2>2
<1>5. ToSet(Reverse(s)) = ToSet(s)
  <2>1. ASSUME NEW x \in ToSet(Reverse(s)) PROVE x \in ToSet(s)
    BY <1>1, <1>2, <1>3 DEF ToSet
  <2>2. ASSUME NEW x \in ToSet(s) PROVE x \in ToSet(Reverse(s))
    <3>1. PICK i \in DOMAIN s : x = s[i]
      BY DEF ToSet
    <3> DEFINE j == Len(s) - i + 1
    <3>2. j \in DOMAIN s /\ Len(s) - j + 1 = i
      BY <1>1
    <3> HIDE DEF j
    <3>3. Reverse(s)[j] = x
      BY <1>3, <3>1, <3>2
    <3>4. QED  BY <1>1, <1>2, <3>2, <3>3 DEF ToSet
  <2>3. QED  BY <2>1, <2>2
<1>6. QED  BY <1>1, <1>2, <1>3, <1>4, <1>5

LEMMA ScanFinds ==
  ASSUME TableInv
  PROVE  ScanFindsGaps /\ MissingBlockIds \in Seq(Nat \X Nat)
<1> DEFINE up == Pass.runs
           runs == MissingBlockIds
<1>0. ids \subseteq Nat /\ Floor \in Nat
  BY GapScanAssumption DEF TableInv, GapScanAssumption
<1>1. /\ up \in Seq(Nat \X Nat) /\ ToSet(up) = Gaps(ids, Floor)
      /\ \A i, j \in DOMAIN up : i < j => up[i][1] < up[j][1]
  BY <1>0, PassScans, GapsAboveFloor DEF Scanned
<1>2. runs = Reverse(up)
  BY DEF MissingBlockIds
<1> HIDE DEF up, runs
<1>3. /\ DOMAIN runs = DOMAIN up /\ DOMAIN up = 1 .. Len(up) /\ Len(up) \in Nat
      /\ \A i \in DOMAIN up : Len(up) - i + 1 \in DOMAIN up /\ runs[i] = up[Len(up) - i + 1]
      /\ ToSet(runs) = ToSet(up)
  BY <1>1, <1>2, ReverseIs
<1>4. ASSUME NEW i \in DOMAIN runs, NEW j \in DOMAIN runs, i < j PROVE runs[i][1] > runs[j][1]
  <2> DEFINE k == Len(up) - i + 1
             l == Len(up) - j + 1
  <2>1. k \in DOMAIN up /\ l \in DOMAIN up /\ runs[i] = up[k] /\ runs[j] = up[l] /\ l < k
    BY <1>3, <1>4
  <2> HIDE DEF k, l
  <2>2. up[l][1] < up[k][1] /\ up[l][1] \in Nat /\ up[k][1] \in Nat
    BY <1>1, <2>1
  <2>3. QED  BY <2>1, <2>2
<1>5. ScanFindsGaps
  BY <1>1, <1>3, <1>4 DEF ScanFindsGaps, runs
<1>6. runs \in Seq(Nat \X Nat)
  <2>1. \A i \in DOMAIN up : up[i] \in Nat \X Nat
    BY <1>1
  <2>2. \A i \in 1 .. Len(up) : up[(Len(up) - i) + 1] \in Nat \X Nat
    BY <1>3, <2>1
  <2>3. QED  BY <1>2, <1>3, <2>2 DEF Reverse
<1>7. QED  BY <1>5, <1>6 DEF runs
------------------------------------------------------------------------------
(* The loop over a run.                                                      *)

WalkStep(a, i, s) == WalkPiece(s)
Walking == INSTANCE Recursion WITH Step <- WalkStep, Pick <- Max

LEMMA RoundsAreSized ==
  ASSUME NEW n \in Nat
  PROVE  /\ IsFiniteSet(1 .. n) /\ Cardinality(1 .. n) = n /\ Walking!Sized(1 .. n)
         /\ \A s \in SUBSET (1 .. n) : s # {} => Max(s) \in s
<1>1. IsFiniteSet(1 .. n) /\ Cardinality(1 .. n) = n
  BY FS_Interval
<1>2. Walking!Sized(1 .. n)
  BY <1>1, Walking!FiniteSetsAreSized DEF IsFiniteSet, Walking!IsFiniteSet
<1>3. ASSUME NEW s \in SUBSET (1 .. n), s # {} PROVE Max(s) \in s
  <2>1. s \in SUBSET (0 .. n)
    OBVIOUS
  <2>2. \E m \in s : \A k \in s : k <= m
    BY <1>3, <2>1, Walking!Greatest
  <2>3. \E m \in s : \A k \in s : m >= k
    BY <2>1, <2>2
  <2>4. QED  BY <2>3 DEF Max
<1>4. QED  BY <1>1, <1>2, <1>3

\* The loop is an iteration over the numbers of its rounds.
LEMMA WalkIterates ==
  ASSUME NEW run, NEW runs, Parallel(run, runs) \in Nat
  PROVE  LET S == 1 .. Parallel(run, runs)
         IN \E iter :
              /\ Walking!Iterates(iter, run, [start |-> run[2], pieces |-> <<>>], S)
              /\ Walk(run, runs) = iter[S].pieces
<1> DEFINE S == 1 .. Parallel(run, runs)
           base == [start |-> run[2], pieces |-> <<>>]
           rounds == [i \in S |-> i]
           Folds(g) ==
             g = [s \in SUBSET S |-> IF s = {} THEN base ELSE WalkPiece(g[s \ {Max(s)}])]
<1>0. DOMAIN rounds = S
  OBVIOUS
<1>1. PICK iter : Walking!Iterates(iter, run, base, S)
  <2>1. Walking!Sized(S) /\ \A s \in SUBSET S : s # {} => Max(s) \in s
    BY RoundsAreSized
  <2> HIDE DEF base, S
  <2>2. QED  BY <2>1, Walking!IterationExists
<1>2. \A g : Folds(g) <=> Walking!Iterates(g, run, base, S)
  <2> HIDE DEF base, S
  <2>1. QED  BY DEF Walking!Iterates, WalkStep
<1>3. Walk(run, runs) = (CHOOSE g : Folds(g))[S].pieces
  BY <1>0 DEF Walk, FoldLeft, MapThenFoldSet
<1>4. Folds(CHOOSE g : Folds(g))
  <2> HIDE DEF Folds
  <2>1. QED  BY <1>1, <1>2, Zenon
<1> HIDE DEF Folds
<1>5. QED  BY <1>2, <1>3, <1>4

StartOf(run, i) == IF i = 0 THEN run[2] ELSE Max2(run[2] - i * (Limit - 1), 1)

PieceOf(run, i) == [start |-> StartOf(run, i), end |-> Max2(StartOf(run, i) - Limit, 0)]

\* The next piece starts with the block above the end of this one.
LEMMA NextStart ==
  ASSUME NEW run \in Nat \X Nat, run[2] > 0, NEW c \in Nat
  PROVE  /\ StartOf(run, c) \in Nat
         /\ StartOf(run, c + 1) = PieceOf(run, c).end + 1
<1>1. Limit \in Nat /\ Limit > 0 /\ run[2] \in Nat
  BY GapScanAssumption DEF GapScanAssumption
<1> DEFINE p == c * (Limit - 1)
<1>2. p \in Nat /\ (c = 0 => p = 0)
  <2>1. \A l \in Nat : c * l \in Nat /\ (c = 0 => c * l = 0)
    OBVIOUS
  <2>2. Limit - 1 \in Nat
    BY <1>1
  <2>3. QED  BY <2>1, <2>2
<1>3. (c + 1) * (Limit - 1) = p + (Limit - 1)
  BY <1>1
<1> HIDE DEF p
<1>4. c + 1 # 0
  OBVIOUS
<1>5. StartOf(run, c) = IF c = 0 THEN run[2] ELSE Max2(run[2] - p, 1)
  BY DEF StartOf, p
<1>6. StartOf(run, c + 1) = Max2(run[2] - (p + (Limit - 1)), 1)
  BY <1>3, <1>4 DEF StartOf
<1>7. PieceOf(run, c).end = Max2(StartOf(run, c) - Limit, 0)
  BY DEF PieceOf
<1>8. QED  BY <1>1, <1>2, <1>5, <1>6, <1>7 DEF Max2

\* Where the loop is after c rounds.
Walked(q, run, c) ==
  /\ q.start = StartOf(run, c)
  /\ q.pieces \in Seq([start : Int, end : Int]) /\ Len(q.pieces) = c
  /\ \A i \in 1 .. c : q.pieces[i] = PieceOf(run, i - 1)

LEMMA PieceWalked ==
  ASSUME NEW run \in Nat \X Nat, run[2] > 0, NEW c \in Nat, NEW q, Walked(q, run, c)
  PROVE  Walked(WalkPiece(q), run, c + 1)
<1> DEFINE piece == PieceOf(run, c)
           more == Append(q.pieces, piece)
<1>1. StartOf(run, c) \in Nat /\ StartOf(run, c + 1) = piece.end + 1
  BY NextStart
<1>2. Limit \in Nat
  BY GapScanAssumption DEF GapScanAssumption
<1>3. WalkPiece(q) = [start |-> piece.end + 1, pieces |-> more]
  <2>1. (IF q.start - Limit < 0 THEN 0 ELSE q.start - Limit) = Max2(q.start - Limit, 0)
    BY <1>1, <1>2 DEF Max2, Walked
  <2>2. q.start = StartOf(run, c)
    BY DEF Walked
  <2>3. QED  BY <2>1, <2>2 DEF WalkPiece, PieceOf
<1>4. piece \in [start : Int, end : Int]
  BY <1>1, <1>2 DEF PieceOf, Max2
<1>5. q.pieces \in Seq([start : Int, end : Int]) /\ Len(q.pieces) = c
  BY DEF Walked
<1> HIDE DEF piece
<1>6. /\ more \in Seq([start : Int, end : Int]) /\ Len(more) = c + 1 /\ more[c + 1] = piece
      /\ \A i \in 1 .. c : more[i] = q.pieces[i]
  BY <1>4, <1>5, AppendProperties
<1> HIDE DEF more
<1>7. ASSUME NEW i \in 1 .. c + 1 PROVE more[i] = PieceOf(run, i - 1)
  <2>1. CASE i = c + 1
    BY <1>6, <2>1 DEF piece
  <2>2. CASE i \in 1 .. c
    BY <1>6, <2>2 DEF Walked
  <2>3. QED  BY <2>1, <2>2
<1>8. QED  BY <1>1, <1>3, <1>6, <1>7 DEF Walked

LEMMA WalkMakes ==
  ASSUME NEW run \in Nat \X Nat, run[2] > 0, NEW runs, Parallel(run, runs) \in Nat
  PROVE  LET pieces == Walk(run, runs)
         IN /\ pieces \in Seq([start : Int, end : Int]) /\ Len(pieces) = Parallel(run, runs)
            /\ \A i \in 1 .. Len(pieces) : pieces[i] = PieceOf(run, i - 1)
<1> DEFINE n == Parallel(run, runs)
           S == 1 .. n
           base == [start |-> run[2], pieces |-> <<>>]
<1>1. PICK iter : Walking!Iterates(iter, run, base, S) /\ Walk(run, runs) = iter[S].pieces
  BY WalkIterates
<1>2. IsFiniteSet(S) /\ Cardinality(S) = n /\ Walking!Sized(S)
  BY RoundsAreSized
<1>3. \A s \in SUBSET S : s # {} => Max(s) \in s
  BY RoundsAreSized
<1> HIDE DEF S
<1> DEFINE G == {s \in SUBSET S : Walked(iter[s], run, Cardinality(s))}
<1>4. {} \in G
  <2>1. iter[{}] = base
    BY <1>1 DEF Walking!Iterates
  <2>2. <<>> \in Seq([start : Int, end : Int]) /\ Len(<<>>) = 0
    OBVIOUS
  <2>3. Walked(base, run, 0)
    BY <2>2 DEF Walked, StartOf
  <2>4. Cardinality({}) = 0
    BY FS_EmptySet
  <2>5. QED  BY <2>1, <2>3, <2>4
<1>5. ASSUME NEW s \in SUBSET S, s # {}, s \ {Max(s)} \in G PROVE s \in G
  <2> DEFINE rest == s \ {Max(s)}
             c == Cardinality(rest)
  <2>1. iter[s] = WalkPiece(iter[rest])
    BY <1>1, <1>5 DEF Walking!Iterates, WalkStep
  <2>2. c \in Nat /\ Cardinality(s) = c + 1
    <3>1. IsFiniteSet(s)
      BY <1>2, FS_Subset
    <3>2. Max(s) \in s
      BY <1>3, <1>5
    <3>3. c = Cardinality(s) - 1 /\ IsFiniteSet(rest)
      BY <3>1, <3>2, FS_RemoveElement
    <3>4. Cardinality(s) \in Nat /\ c \in Nat
      BY <3>1, <3>3, FS_CardinalityType
    <3> HIDE DEF c
    <3>5. QED  BY <3>3, <3>4
  <2>3. Walked(iter[rest], run, c)
    BY <1>5
  <2> HIDE DEF c
  <2>4. Walked(iter[s], run, c + 1)
    BY <2>1, <2>2, <2>3, PieceWalked
  <2>5. QED  BY <2>2, <2>4
<1>6. S \in G
  <2> HIDE DEF G
  <2>1. QED  BY <1>2, <1>3, <1>4, <1>5, Walking!IterationKeeps
<1>7. Walked(iter[S], run, n)
  BY <1>2, <1>6
<1> HIDE DEF n
<1>8. QED  BY <1>1, <1>7 DEF Walked, n
------------------------------------------------------------------------------
(* The theorems.                                                             *)

LEMMA TableInvariant == Spec => []TableInv
<1>1. Init => TableInv
  BY DEF Init, TableInv
<1>2. TableInv /\ [Next]_ids => TableInv'
  BY DEF TableInv, Next, Insert, Delete
<1>3. QED  BY <1>1, <1>2, PTL DEF Spec

\* What the pass finds are the maximal runs of missing numbers above the floor
\* and below a stored number, the highest first and each once.
THEOREM ScanIsRight == Spec => []ScanFindsGaps
<1>1. TableInv => ScanFindsGaps
  BY ScanFinds
<1>2. QED  BY <1>1, TableInvariant, PTL

LEMMA RunsAre ==
  ASSUME TableInv, NEW run \in Gaps(ids, Floor)
  PROVE  run \in Nat \X Nat /\ Floor < run[1] /\ run[1] <= run[2] /\ 0 < run[1]
<1>1. PICK a, b : IsGap(run, a, b, ids, Floor)
  BY GapsAre
<1>2. Floor \in Nat /\ MaxId \in Nat
  BY GapScanAssumption DEF GapScanAssumption
<1>3. a \in Nat /\ b \in Nat /\ Floor <= a /\ a + 1 < b /\ run = <<a + 1, b - 1>>
  <2>1. \A m \in ids : m \in Nat
    BY DEF TableInv
  <2>2. QED  BY <1>1, <1>2, <2>1 DEF IsGap
<1>4. QED  BY <1>2, <1>3

\* A run is cut up when it is the only one, and long.
LEMMA ParallelIs ==
  ASSUME TableInv, NEW run \in Gaps(ids, Floor)
  PROVE  Parallel(run, MissingBlockIds)
           = IF Gaps(ids, Floor) = {run} /\ run[2] - run[1] > Wide THEN Threads ELSE 1
<1> DEFINE runs == MissingBlockIds
           gaps == Gaps(ids, Floor)
<1>1. /\ runs \in Seq(Nat \X Nat) /\ ToSet(runs) = gaps
      /\ \A i, j \in DOMAIN runs : i < j => runs[i][1] > runs[j][1]
  BY ScanFinds DEF ScanFindsGaps
<1>2. run \in gaps
  OBVIOUS
<1> HIDE DEF runs, gaps
<1>3. DOMAIN runs = 1 .. Len(runs) /\ Len(runs) \in Nat /\ gaps = {runs[i] : i \in DOMAIN runs}
  BY <1>1 DEF ToSet
<1>4. ASSUME Len(runs) = 1 PROVE gaps = {run}
  <2>1. DOMAIN runs = {1}
    BY <1>3, <1>4
  <2>2. gaps = {runs[1]}
    BY <1>3, <2>1
  <2>3. QED  BY <1>2, <2>2
<1>5. ASSUME gaps = {run} PROVE Len(runs) = 1
  <2>1. \A i \in DOMAIN runs : runs[i] = run
    BY <1>3, <1>5
  <2>2. DOMAIN runs # {}
    BY <1>2, <1>3
  <2>3. ASSUME Len(runs) > 1 PROVE FALSE
    <3>1. 1 \in DOMAIN runs /\ 2 \in DOMAIN runs
      BY <1>3, <2>3
    <3>2. runs[1] = runs[2] /\ runs[1] \in Nat \X Nat
      BY <1>1, <2>1, <3>1
    <3>3. runs[1][1] > runs[2][1] /\ runs[1][1] = runs[2][1] /\ runs[1][1] \in Nat
      BY <1>1, <3>1, <3>2
    <3>4. QED  BY <3>3
  <2>4. QED  BY <1>3, <2>2, <2>3
<1>6. (Len(runs) = 1) <=> (gaps = {run})
  BY <1>4, <1>5
<1>7. QED  BY <1>6 DEF Parallel, runs, gaps

\* The pieces the loop makes of a run, one by one.
LEMMA PiecesAre ==
  ASSUME TableInv, NEW run \in Gaps(ids, Floor)
  PROVE  LET pieces == Walk(run, MissingBlockIds)
             n == Parallel(run, MissingBlockIds)
         IN /\ n \in Nat /\ DOMAIN pieces = 1 .. n
            /\ \A i \in 1 .. n : pieces[i] = PieceOf(run, i - 1)
            /\ n > 1 => n = Threads /\ run[2] - run[1] > Wide
<1> DEFINE pieces == Walk(run, MissingBlockIds)
           n == Parallel(run, MissingBlockIds)
<1>1. run \in Nat \X Nat /\ run[2] > 0
  BY RunsAre
<1>2. Threads \in Nat
  BY GapScanAssumption DEF GapScanAssumption
<1>3. n \in Nat /\ (n > 1 => n = Threads /\ run[2] - run[1] > Wide)
  BY <1>2, ParallelIs
<1>4. /\ pieces \in Seq([start : Int, end : Int]) /\ Len(pieces) = n
      /\ \A i \in 1 .. Len(pieces) : pieces[i] = PieceOf(run, i - 1)
  BY <1>1, <1>3, WalkMakes
<1> HIDE DEF pieces, n
<1>5. DOMAIN pieces = 1 .. n
  BY <1>4, LenProperties
<1>6. QED  BY <1>3, <1>4, <1>5 DEF pieces, n

\* The loop of start_harvester makes the pieces that Pieces says, which is what
\* the specification of the harvester has it do.
THEOREM WalkIsRight == Spec => []WalkIsPieces
<1>1. ASSUME TableInv, NEW run \in Gaps(ids, Floor)
      PROVE  ToSet(Walk(run, MissingBlockIds))
               = Pieces(run, Gaps(ids, Floor) = {run}, Limit, Wide, Threads)
  <2> DEFINE pieces == Walk(run, MissingBlockIds)
             n == Parallel(run, MissingBlockIds)
  <2>1. /\ n \in Nat /\ DOMAIN pieces = 1 .. n
        /\ \A i \in 1 .. n : pieces[i] = PieceOf(run, i - 1)
    BY <1>1, PiecesAre
  <2>2. Pieces(run, Gaps(ids, Floor) = {run}, Limit, Wide, Threads)
          = {PieceOf(run, i) : i \in 0 .. n - 1}
    BY <1>1, ParallelIs DEF Pieces, PieceOf, StartOf
  <2> HIDE DEF pieces, n
  <2>3. ToSet(pieces) = {PieceOf(run, i) : i \in 0 .. n - 1}
    <3>1. ToSet(pieces) = {PieceOf(run, i - 1) : i \in 1 .. n}
      BY <2>1 DEF ToSet
    <3>2. \A i \in 1 .. n : i - 1 \in 0 .. n - 1
      BY <2>1
    <3>3. \A i \in 0 .. n - 1 : i + 1 \in 1 .. n /\ (i + 1) - 1 = i
      BY <2>1
    <3>4. QED  BY <3>1, <3>2, <3>3
  <2>4. QED  BY <2>2, <2>3 DEF pieces
<1>2. TableInv => WalkIsPieces
  BY <1>1 DEF WalkIsPieces
<1>3. QED  BY <1>2, TableInvariant, PTL

\* No call for a gap is wasted on a block that is there, and the calls for one
\* run have at most the block in common at which the next one starts.
THEOREM NoPieceIsWasted == Spec => []PiecesAreMissing
<1>1. ASSUME TableInv, NEW run \in Gaps(ids, Floor)
      PROVE  LET pieces == Walk(run, MissingBlockIds)
             IN /\ \A i \in DOMAIN pieces : pieces[i].start \in run[1] .. run[2]
                /\ \A i, j \in DOMAIN pieces : i < j =>
                     PieceBlocks(pieces[i]) \cap PieceBlocks(pieces[j]) \subseteq {pieces[j].start}
  <2> DEFINE pieces == Walk(run, MissingBlockIds)
             n == Parallel(run, MissingBlockIds)
             w == Limit - 1
             a == run[1]
             b == run[2]
  <2>1. /\ n \in Nat /\ DOMAIN pieces = 1 .. n
        /\ \A i \in 1 .. n : pieces[i] = PieceOf(run, i - 1)
        /\ n > 1 => n = Threads /\ b - a > Wide
    BY <1>1, PiecesAre
  <2>2. a \in Nat /\ b \in Nat /\ 0 < a /\ a <= b
    BY <1>1, RunsAre
  <2>3. /\ Limit \in Nat /\ Wide \in Nat /\ Threads \in Nat /\ w \in Nat /\ Limit = w + 1
        /\ (Threads - 1) * w <= Wide + 1
    BY GapScanAssumption DEF GapScanAssumption
  <2> HIDE DEF pieces, n, w
  <2>4. ASSUME NEW i \in 1 .. n
        PROVE  /\ (i - 1) * w \in Nat /\ (i - 1) * w <= b - a
               /\ pieces[i].start = b - (i - 1) * w
               /\ pieces[i].end = Max2(b - (i - 1) * w - Limit, 0)
    <3> DEFINE k == i - 1
    <3>1. k \in Nat /\ k <= n - 1
      BY <2>1
    <3> HIDE DEF k
    <3>2. k * w \in Nat
      BY <2>3, <3>1
    <3>3. k * w <= b - a
      <4>1. CASE k = 0
        BY <2>2, <2>3, <4>1
      <4>2. CASE k > 0
        <5>1. n = Threads /\ b - a > Wide
          BY <2>1, <3>1, <4>2
        <5>2. k <= Threads - 1
          BY <3>1, <5>1
        <5>3. k * w <= (Threads - 1) * w
          BY <2>3, <3>1, <5>2
        <5>4. QED  BY <2>2, <2>3, <3>2, <5>1, <5>3
      <4>3. QED  BY <3>1, <4>1, <4>2
    <3>4. StartOf(run, k) = b - k * w
      <4>1. CASE k = 0
        BY <2>2, <2>3, <4>1 DEF StartOf
      <4>2. CASE k # 0
        <5>1. StartOf(run, k) = Max2(b - k * w, 1)
          BY <4>2 DEF StartOf, w
        <5>2. b - k * w >= 1
          BY <2>2, <3>2, <3>3
        <5>3. QED  BY <2>2, <3>2, <5>1, <5>2 DEF Max2
      <4>3. QED  BY <4>1, <4>2
    <3>5. pieces[i] = PieceOf(run, k)
      BY <2>1 DEF k
    <3>6. QED  BY <3>2, <3>3, <3>4, <3>5 DEF PieceOf, k
  <2>5. ASSUME NEW i \in 1 .. n PROVE pieces[i].start \in a .. b
    BY <2>2, <2>4
  <2>6. ASSUME NEW i \in 1 .. n, NEW j \in 1 .. n, i < j,
               NEW m \in PieceBlocks(pieces[i]) \cap PieceBlocks(pieces[j])
        PROVE  m = pieces[j].start
    <3> DEFINE p == (i - 1) * w
               q == (j - 1) * w
    <3>1. /\ p \in Nat /\ q \in Nat /\ q <= b - a
          /\ pieces[i].start = b - p /\ pieces[j].start = b - q
          /\ pieces[i].end = Max2(b - p - Limit, 0)
      BY <2>4
    <3>2. q >= p + w
      <4>1. i \in Nat /\ j \in Nat /\ j - 1 >= (i - 1) + 1
        BY <2>1, <2>6
      <4>2. \A k, l \in Nat : l >= k => l * w >= k * w
        BY <2>3
      <4>3. (j - 1) * w >= ((i - 1) + 1) * w
        BY <2>1, <4>1, <4>2
      <4>4. ((i - 1) + 1) * w = (i - 1) * w + w
        BY <2>1, <2>3
      <4>5. QED  BY <4>3, <4>4
    <3> HIDE DEF p, q
    <3>3. b - p >= Limit
      BY <2>2, <2>3, <3>1, <3>2
    <3>4. /\ m \in 0 .. b - q
          /\ m > Max2(b - p - Limit, 0) \/ b - p < Limit
      BY <2>6, <3>1 DEF PieceBlocks
    <3>5. Max2(b - p - Limit, 0) = b - p - Limit
      BY <2>2, <2>3, <3>1, <3>3 DEF Max2
    <3>6. m \in Int /\ m <= b - q /\ m > b - p - Limit
      BY <2>2, <2>3, <3>1, <3>3, <3>4, <3>5
    <3>7. m = b - q
      BY <2>2, <2>3, <3>1, <3>2, <3>6
    <3>8. QED  BY <3>1, <3>7
  <2>7. QED  BY <2>1, <2>5, <2>6 DEF pieces
<1>2. TableInv => PiecesAreMissing
  BY <1>1 DEF PiecesAreMissing
<1>3. QED  BY <1>2, TableInvariant, PTL
==============================================================================
