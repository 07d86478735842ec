---------------------------- MODULE Ledger_proofs ----------------------------
(***************************************************************************)
(* For any files, histories, keys and bounds: the ledger stays readable,   *)
(* an import applies what was reviewed, a walk shows every activity once,  *)
(* and the portfolio is the one the events tell.                           *)
(*                                                                         *)
(* A loop of the code is a function over the steps it took; such a         *)
(* function exists and is unique by the least step at which it would not   *)
(* be (Climb, LoopExists), and what it computes is an invariant over its   *)
(* steps.                                                                  *)
(***************************************************************************)
EXTENDS Ledger, FiniteSetTheorems, WellFoundedInduction, TLAPS

-----------------------------------------------------------------------------
(* Numbers and loops.                                                      *)

\* A set of numbers that is not empty has a least one.
LEMMA LeastNumber ==
    ASSUME NEW M, M \subseteq Nat, M # {}
    PROVE  \E i \in M : \A j \in M : i <= j
<1> DEFINE Less == {pair \in Nat \X Nat : pair[1] < pair[2]}
<1>1. IsWellFoundedOn(Less, Nat)
    BY NatLessThanWellFounded, Zenon DEF OpToRel
<1>2. \A i, j \in Nat : j < i => <<j, i>> \in Less
    OBVIOUS
<1> HIDE DEF Less
<1>3. PICK i \in M : \A j \in M : <<j, i>> \notin Less
    BY <1>1, WFMin
<1>4. ASSUME NEW j \in M PROVE i <= j
    <2>1. i \in Nat /\ j \in Nat /\ <<j, i>> \notin Less
        BY <1>3
    <2>2. ~(j < i)
        BY <1>2, <2>1
    <2> QED BY <2>1, <2>2
<1> QED BY <1>4

\* What holds of 0 and of each number after one it holds of holds up to n; M is
\* the set of the numbers it holds of.
LEMMA Climb ==
    ASSUME NEW n \in Nat, NEW M, 0 \in M,
           \A i \in 1..n : i - 1 \in M => i \in M
    PROVE  \A i \in 0..n : i \in M
<1> DEFINE Missing == {i \in 0..n : i \notin M}
<1>1. SUFFICES ASSUME Missing # {} PROVE FALSE
    OBVIOUS
<1>2. PICK i \in Missing : \A j \in Missing : i <= j
    <2>1. Missing \subseteq Nat
        OBVIOUS
    <2> HIDE DEF Missing
    <2> QED BY <1>1, <2>1, LeastNumber
<1>3. i \in 1..n /\ i - 1 \in 0..n
    BY <1>2
<1>4. i - 1 \in M
    <2>1. SUFFICES ASSUME i - 1 \in Missing PROVE FALSE
        BY <1>3
    <2>2. i <= i - 1
        BY <1>2, <2>1
    <2> QED BY <1>3, <2>2
<1> QED BY <1>2, <1>3, <1>4

\* The states of a loop that starts in base and takes step[i] in its i-th turn.
Loops(S, n, base, step, state) ==
    /\ state \in [0..n -> S]
    /\ state[0] = base
    /\ \A i \in 1..n : state[i] = step[i][state[i - 1]]

LEMMA LoopExists ==
    ASSUME NEW S, NEW n \in Nat, NEW base \in S, NEW step,
           \A i \in 1..n : step[i] \in [S -> S]
    PROVE  \E state : Loops(S, n, base, step, state)
<1> DEFINE M == {m \in 0..n : \E state : Loops(S, m, base, step, state)}
<1>1. 0 \in M
    <2>1. Loops(S, 0, base, step, [i \in 0..0 |-> base])
        BY DEF Loops
    <2> QED BY <2>1
<1>2. ASSUME NEW m \in 1..n, m - 1 \in M PROVE m \in M
    <2>1. PICK state : Loops(S, m - 1, base, step, state)
        BY <1>2
    <2> DEFINE last == step[m][state[m - 1]]
               more == [i \in 0..m |-> IF i = m THEN last ELSE state[i]]
    <2>2. m - 1 \in 0..(m - 1) /\ state[m - 1] \in S
        BY <2>1 DEF Loops
    <2>3. last \in S
        BY <2>2
    <2>4. \A i \in 0..(m - 1) : state[i] \in S /\ more[i] = state[i]
        BY <2>1 DEF Loops
    <2>5. more \in [0..m -> S] /\ more[0] = base /\ more[m] = last
        <3> HIDE DEF last
        <3>1. \A i \in 0..m : i = m \/ i \in 0..(m - 1)
            OBVIOUS
        <3> QED BY <2>1, <2>3, <2>4, <3>1 DEF Loops
    <2> HIDE DEF more
    <2>6. ASSUME NEW i \in 1..m PROVE more[i] = step[i][more[i - 1]]
        <3>1. i - 1 \in 0..(m - 1) /\ more[i - 1] = state[i - 1]
            BY <2>4
        <3>2. CASE i = m
            BY <2>5, <3>1, <3>2
        <3>3. CASE i # m
            <4>1. i \in 1..(m - 1) /\ i \in 0..(m - 1)
                BY <3>3
            <4>2. state[i] = step[i][state[i - 1]]
                BY <2>1, <4>1 DEF Loops
            <4> QED BY <2>4, <3>1, <4>1, <4>2
        <3> QED BY <3>2, <3>3
    <2>7. Loops(S, m, base, step, more)
        BY <2>5, <2>6 DEF Loops
    <2> QED BY <2>7
<1> HIDE DEF M
<1>3. n \in M
    BY <1>1, <1>2, Climb
<1> QED BY <1>3 DEF M

-----------------------------------------------------------------------------
(* Orders.  The rank of a position is the number of positions up to it, and  *)
(* the position of a rank is the only one that has it.                       *)

Precedes(key, i, j) == key[i] < key[j] \/ (key[i] = key[j] /\ i < j)

UpTo(S, key, i) == {j \in S : key[j] < key[i] \/ (key[j] = key[i] /\ j <= i)}

Rank(S, key, i) == Cardinality(UpTo(S, key, i))

Keyed(S, key) == IsFiniteSet(S) /\ S \subseteq Nat /\ \A i \in S : key[i] \in Int

\* o names every position of S, and each after those that precede it.
Ordered(S, key, n, o) ==
    /\ o \in [1..n -> S]
    /\ \A i \in S : \E k \in 1..n : o[k] = i
    /\ \A k, l \in 1..n : k < l => Precedes(key, o[k], o[l])

LEMMA RankType ==
    ASSUME NEW S, NEW key, Keyed(S, key), NEW i \in S
    PROVE  /\ UpTo(S, key, i) \in SUBSET S /\ IsFiniteSet(UpTo(S, key, i))
           /\ Rank(S, key, i) \in 1..Cardinality(S)
<1>1. UpTo(S, key, i) \in SUBSET S /\ i \in UpTo(S, key, i)
    BY DEF UpTo, Keyed
<1>2. IsFiniteSet(S) /\ Cardinality(S) \in Nat
    BY FS_CardinalityType DEF Keyed
<1>3. IsFiniteSet(UpTo(S, key, i)) /\ Rank(S, key, i) <= Cardinality(S)
    BY <1>1, <1>2, FS_Subset DEF Rank
<1>4. Rank(S, key, i) \in Nat /\ Rank(S, key, i) # 0
    BY <1>1, <1>3, FS_CardinalityType, FS_EmptySet DEF Rank
<1> QED BY <1>1, <1>2, <1>3, <1>4

LEMMA RanksGrow ==
    ASSUME NEW S, NEW key, Keyed(S, key), NEW i \in S, NEW j \in S, Precedes(key, i, j)
    PROVE  Rank(S, key, i) < Rank(S, key, j)
<1> DEFINE A == UpTo(S, key, i)
           B == UpTo(S, key, j)
<1>1. i \in Nat /\ j \in Nat /\ key[i] \in Int /\ key[j] \in Int
    BY DEF Keyed
<1>2. A \subseteq B
    <2>1. ASSUME NEW k \in A PROVE k \in B
        <3>1. k \in S /\ k \in Nat /\ key[k] \in Int
            BY DEF UpTo, Keyed
        <3> QED BY <1>1, <3>1 DEF UpTo, Precedes
    <2> QED BY <2>1
<1>3. j \in B /\ j \notin A
    BY <1>1 DEF UpTo, Precedes
<1>4. IsFiniteSet(B) /\ Rank(S, key, i) \in Int /\ Rank(S, key, j) \in Int
    BY RankType
<1> HIDE DEF A, B
<1>5. Cardinality(A) <= Cardinality(B) /\ Cardinality(A) # Cardinality(B)
    BY <1>2, <1>3, <1>4, FS_Subset
<1> QED BY <1>4, <1>5 DEF A, B, Rank

LEMMA RanksDiffer ==
    ASSUME NEW S, NEW key, Keyed(S, key), NEW i \in S, NEW j \in S
    PROVE  /\ Rank(S, key, i) = Rank(S, key, j) => i = j
           /\ Rank(S, key, i) < Rank(S, key, j) <=> Precedes(key, i, j)
<1>1. i = j \/ Precedes(key, i, j) \/ Precedes(key, j, i)
    BY DEF Keyed, Precedes
<1>2. ~Precedes(key, i, i)
    BY DEF Keyed, Precedes
<1>3. Rank(S, key, i) \in Int /\ Rank(S, key, j) \in Int
    BY RankType
<1>4. Precedes(key, i, j) => Rank(S, key, i) < Rank(S, key, j)
    BY RanksGrow
<1>5. Precedes(key, j, i) => Rank(S, key, j) < Rank(S, key, i)
    BY RanksGrow
<1> QED BY <1>1, <1>2, <1>3, <1>4, <1>5

\* Every number up to that of the positions is a rank.
LEMMA RanksTaken ==
    ASSUME NEW S, NEW key, Keyed(S, key), NEW k \in 1..Cardinality(S)
    PROVE  \E i \in S : Rank(S, key, i) = k
<1> DEFINE n == Cardinality(S)
           rank == [i \in S |-> Rank(S, key, i)]
<1>1. n \in Nat
    BY FS_CardinalityType DEF Keyed
<1>2. IsFiniteSet(1..n) /\ Cardinality(1..n) = n
    BY <1>1, FS_Interval
<1>3. rank \in Injection(S, 1..n)
    BY RankType, RanksDiffer DEF Injection, IsInjective
<1>4. rank \in Surjection(S, 1..n)
    <2> HIDE DEF rank
    <2> QED BY <1>2, <1>3, FS_Injection DEF n
<1> QED BY <1>4 DEF Surjection

LEMMA InOrderRanks ==
    ASSUME NEW S, NEW key, Keyed(S, key)
    PROVE  /\ InOrder(S, key) \in [1..Cardinality(S) -> S]
           /\ \A k \in 1..Cardinality(S) : Rank(S, key, InOrder(S, key)[k]) = k
<1> DEFINE ranks == {<<Rank(S, key, i), i>> : i \in S}
<1>1. InOrder(S, key) = [k \in 1..Cardinality(S) |-> CHOOSE i \in S : <<k, i>> \in ranks]
    BY DEF InOrder, Rank, UpTo
<1>2. \A k : \A i \in S : <<k, i>> \in ranks <=> Rank(S, key, i) = k
    OBVIOUS
<1> HIDE DEF ranks
<1>3. ASSUME NEW k \in 1..Cardinality(S)
      PROVE  (CHOOSE i \in S : <<k, i>> \in ranks) = (CHOOSE i \in S : Rank(S, key, i) = k)
    BY <1>2
<1>4. InOrder(S, key) = [k \in 1..Cardinality(S) |-> CHOOSE i \in S : Rank(S, key, i) = k]
    BY <1>1, <1>3
<1>5. ASSUME NEW k \in 1..Cardinality(S)
      PROVE  /\ (CHOOSE i \in S : Rank(S, key, i) = k) \in S
             /\ Rank(S, key, CHOOSE i \in S : Rank(S, key, i) = k) = k
    <2>1. PICK i \in S : Rank(S, key, i) = k
        BY RanksTaken
    <2> QED BY <2>1
<1> QED BY <1>4, <1>5

LEMMA InOrderOrdered ==
    ASSUME NEW S, NEW key, Keyed(S, key)
    PROVE  Ordered(S, key, Cardinality(S), InOrder(S, key)) /\ Cardinality(S) \in Nat
<1> DEFINE n == Cardinality(S)
           o == InOrder(S, key)
<1>1. n \in Nat
    BY FS_CardinalityType DEF Keyed
<1>2. o \in [1..n -> S] /\ \A k \in 1..n : Rank(S, key, o[k]) = k
    BY InOrderRanks
<1> HIDE DEF o
<1>3. \A k \in 1..n : o[k] \in S
    BY <1>2
<1>4. ASSUME NEW i \in S PROVE \E k \in 1..n : o[k] = i
    BY <1>2, <1>3, RankType, RanksDiffer
<1>5. ASSUME NEW k \in 1..n, NEW l \in 1..n, k < l PROVE Precedes(key, o[k], o[l])
    BY <1>2, <1>3, <1>5, RanksDiffer
<1> QED BY <1>1, <1>2, <1>4, <1>5 DEF Ordered, o

\* There is one order only.
LEMMA OneOrder ==
    ASSUME NEW S, NEW key, Keyed(S, key), NEW n \in Nat, NEW o, Ordered(S, key, n, o)
    PROVE  n = Cardinality(S) /\ o = InOrder(S, key)
<1>1. ASSUME NEW k \in 1..n, NEW l \in 1..n
      PROVE  o[k] \in S /\ o[l] \in S /\ (k <= l <=> o[k] \in UpTo(S, key, o[l]))
    <2>1. o[k] \in S /\ o[l] \in S
        BY DEF Ordered
    <2>2. k < l => Precedes(key, o[k], o[l])
        BY DEF Ordered
    <2>3. l < k => Precedes(key, o[l], o[k])
        BY DEF Ordered
    <2>4. k < l \/ l < k \/ k = l
        OBVIOUS
    <2>5. o[k] \in Nat /\ o[l] \in Nat /\ key[o[k]] \in Int /\ key[o[l]] \in Int
        BY <2>1 DEF Keyed
    <2>6. k < l => o[k] \in UpTo(S, key, o[l])
        BY <2>1, <2>2, <2>5 DEF UpTo, Precedes
    <2>7. l < k => o[k] \notin UpTo(S, key, o[l])
        BY <2>1, <2>3, <2>5 DEF UpTo, Precedes
    <2>8. k = l => o[k] \in UpTo(S, key, o[l])
        BY <2>1, <2>5 DEF UpTo
    <2> QED BY <2>1, <2>4, <2>6, <2>7, <2>8
<1>2. \A k, l \in 1..n : k # l => o[k] # o[l]
    <2>1. ASSUME NEW k \in 1..n, NEW l \in 1..n, k < l PROVE o[k] # o[l]
        <3>1. o[l] \notin UpTo(S, key, o[k]) /\ o[k] \in UpTo(S, key, o[k])
            BY <1>1, <2>1
        <3> QED BY <3>1
    <2> QED BY <2>1
<1>3. ASSUME NEW m \in 0..n, NEW T, T = {o[k] : k \in 1..m}
      PROVE  Cardinality(T) = m
    <2> DEFINE f == [k \in 1..m |-> o[k]]
    <2>1. f \in Bijection(1..m, T)
        BY <1>2, <1>3 DEF Bijection, Injection, Surjection, IsInjective
    <2> QED BY <2>1, FS_CountingElements DEF ExistsBijection
<1>4. n = Cardinality(S)
    <2>1. S = {o[k] : k \in 1..n}
        BY DEF Ordered
    <2> QED BY <1>3, <2>1
<1>5. ASSUME NEW k \in 1..n PROVE Rank(S, key, o[k]) = k
    <2>1. UpTo(S, key, o[k]) = {o[l] : l \in 1..k}
        <3>1. ASSUME NEW i \in UpTo(S, key, o[k]) PROVE i \in {o[l] : l \in 1..k}
            <4>1. PICK l \in 1..n : o[l] = i
                BY DEF UpTo, Ordered
            <4> QED BY <1>1, <4>1
        <3>2. ASSUME NEW l \in 1..k PROVE o[l] \in UpTo(S, key, o[k])
            BY <1>1
        <3> QED BY <3>1, <3>2
    <2> QED BY <1>3, <2>1 DEF Rank
<1>6. ASSUME NEW k \in 1..n PROVE o[k] = InOrder(S, key)[k]
    <2>1. InOrder(S, key)[k] \in S /\ Rank(S, key, InOrder(S, key)[k]) = k
        BY <1>4, InOrderRanks
    <2>2. o[k] \in S /\ Rank(S, key, o[k]) = k
        BY <1>1, <1>5
    <2> QED BY <2>1, <2>2, RanksDiffer
<1>7. InOrder(S, key) \in [1..n -> S] /\ o \in [1..n -> S]
    BY <1>4, InOrderRanks DEF Ordered
<1> QED BY <1>4, <1>6, <1>7

-----------------------------------------------------------------------------
(* Previews.                                                               *)

StatusOfRow == {"new", "duplicate", "unresolved", "error"}

ParsedRow == [row: LedgerRow, status: StatusOfRow]

LEMMA StatusIs ==
    ASSUME NEW history, NEW earlier, NEW row
    PROVE  /\ Status(history, earlier, row) \in StatusOfRow
           /\ Status(history, earlier, row) = "new" => IsCanonical(row)
BY DEF Status, StatusOfRow

LEMMA Appends ==
    ASSUME NEW S, NEW s \in Seq(S), NEW e \in S
    PROVE  /\ Append(s, e) \in Seq(S) /\ Len(Append(s, e)) = Len(s) + 1 /\ Len(s) \in Nat
           /\ \A i \in 1..Len(s) : Append(s, e)[i] = s[i] /\ s[i] \in S
           /\ Append(s, e)[Len(s) + 1] = e
OBVIOUS

\* The rows of a preview are those of its file, and only a canonical one is new.
LEMMA ParsedAre ==
    ASSUME NEW history, NEW file \in Seq(LedgerRow)
    PROVE  /\ ParseCSV(history, file) \in Seq(ParsedRow)
           /\ Len(ParseCSV(history, file)) = Len(file)
           /\ \A i \in 1..Len(file) :
                 ParseCSV(history, file)[i].status = "new" => IsCanonical(ParseCSV(history, file)[i].row)
<1> DEFINE N == Len(file)
           S == Seq(ParsedRow)
           Parse(rows, n) == Append(rows, [row |-> file[n], status |-> Status(history, rows, file[n])])
           Follows(f) == f = [n \in 0..N |-> IF n = 0 THEN <<>> ELSE Parse(f[n - 1], n)]
           step == [n \in 1..N |-> [rows \in S |-> Parse(rows, n)]]
<1>1. ASSUME NEW rows \in S, NEW n \in 1..N
      PROVE  /\ Parse(rows, n) \in S /\ Len(Parse(rows, n)) = Len(rows) + 1
             /\ \A i \in 1..Len(rows) : Parse(rows, n)[i] = rows[i]
             /\ Parse(rows, n)[Len(rows) + 1].status = "new" =>
                   IsCanonical(Parse(rows, n)[Len(rows) + 1].row)
    <2> DEFINE parsed == [row |-> file[n], status |-> Status(history, rows, file[n])]
    <2>1. parsed \in ParsedRow /\ (parsed.status = "new" => IsCanonical(parsed.row))
        BY StatusIs DEF ParsedRow
    <2> HIDE DEF parsed
    <2>2. Parse(rows, n) = Append(rows, parsed)
        BY DEF parsed
    <2> HIDE DEF Parse
    <2> QED BY <2>1, <2>2, Appends
<1>2. N \in Nat /\ <<>> \in S
    OBVIOUS
<1> HIDE DEF Parse, N, S
<1>3. \E f : Follows(f)
    <2>1. \A n \in 1..N : step[n] \in [S -> S]
        BY <1>1
    <2>2. \A n \in 1..N : \A rows \in S : step[n][rows] = Parse(rows, n)
        OBVIOUS
    <2> HIDE DEF step
    <2>3. PICK f : Loops(S, N, <<>>, step, f)
        BY <1>2, <2>1, LoopExists
    <2>4. \A n \in 1..N : n - 1 \in 0..N /\ f[n - 1] \in S
        BY <1>2, <2>3 DEF Loops
    <2>5. \A n \in 1..N : f[n] = Parse(f[n - 1], n)
        BY <2>2, <2>3, <2>4 DEF Loops
    <2>6. Follows(f)
        BY <1>2, <2>3, <2>5 DEF Loops
    <2> QED BY <2>6
<1>4. PICK f : Follows(f) /\ f = CHOOSE g : Follows(g)
    BY <1>3
<1>5. ParseCSV(history, file) = f[N]
    BY <1>4 DEF ParseCSV, Parse, N
<1> DEFINE Fits(n) == /\ f[n] \in S /\ Len(f[n]) = n
                      /\ \A i \in 1..n : f[n][i].status = "new" => IsCanonical(f[n][i].row)
           M == {n \in 0..N : Fits(n)}
<1>6. 0 \in M
    <2>1. f[0] = <<>>
        BY <1>2, <1>4
    <2> QED BY <1>2, <2>1
<1>7. ASSUME NEW n \in 1..N, n - 1 \in M PROVE n \in M
    <2>1. Fits(n - 1) /\ n \in 0..N
        BY <1>2, <1>7
    <2>2. f[n] = Parse(f[n - 1], n)
        BY <1>2, <1>4
    <2>3. Len(f[n - 1]) + 1 = n
        BY <2>1
    <2>4. \A i \in 1..n : i = n \/ i \in 1..(n - 1)
        OBVIOUS
    <2>5. f[n] \in S /\ Len(f[n]) = n
        BY <1>1, <2>1, <2>2, <2>3
    <2>6. ASSUME NEW i \in 1..n PROVE f[n][i].status = "new" => IsCanonical(f[n][i].row)
        <3>1. CASE i = n
            BY <1>1, <2>1, <2>2, <2>3, <3>1
        <3>2. CASE i \in 1..(n - 1)
            <4>1. f[n - 1] \in S /\ i \in 1..Len(f[n - 1])
                BY <2>1, <3>2
            <4>2. f[n][i] = f[n - 1][i]
                <5> HIDE DEF Fits
                <5> QED BY <1>1, <2>2, <4>1
            <4> QED BY <2>1, <3>2, <4>2
        <3> QED BY <2>4, <3>1, <3>2
    <2>7. Fits(n)
        BY <2>5, <2>6
    <2> QED BY <2>1, <2>7
<1> HIDE DEF M
<1>8. N \in M
    BY <1>2, <1>6, <1>7, Climb
<1> QED BY <1>5, <1>8 DEF M, N, S

\* What a preview adds are canonical rows.
LEMMA NewRowsAre ==
    ASSUME NEW p, p.rows \in Seq(ParsedRow),
           \A i \in 1..Len(p.rows) : p.rows[i].status = "new" => IsCanonical(p.rows[i].row)
    PROVE  /\ NewRows(p) \in Seq(LedgerRow)
           /\ \A i \in 1..Len(NewRows(p)) : IsCanonical(NewRows(p)[i])
<1> DEFINE rows == p.rows
           N == Len(rows)
           S == {s \in Seq(LedgerRow) : \A i \in 1..Len(s) : IsCanonical(s[i])}
           Pick(fresh, n) == IF rows[n].status = "new" THEN Append(fresh, rows[n].row) ELSE fresh
           Follows(f) == f = [n \in 0..N |-> IF n = 0 THEN <<>> ELSE Pick(f[n - 1], n)]
           step == [n \in 1..N |-> [fresh \in S |-> Pick(fresh, n)]]
<1>1. ASSUME NEW fresh \in S, NEW n \in 1..N
      PROVE  Pick(fresh, n) \in S
    <2>1. CASE rows[n].status # "new"
        BY <2>1
    <2>2. CASE rows[n].status = "new"
        <3>1. rows[n] \in ParsedRow /\ fresh \in Seq(LedgerRow)
            OBVIOUS
        <3>2. rows[n].row \in LedgerRow /\ IsCanonical(rows[n].row)
            BY <2>2, <3>1 DEF ParsedRow
        <3>3. /\ Append(fresh, rows[n].row) \in Seq(LedgerRow)
              /\ Len(Append(fresh, rows[n].row)) = Len(fresh) + 1
              /\ \A i \in 1..Len(fresh) : Append(fresh, rows[n].row)[i] = fresh[i]
              /\ Append(fresh, rows[n].row)[Len(fresh) + 1] = rows[n].row
              /\ Len(fresh) \in Nat
            BY <3>1, <3>2, Appends
        <3>4. \A i \in 1..(Len(fresh) + 1) : i \in 1..Len(fresh) \/ i = Len(fresh) + 1
            BY <3>3
        <3> QED BY <2>2, <3>2, <3>3, <3>4
    <2> QED BY <2>1, <2>2
<1>2. N \in Nat /\ <<>> \in S
    OBVIOUS
<1> HIDE DEF Pick, N, S
<1>3. \E f : Follows(f)
    <2>1. \A n \in 1..N : step[n] \in [S -> S]
        BY <1>1
    <2>2. \A n \in 1..N : \A fresh \in S : step[n][fresh] = Pick(fresh, n)
        OBVIOUS
    <2> HIDE DEF step
    <2>3. PICK f : Loops(S, N, <<>>, step, f)
        BY <1>2, <2>1, LoopExists
    <2>4. \A n \in 1..N : n - 1 \in 0..N /\ f[n - 1] \in S
        BY <1>2, <2>3 DEF Loops
    <2>5. \A n \in 1..N : f[n] = Pick(f[n - 1], n)
        BY <2>2, <2>3, <2>4 DEF Loops
    <2>6. Follows(f)
        BY <1>2, <2>3, <2>5 DEF Loops
    <2> QED BY <2>6
<1>4. PICK f : Follows(f) /\ f = CHOOSE g : Follows(g)
    BY <1>3
<1>5. NewRows(p) = f[N]
    BY <1>4 DEF NewRows, Pick, N
<1> DEFINE M == {n \in 0..N : f[n] \in S}
<1>6. 0 \in M
    <2>1. f[0] = <<>>
        BY <1>2, <1>4
    <2> QED BY <1>2, <2>1
<1>7. ASSUME NEW n \in 1..N, n - 1 \in M PROVE n \in M
    <2>1. f[n - 1] \in S /\ n \in 0..N
        BY <1>2, <1>7
    <2>2. f[n] = Pick(f[n - 1], n)
        BY <1>2, <1>4
    <2> QED BY <1>1, <2>1, <2>2
<1> HIDE DEF M
<1>8. N \in M
    <2>1. \A n \in 1..N : n - 1 \in M => n \in M
        BY <1>7
    <2>2. \A n \in 0..N : n \in M
        BY <1>2, <1>6, <2>1, Climb
    <2> QED BY <1>2, <2>2
<1> QED BY <1>5, <1>8 DEF M, S


-----------------------------------------------------------------------------
(* What is stored stays.                                                   *)

LEMMA FirstPart ==
    ASSUME NEW S, NEW h \in Seq(S), NEW n \in 0..Len(h)
    PROVE  /\ SubSeq(h, 1, n) \in Seq(S) /\ Len(SubSeq(h, 1, n)) = n
           /\ \A i \in 1..n : SubSeq(h, 1, n)[i] = h[i] /\ h[i] \in S
           /\ Len(h) \in Nat
OBVIOUS

LEMMA Extensions ==
    ASSUME NEW S, NEW h \in Seq(S), NEW r \in Seq(S)
    PROVE  /\ h \o r \in Seq(S) /\ Len(h \o r) = Len(h) + Len(r)
           /\ Len(h) \in Nat /\ Len(r) \in Nat
           /\ \A i \in 1..Len(h) : (h \o r)[i] = h[i]
           /\ \A i \in 1..Len(r) : (h \o r)[Len(h) + i] = r[i]
           /\ \A i \in 1..(Len(h) + Len(r)) : i \in 1..Len(h) \/ \E j \in 1..Len(r) : i = Len(h) + j
<1>1. /\ h \o r \in Seq(S) /\ Len(h \o r) = Len(h) + Len(r)
      /\ Len(h) \in Nat /\ Len(r) \in Nat
      /\ \A i \in 1..Len(h) : (h \o r)[i] = h[i]
      /\ \A i \in 1..Len(r) : (h \o r)[Len(h) + i] = r[i]
    OBVIOUS
<1>2. ASSUME NEW i \in 1..(Len(h) + Len(r)), i \notin 1..Len(h)
      PROVE  \E j \in 1..Len(r) : i = Len(h) + j
    <2>1. i - Len(h) \in 1..Len(r) /\ i = Len(h) + (i - Len(h))
        BY <1>1, <1>2
    <2> QED BY <2>1
<1> QED BY <1>1, <1>2

\* Equal where they are defined.
LEMMA SameSequence ==
    ASSUME NEW S, NEW s \in Seq(S), NEW t \in Seq(S), Len(s) = Len(t),
           \A i \in 1..Len(s) : s[i] = t[i]
    PROVE  s = t
OBVIOUS

\* A longer history begins with what it was.
LEMMA OldPrefix ==
    ASSUME NEW S, NEW h \in Seq(S), NEW r \in Seq(S), NEW n \in 0..Len(h)
    PROVE  SubSeq(h \o r, 1, n) = SubSeq(h, 1, n) /\ n \in 0..Len(h \o r)
<1>1. n \in 0..Len(h \o r) /\ h \o r \in Seq(S)
    BY Extensions
<1>2. \A i \in 1..n : i \in 1..Len(h)
    BY Extensions
<1>3. \A i \in 1..n : SubSeq(h \o r, 1, n)[i] = SubSeq(h, 1, n)[i]
    BY <1>1, <1>2, Extensions, FirstPart
<1> QED BY <1>1, <1>3, FirstPart, SameSequence

LEMMA NewPrefix ==
    ASSUME NEW S, NEW h \in Seq(S), NEW r \in Seq(S), NEW n \in 0..Len(r)
    PROVE  SubSeq(h \o r, 1, Len(h) + n) = h \o SubSeq(r, 1, n)
<1> DEFINE s == SubSeq(h \o r, 1, Len(h) + n)
           t == h \o SubSeq(r, 1, n)
<1>1. /\ h \o r \in Seq(S) /\ Len(h) \in Nat /\ Len(r) \in Nat
      /\ Len(h) + n \in 0..Len(h \o r) /\ SubSeq(r, 1, n) \in Seq(S) /\ Len(SubSeq(r, 1, n)) = n
    BY Extensions, FirstPart
<1>2. s \in Seq(S) /\ t \in Seq(S) /\ Len(s) = Len(h) + n /\ Len(t) = Len(h) + n
    BY <1>1, Extensions, FirstPart
<1>3. ASSUME NEW i \in 1..(Len(h) + n) PROVE s[i] = t[i]
    <2>1. s[i] = (h \o r)[i]
        BY <1>1, FirstPart
    <2>2. CASE i \in 1..Len(h)
        BY <1>1, <2>1, <2>2, Extensions
    <2>3. CASE i \notin 1..Len(h)
        <3>1. PICK j \in 1..n : i = Len(h) + j
            <4>1. i - Len(h) \in 1..n /\ i = Len(h) + (i - Len(h))
                BY <1>1, <2>3
            <4> QED BY <4>1
        <3>2. t[i] = SubSeq(r, 1, n)[j]
            BY <1>1, <3>1, Extensions
        <3>3. j \in 1..Len(r) /\ (h \o r)[i] = r[j]
            BY <1>1, <3>1, Extensions
        <3> QED BY <1>1, <2>1, <3>2, <3>3, FirstPart
    <2> QED BY <2>2, <2>3
<1> HIDE DEF s, t
<1>4. s = t
    BY <1>2, <1>3, SameSequence
<1> QED BY <1>4 DEF s, t

LEMMA WholePrefix ==
    ASSUME NEW S, NEW h \in Seq(S)
    PROVE  SubSeq(h, 1, Len(h)) = h
<1>1. Len(h) \in 0..Len(h)
    OBVIOUS
<1> QED BY <1>1, FirstPart, SameSequence

\* What is added is what follows.
LEMMA AddedPart ==
    ASSUME NEW S, NEW h \in Seq(S), NEW r \in Seq(S)
    PROVE  SubSeq(h \o r, Len(h) + 1, Len(h \o r)) = r
<1> DEFINE s == SubSeq(h \o r, Len(h) + 1, Len(h \o r))
<1>1. h \o r \in Seq(S) /\ Len(h \o r) = Len(h) + Len(r) /\ Len(h) \in Nat /\ Len(r) \in Nat
    BY Extensions
<1>2. s \in Seq(S) /\ Len(s) = Len(r)
    BY <1>1
<1>3. ASSUME NEW i \in 1..Len(r) PROVE s[i] = r[i]
    <2>1. s[i] = (h \o r)[Len(h) + i]
        BY <1>1
    <2> QED BY <2>1, Extensions
<1> HIDE DEF s
<1>4. s = r
    BY <1>2, <1>3, SameSequence
<1> QED BY <1>4 DEF s

\* A part of the old history is a part of the longer one.
LEMMA OldPart ==
    ASSUME NEW S, NEW h \in Seq(S), NEW r \in Seq(S), NEW m \in Nat, NEW n \in 0..Len(h)
    PROVE  SubSeq(h \o r, m + 1, n) = SubSeq(h, m + 1, n)
<1> DEFINE s == SubSeq(h \o r, m + 1, n)
           t == SubSeq(h, m + 1, n)
<1>1. h \o r \in Seq(S) /\ Len(h \o r) = Len(h) + Len(r) /\ Len(h) \in Nat /\ Len(r) \in Nat
    BY Extensions
<1>2. s \in Seq(S) /\ t \in Seq(S) /\ Len(s) = Len(t)
    BY <1>1
<1>3. ASSUME NEW i \in 1..Len(s) PROVE s[i] = t[i]
    <2>1. m + i \in 1..Len(h) /\ s[i] = (h \o r)[m + i] /\ t[i] = h[m + i]
        BY <1>1
    <2> QED BY <2>1, Extensions
<1> HIDE DEF s, t
<1>4. s = t
    BY <1>2, <1>3, SameSequence
<1> QED BY <1>4 DEF s, t

-----------------------------------------------------------------------------
(* The events of a ledger.                                                 *)

\* Every row is canonical and could be inserted after those before it.
IsLedger(history) ==
    /\ history \in Seq(LedgerRow)
    /\ \A i \in 1..Len(history) : IsCanonical(history[i]) /\ CanInsert(SubSeq(history, 1, i - 1), history[i])

LEMMA DomainOfSequence ==
    ASSUME NEW S, NEW s \in Seq(S)
    PROVE  DOMAIN s = 1..Len(s) /\ Len(s) \in Nat /\ \A i \in 1..Len(s) : s[i] \in S
OBVIOUS

LEMMA ImportedIsLedger ==
    ASSUME NEW history \in Seq(LedgerRow), IsImported(history)
    PROVE  IsLedger(history)
<1>1. ASSUME NEW i \in 1..Len(history)
      PROVE  IsCanonical(history[i]) /\ CanInsert(SubSeq(history, 1, i - 1), history[i])
    <2>1. i \in DOMAIN history
        BY DomainOfSequence
    <2>2. IsCanonical(history[i]) /\ CanInsert(<<>> \o SubSeq(history, 1, i - 1), history[i])
        BY <2>1 DEF IsImported, CanInsertAll
    <2>3. <<>> \o SubSeq(history, 1, i - 1) = SubSeq(history, 1, i - 1)
        <3>1. i - 1 \in 0..Len(history)
            OBVIOUS
        <3>2. SubSeq(history, 1, i - 1) \in Seq(LedgerRow)
            BY <3>1, FirstPart
        <3> QED BY <3>2
    <2> QED BY <2>2, <2>3
<1> QED BY <1>1 DEF IsLedger

\* An import keeps it.
LEMMA ImportKeepsLedger ==
    ASSUME NEW history, IsLedger(history), NEW rows \in Seq(LedgerRow),
           \A i \in 1..Len(rows) : IsCanonical(rows[i]), CanInsertAll(history, rows)
    PROVE  IsLedger(history \o rows)
<1> DEFINE after == history \o rows
<1>1. history \in Seq(LedgerRow)
    BY DEF IsLedger
<1>2. after \in Seq(LedgerRow) /\ Len(after) = Len(history) + Len(rows)
    BY <1>1, Extensions
<1>3. ASSUME NEW i \in 1..Len(after)
      PROVE  IsCanonical(after[i]) /\ CanInsert(SubSeq(after, 1, i - 1), after[i])
    <2>1. CASE i \in 1..Len(history)
        <3>1. after[i] = history[i] /\ i - 1 \in 0..Len(history)
            BY <1>1, <2>1, Extensions
        <3>2. SubSeq(after, 1, i - 1) = SubSeq(history, 1, i - 1)
            BY <1>1, <3>1, OldPrefix
        <3> QED BY <2>1, <3>1, <3>2 DEF IsLedger
    <2>2. CASE i \notin 1..Len(history)
        <3>1. PICK j \in 1..Len(rows) : i = Len(history) + j
            BY <1>1, <1>2, <2>2, Extensions
        <3>2. after[i] = rows[j] /\ j \in DOMAIN rows /\ j - 1 \in 0..Len(rows) /\ i - 1 = Len(history) + (j - 1)
            BY <1>1, <3>1, Extensions, DomainOfSequence
        <3>3. SubSeq(after, 1, Len(history) + (j - 1)) = history \o SubSeq(rows, 1, j - 1)
            BY <1>1, <3>2, NewPrefix
        <3> QED BY <3>2, <3>3 DEF CanInsertAll
    <2> QED BY <2>1, <2>2
<1> QED BY <1>2, <1>3 DEF IsLedger

\* A void reverses what an earlier row stored.
LEMMA LedgerVoids ==
    ASSUME NEW history, IsLedger(history), NEW i \in 1..Len(history), history[i].type = "CASH_VOID"
    PROVE  \E j \in 1..(i - 1) : /\ history[j].source = history[i].corrects
                                 /\ VoidReverses(history[j], history[i])
<1>1. history \in Seq(LedgerRow) /\ i - 1 \in 0..Len(history)
    BY DEF IsLedger
<1>2. SubSeq(history, 1, i - 1) \in Seq(LedgerRow) /\ Len(SubSeq(history, 1, i - 1)) = i - 1
    BY <1>1, FirstPart
<1>3. ValidVoid(SubSeq(history, 1, i - 1), history[i])
    BY DEF IsLedger, CanInsert
<1>4. PICK j \in DOMAIN SubSeq(history, 1, i - 1) :
          /\ SubSeq(history, 1, i - 1)[j].source = history[i].corrects
          /\ VoidReverses(SubSeq(history, 1, i - 1)[j], history[i])
    BY <1>3 DEF ValidVoid
<1>5. j \in 1..(i - 1)
    BY <1>2, <1>4, DomainOfSequence
<1>6. SubSeq(history, 1, i - 1)[j] = history[j]
    BY <1>1, <1>5, FirstPart
<1> QED BY <1>4, <1>5, <1>6

\* So the events of a ledger prove.
LEMMA LedgerProves ==
    ASSUME IsLedger(events)
    PROVE  EventsProve
<1>1. events \in Seq(LedgerRow)
    BY DEF IsLedger
<1>2. DOMAIN events = 1..Len(events)
    BY <1>1, DomainOfSequence
<1>3. ASSUME NEW i \in 1..Len(events), events[i].type = "CASH_VOID"
      PROVE  ValidVoid(events, events[i])
    <2>1. PICK j \in 1..(i - 1) : /\ events[j].source = events[i].corrects
                                  /\ VoidReverses(events[j], events[i])
        BY <1>3, LedgerVoids
    <2>2. j \in DOMAIN events
        BY <1>1, <1>2
    <2> QED BY <2>1, <2>2 DEF ValidVoid
<1> QED BY <1>2, <1>3 DEF EventsProve, IsLedger

-----------------------------------------------------------------------------
(* The invariant: what is stored, and what was reviewed and applied.       *)

PreviewRecord == [file: File, rows: Seq(ParsedRow), revision: Nat, canApply: BOOLEAN]

ReceiptRecord == [key: Key, preview: Nat, before: Nat, after: Nat]

\* The ledger replays, and the upgrade it came from is the one recorded.
StoredInv ==
    /\ IsLedger(events)
    /\ policy \in {Fifo, Legacy}
    /\ legacyRevision \in 0..Revision
    /\ policy = Legacy => legacyRevision = Revision /\ legacyRevision > 0 /\ transition = {}
    /\ policy = Fifo => ReplayStateProves
    /\ Snapshot(policy, events, Revision).ok

\* A preview was parsed against the prefix it names.
ReviewInv ==
    /\ previews \in Seq(PreviewRecord)
    /\ \A i \in 1..Len(previews) :
          /\ previews[i].revision <= Revision
          /\ previews[i].rows = ParseCSV(SubSeq(events, 1, previews[i].revision), previews[i].file)

\* A receipt names what of its preview was added.
ReceiptInv ==
    /\ receipts \in Seq(ReceiptRecord)
    /\ \A i \in 1..Len(receipts) :
          /\ receipts[i].preview \in 1..Len(previews)
          /\ receipts[i].before = previews[receipts[i].preview].revision
          /\ receipts[i].before <= receipts[i].after
          /\ receipts[i].after <= Revision
          /\ SubSeq(events, receipts[i].before + 1, receipts[i].after) = NewRows(previews[receipts[i].preview])

\* The walk shows a revision that is stored.
WalkTypeInv == walk.revision \in 0..Revision

LedgerInv == StoredInv /\ ReviewInv /\ ReceiptInv /\ WalkTypeInv

LEMMA ReplaysNothing ==
    ASSUME NEW p
    PROVE  Replay(p, <<>>).ok
<1> DEFINE order == Chronology(p, <<>>)
           Follows(f) == f = [n \in 0..Len(<<>>) |-> IF n = 0 THEN EmptyAccount
                                                     ELSE Post(f[n - 1], <<>>[order[n]])]
           f == [n \in 0..0 |-> EmptyAccount]
<1>1. Len(<<>>) = 0
    OBVIOUS
<1>2. Follows(f)
    BY <1>1
<1>3. PICK g : Follows(g) /\ g = CHOOSE h : Follows(h)
    BY <1>2
<1>4. Replay(p, <<>>) = g[0]
    BY <1>1, <1>3 DEF Replay
<1>5. g[0] = EmptyAccount
    BY <1>1, <1>3
<1> QED BY <1>4, <1>5 DEF EmptyAccount

LEMMA LedgerInit == Init => LedgerInv
<1> SUFFICES ASSUME Init PROVE LedgerInv
    OBVIOUS
<1>1. PICK history \in UpgradedLedger \cup {<<>>} :
          /\ IsImported(history) /\ Replay(Legacy, history).ok
          /\ events = history
          /\ policy = IF history = <<>> THEN Fifo ELSE Legacy
          /\ legacyRevision = Len(history)
    BY DEF Init
<1>2. history \in Seq(LedgerRow) /\ Len(history) \in Nat
    <2>1. history \in Seq(LedgerRow)
        BY LedgerAssumption, <<>> \in Seq(LedgerRow)
    <2> QED BY <2>1, DomainOfSequence
<1>3. IsLedger(events)
    BY <1>1, <1>2, ImportedIsLedger
<1>4. SubSeq(events, 1, Revision) = events /\ legacyRevision = Revision /\ Revision \in Nat
    BY <1>1, <1>2, WholePrefix DEF Revision
<1>5. transition = {}
    BY DEF Init
<1>6. CASE history = <<>>
    <2>1. policy = Fifo /\ legacyRevision = 0 /\ Fifo # Legacy
        BY <1>1, <1>6 DEF Fifo, Legacy
    <2>2. Snapshot(policy, events, Revision).ok
        BY <1>1, <1>4, <1>6, ReplaysNothing DEF Snapshot
    <2>3. ReplayStateProves
        BY <1>4, <1>5, <2>1 DEF ReplayStateProves
    <2> QED BY <1>3, <1>4, <2>1, <2>2, <2>3 DEF StoredInv, LedgerInv, Init, ReviewInv, ReceiptInv, WalkTypeInv, NoWalk
<1>7. CASE history # <<>>
    <2>1. policy = Legacy /\ legacyRevision > 0 /\ Fifo # Legacy
        BY <1>1, <1>2, <1>7 DEF Fifo, Legacy
    <2>2. Snapshot(policy, events, Revision).ok
        BY <1>1, <1>4, <2>1 DEF Snapshot
    <2> QED BY <1>3, <1>4, <1>5, <2>1, <2>2 DEF StoredInv, LedgerInv, Init, ReviewInv, ReceiptInv, WalkTypeInv, NoWalk
<1> QED BY <1>6, <1>7

LEMMA PreviewKeeps ==
    ASSUME LedgerInv, NEW file \in File, Preview(file)
    PROVE  LedgerInv'
<1> DEFINE rows == ParseCSV(events, file)
           p == [file |-> file, rows |-> rows, revision |-> Revision,
                 canApply |-> \A i \in DOMAIN rows : rows[i].status \in {"new", "duplicate"}]
<1>1. UNCHANGED <<events, policy, legacyRevision, transition, receipts, walk>>
    BY DEF Preview, stored, reader
<1>2. events \in Seq(LedgerRow) /\ Revision \in Nat /\ SubSeq(events, 1, Revision) = events
    BY WholePrefix DEF LedgerInv, StoredInv, IsLedger, Revision
<1>3. file \in Seq(LedgerRow)
    BY LedgerAssumption
<1>4. rows \in Seq(ParsedRow)
    BY <1>3, ParsedAre
<1>5. previews' = Append(previews, p)
    BY DEF Preview
<1>6. p \in PreviewRecord
    BY <1>2, <1>4 DEF PreviewRecord
<1>7. p.revision = Revision /\ p.rows = ParseCSV(SubSeq(events, 1, p.revision), p.file)
    BY <1>2
<1> HIDE DEF p, rows
<1>8. previews \in Seq(PreviewRecord)
    BY DEF LedgerInv, ReviewInv
<1>9. /\ previews' \in Seq(PreviewRecord) /\ Len(previews') = Len(previews) + 1
      /\ \A i \in 1..Len(previews) : previews'[i] = previews[i]
      /\ previews'[Len(previews) + 1] = p
      /\ Len(previews) \in Nat
    BY <1>5, <1>6, <1>8, Appends
<1>10. \A i \in 1..Len(previews') : i \in 1..Len(previews) \/ i = Len(previews) + 1
    BY <1>9
<1>11. ReviewInv'
    BY <1>1, <1>2, <1>7, <1>9, <1>10 DEF LedgerInv, ReviewInv, Revision
<1>12. ReceiptInv'
    BY <1>1, <1>9 DEF LedgerInv, ReceiptInv, Revision
<1>13. StoredInv' /\ WalkTypeInv'
    BY <1>1 DEF LedgerInv, StoredInv, WalkTypeInv, Revision, ReplayStateProves, ReplayAt
<1> QED BY <1>11, <1>12, <1>13 DEF LedgerInv

\* The rows a preview adds, from the invariant.
LEMMA PreviewAdds ==
    ASSUME LedgerInv, NEW p \in 1..Len(previews)
    PROVE  /\ NewRows(previews[p]) \in Seq(LedgerRow)
           /\ \A i \in 1..Len(NewRows(previews[p])) : IsCanonical(NewRows(previews[p])[i])
           /\ Len(previews[p].rows) = Len(previews[p].file)
           /\ previews[p].file \in File
<1>1. previews[p] \in PreviewRecord
    BY DEF LedgerInv, ReviewInv
<1>2. previews[p].file \in Seq(LedgerRow) /\ previews[p].rows \in Seq(ParsedRow) /\ previews[p].file \in File
    BY <1>1, LedgerAssumption DEF PreviewRecord
<1>3. previews[p].rows = ParseCSV(SubSeq(events, 1, previews[p].revision), previews[p].file)
    BY DEF LedgerInv, ReviewInv
<1>4. Len(previews[p].rows) = Len(previews[p].file)
    BY <1>2, <1>3, ParsedAre
<1>5. \A i \in 1..Len(previews[p].rows) :
          previews[p].rows[i].status = "new" => IsCanonical(previews[p].rows[i].row)
    BY <1>2, <1>3, <1>4, ParsedAre
<1> QED BY <1>2, <1>4, <1>5, NewRowsAre

LEMMA ApplyKeeps ==
    ASSUME LedgerInv, NEW p \in DOMAIN previews, NEW key \in Key, Apply(p, key)
    PROVE  LedgerInv'
<1> DEFINE rows == NewRows(previews[p])
           receipt == [key |-> key, preview |-> p, before |-> Revision, after |-> Len(events')]
<1>1. UNCHANGED <<policy, legacyRevision, transition, previews, walk>>
    BY DEF Apply, reader
<1>2. /\ events \in Seq(LedgerRow) /\ previews \in Seq(PreviewRecord)
      /\ receipts \in Seq(ReceiptRecord) /\ Revision \in Nat
    BY DEF LedgerInv, StoredInv, ReviewInv, ReceiptInv, IsLedger, Revision
<1>3. p \in 1..Len(previews) /\ p \in Nat
    BY <1>2
<1>4. rows \in Seq(LedgerRow) /\ \A i \in 1..Len(rows) : IsCanonical(rows[i])
    BY <1>3, PreviewAdds
<1>5. /\ events' = events \o rows
      /\ policy = Fifo
      /\ previews[p].revision = Revision
      /\ CanInsertAll(events, rows)
      /\ Snapshot(policy, events', Len(events')).ok
      /\ receipts' = Append(receipts, receipt)
    BY DEF Apply
<1> HIDE DEF rows
<1>6. IsLedger(events')
    BY <1>4, <1>5, ImportKeepsLedger DEF LedgerInv, StoredInv
<1>7. Revision' \in Nat /\ Revision <= Revision' /\ Revision = Len(events) /\ Revision' = Len(events')
    BY <1>2, <1>4, <1>5, Extensions DEF Revision
<1>8. StoredInv'
    <2>1. policy' = Fifo /\ Fifo # Legacy /\ Snapshot(policy', events', Revision').ok
        BY <1>1, <1>5, <1>7 DEF Fifo, Legacy
    <2>2. legacyRevision \in 0..Revision /\ ReplayStateProves
        BY <1>5 DEF LedgerInv, StoredInv
    <2>3. ReplayAt(legacyRevision)' = ReplayAt(legacyRevision)
        <3>1. SubSeq(events', 1, legacyRevision) = SubSeq(events, 1, legacyRevision)
            BY <1>2, <1>4, <1>5, <1>7, <2>2, OldPrefix
        <3> QED BY <1>1, <3>1 DEF ReplayAt, Snapshot
    <2>4. ReplayStateProves'
        BY <1>1, <1>7, <2>1, <2>2, <2>3 DEF ReplayStateProves, BothReplay
    <2> QED BY <1>1, <1>6, <1>7, <2>1, <2>2, <2>4 DEF StoredInv
<1>9. ReviewInv'
    <2>1. ASSUME NEW i \in 1..Len(previews)
          PROVE  /\ previews[i].revision <= Revision'
                 /\ previews[i].rows = ParseCSV(SubSeq(events', 1, previews[i].revision), previews[i].file)
        <3>1. /\ previews[i].revision <= Revision
              /\ previews[i].rows = ParseCSV(SubSeq(events, 1, previews[i].revision), previews[i].file)
            BY DEF LedgerInv, ReviewInv
        <3>2. previews[i].revision \in 0..Len(events)
            <4>1. previews[i] \in PreviewRecord
                BY <1>2, DomainOfSequence
            <4>2. previews[i].revision \in Nat
                BY <4>1 DEF PreviewRecord
            <4> QED BY <1>2, <1>7, <3>1, <4>2
        <3>3. SubSeq(events', 1, previews[i].revision) = SubSeq(events, 1, previews[i].revision)
            BY <1>2, <1>4, <1>5, <3>2, OldPrefix
        <3>4. previews[i].revision <= Revision'
            BY <1>7, <3>2
        <3> QED BY <3>1, <3>3, <3>4
    <2> QED BY <1>1, <1>2, <2>1 DEF ReviewInv
<1>10. ReceiptInv'
    <2>1. receipt \in ReceiptRecord
        BY <1>3, <1>7 DEF ReceiptRecord
    <2>2. /\ receipt.preview = p /\ receipt.before = Revision /\ receipt.after = Revision'
        BY <1>7
    <2> HIDE DEF receipt
    <2>3. /\ receipts' \in Seq(ReceiptRecord) /\ Len(receipts') = Len(receipts) + 1
          /\ \A i \in 1..Len(receipts) : receipts'[i] = receipts[i] /\ receipts[i] \in ReceiptRecord
          /\ receipts'[Len(receipts) + 1] = receipt
          /\ Len(receipts) \in Nat
        BY <1>2, <1>5, <2>1, Appends
    <2>4. \A i \in 1..Len(receipts') : i \in 1..Len(receipts) \/ i = Len(receipts) + 1
        BY <2>3
    <2>5. ASSUME NEW i \in 1..Len(receipts)
          PROVE  SubSeq(events', receipts[i].before + 1, receipts[i].after)
                    = SubSeq(events, receipts[i].before + 1, receipts[i].after)
        <3>1. receipts[i].before \in Nat /\ receipts[i].after \in 0..Len(events)
            <4>1. receipts[i].before \in Nat /\ receipts[i].after \in Nat
                BY <2>3 DEF ReceiptRecord
            <4>2. receipts[i].after <= Revision
                BY DEF LedgerInv, ReceiptInv
            <4> QED BY <1>7, <4>1, <4>2
        <3> QED BY <1>2, <1>4, <1>5, <3>1, OldPart
    <2>6. SubSeq(events', Revision + 1, Revision') = rows
        BY <1>2, <1>4, <1>5, <1>7, AddedPart
    <2>7. ASSUME NEW i \in 1..Len(receipts')
          PROVE  /\ receipts'[i].preview \in 1..Len(previews)
                 /\ receipts'[i].before = previews[receipts'[i].preview].revision
                 /\ receipts'[i].before <= receipts'[i].after
                 /\ receipts'[i].after <= Revision'
                 /\ SubSeq(events', receipts'[i].before + 1, receipts'[i].after)
                       = NewRows(previews[receipts'[i].preview])
        <3>1. CASE i \in 1..Len(receipts)
            <4>1. /\ receipts[i].preview \in 1..Len(previews)
                  /\ receipts[i].before = previews[receipts[i].preview].revision
                  /\ receipts[i].before <= receipts[i].after
                  /\ receipts[i].after <= Revision
                  /\ SubSeq(events, receipts[i].before + 1, receipts[i].after)
                        = NewRows(previews[receipts[i].preview])
                BY <3>1 DEF LedgerInv, ReceiptInv
            <4>2. receipts[i].after \in Nat
                BY <2>3, <3>1 DEF ReceiptRecord
            <4>3. receipts'[i] = receipts[i] /\ receipts[i].after <= Revision'
                BY <1>2, <1>7, <2>3, <3>1, <4>1, <4>2
            <4>4. SubSeq(events', receipts[i].before + 1, receipts[i].after)
                     = NewRows(previews[receipts[i].preview])
                BY <2>5, <3>1, <4>1
            <4> QED BY <4>1, <4>3, <4>4
        <3>2. CASE i = Len(receipts) + 1
            <4>1. receipts'[i] = receipt
                BY <2>3, <3>2
            <4>2. receipt.preview = p /\ receipt.before = previews[p].revision
                  /\ receipt.before <= receipt.after /\ receipt.after <= Revision'
                BY <1>5, <1>7, <2>2
            <4>3. SubSeq(events', receipt.before + 1, receipt.after) = NewRows(previews[p])
                BY <2>2, <2>6 DEF rows
            <4> QED BY <1>3, <4>1, <4>2, <4>3
        <3> QED BY <2>4, <3>1, <3>2
    <2> QED BY <1>1, <2>3, <2>7 DEF ReceiptInv
<1>11. WalkTypeInv'
    BY <1>1, <1>7 DEF LedgerInv, WalkTypeInv
<1> QED BY <1>8, <1>9, <1>10, <1>11 DEF LedgerInv

LEMMA ActivateKeeps ==
    ASSUME LedgerInv, Activate
    PROVE  LedgerInv'
<1>1. UNCHANGED <<events, legacyRevision, previews, receipts, walk>>
    BY DEF Activate, imports, reader
<1>2. Fifo # Legacy /\ policy = Legacy /\ policy' = Fifo
    BY DEF Activate, Fifo, Legacy
<1>3. legacyRevision = Revision /\ legacyRevision > 0 /\ legacyRevision \in Nat
    BY <1>2 DEF LedgerInv, StoredInv
<1>4. BothReplay(ReplayAt(legacyRevision)) /\ transition' = {ReplayAt(legacyRevision)}
    BY DEF Activate
<1>5. ReplayAt(legacyRevision)' = ReplayAt(legacyRevision) /\ Revision' = Revision
    BY <1>1 DEF ReplayAt, Revision
<1>6. ReplayStateProves'
    BY <1>1, <1>2, <1>3, <1>4, <1>5 DEF ReplayStateProves, BothReplay
<1>7. Snapshot(policy', events', Revision').ok
    BY <1>1, <1>2, <1>3, <1>4, <1>5 DEF BothReplay, ReplayAt
<1>8. StoredInv'
    BY <1>1, <1>2, <1>5, <1>6, <1>7 DEF LedgerInv, StoredInv
<1>9. ReviewInv' /\ ReceiptInv' /\ WalkTypeInv'
    BY <1>1 DEF LedgerInv, ReviewInv, ReceiptInv, WalkTypeInv, Revision
<1> QED BY <1>8, <1>9 DEF LedgerInv

LEMMA WalkKeeps ==
    ASSUME LedgerInv, StartWalk \/ NextPage
    PROVE  LedgerInv'
<1>1. UNCHANGED <<events, policy, legacyRevision, transition, previews, receipts>>
    BY DEF StartWalk, NextPage, stored, imports
<1>2. Revision \in Nat
    BY DEF LedgerInv, StoredInv, IsLedger, Revision
<1>3. walk'.revision \in {Revision, walk.revision}
    BY DEF StartWalk, NextPage, Read
<1>4. WalkTypeInv'
    BY <1>1, <1>2, <1>3 DEF LedgerInv, WalkTypeInv, Revision
<1>5. StoredInv' /\ ReviewInv' /\ ReceiptInv'
    BY <1>1 DEF LedgerInv, StoredInv, ReviewInv, ReceiptInv, Revision, ReplayStateProves, ReplayAt
<1> QED BY <1>4, <1>5 DEF LedgerInv

LEMMA LedgerStep == LedgerInv /\ [Next]_vars => LedgerInv'
<1> SUFFICES ASSUME LedgerInv, [Next]_vars PROVE LedgerInv'
    OBVIOUS
<1>1. CASE \E file \in File : Preview(file)
    BY <1>1, PreviewKeeps
<1>2. CASE \E p \in DOMAIN previews, key \in Key : Apply(p, key)
    BY <1>2, ApplyKeeps
<1>3. CASE Activate
    BY <1>3, ActivateKeeps
<1>4. CASE StartWalk \/ NextPage
    BY <1>4, WalkKeeps
<1>5. CASE UNCHANGED vars
    BY <1>5 DEF vars, LedgerInv, StoredInv, ReviewInv, ReceiptInv, WalkTypeInv, Revision,
                ReplayStateProves, ReplayAt
<1> QED BY <1>1, <1>2, <1>3, <1>4, <1>5 DEF Next

\* What is stored can be replayed, what was reviewed was parsed against a prefix
\* that stays, and a receipt names what of its preview was added: in every state.
THEOREM LedgerInvariant == Spec => []LedgerInv
BY LedgerInit, LedgerStep, PTL DEF Spec

LEMMA ReadableFromInv == LedgerInv => LedgerStaysReadable
<1> SUFFICES ASSUME LedgerInv PROVE LedgerStaysReadable
    OBVIOUS
<1>1. EventsProve /\ LedgerReplays /\ UpgradeStaysProvable
    BY LedgerProves DEF LedgerInv, StoredInv, LedgerReplays, UpgradeStaysProvable
<1>2. Cardinality(transition) <= 1
    <2>1. transition = {} \/ \E x : transition = {x}
        BY DEF LedgerInv, StoredInv, ReplayStateProves
    <2>2. CASE transition = {}
        BY <2>2, FS_EmptySet
    <2>3. CASE \E x : transition = {x}
        <3>1. PICK x : transition = {x}
            BY <2>3
        <3>2. Cardinality({x}) = 1
            BY FS_Singleton
        <3> QED BY <3>1, <3>2
    <2> QED BY <2>1, <2>2, <2>3
<1>3. previews \in Seq(PreviewRecord) /\ receipts \in Seq(ReceiptRecord)
    BY DEF LedgerInv, ReviewInv, ReceiptInv
<1>4. DOMAIN previews = 1..Len(previews) /\ DOMAIN receipts = 1..Len(receipts)
    BY <1>3, DomainOfSequence
<1>5. ASSUME NEW i \in 1..Len(previews)
      PROVE  /\ previews[i].file \in File
             /\ previews[i].revision \in 0..Revision
             /\ Len(previews[i].rows) = Len(previews[i].file)
    <2>1. previews[i] \in PreviewRecord
        BY <1>3, DomainOfSequence
    <2>2. previews[i].revision \in Nat /\ previews[i].revision <= Revision /\ Revision \in Nat
        BY <2>1 DEF LedgerInv, ReviewInv, PreviewRecord, StoredInv, IsLedger, Revision
    <2> QED BY <2>2, PreviewAdds
<1>6. ASSUME NEW i \in 1..Len(receipts)
      PROVE  receipts[i].preview \in 1..Len(previews) /\ receipts[i].before <= receipts[i].after
    BY DEF LedgerInv, ReceiptInv
<1>7. walk.revision <= Revision
    BY DEF LedgerInv, WalkTypeInv
<1>8. policy \in {Fifo, Legacy} /\ legacyRevision \in 0..Revision
    BY DEF LedgerInv, StoredInv
<1>9. LedgerTypeOK
    BY <1>2, <1>4, <1>5, <1>6, <1>7, <1>8 DEF LedgerTypeOK
<1> QED BY <1>1, <1>9 DEF LedgerStaysReadable

\* The ledger can be read for good: whatever is imported later, at whatever
\* dates, it replays under its policy, every event still proves, and so does the
\* upgrade it came from (core.go snapshotFrom, ledger_replay_policy.go
\* proveLedgerReplayState).
THEOREM LedgerReadable == Spec => []LedgerStaysReadable
BY LedgerInvariant, ReadableFromInv, PTL

LEMMA ReviewedFromInv == LedgerInv => AppliedAsReviewed
<1> SUFFICES ASSUME LedgerInv PROVE AppliedAsReviewed
    OBVIOUS
<1>1. receipts \in Seq(ReceiptRecord)
    BY DEF LedgerInv, ReceiptInv
<1>2. DOMAIN receipts = 1..Len(receipts)
    BY <1>1, DomainOfSequence
<1>3. ASSUME NEW i \in 1..Len(receipts)
      PROVE  /\ receipts[i].before = previews[receipts[i].preview].revision
             /\ previews[receipts[i].preview].rows
                   = ParseCSV(SubSeq(events, 1, receipts[i].before), previews[receipts[i].preview].file)
             /\ SubSeq(events, receipts[i].before + 1, receipts[i].after)
                   = NewRows(previews[receipts[i].preview])
    BY DEF LedgerInv, ReviewInv, ReceiptInv
<1> QED BY <1>2, <1>3 DEF AppliedAsReviewed

\* What a receipt applied is what its preview showed against the very revision
\* it was applied to (core.go apply).
THEOREM ReviewedIsApplied == Spec => []AppliedAsReviewed
BY LedgerInvariant, ReviewedFromInv, PTL

-----------------------------------------------------------------------------
(* The walk.  What it has seen is the first part of the activities of its    *)
(* revision, and what comes after the last one seen is the other part.       *)

LEMMA Reversed ==
    ASSUME NEW S, NEW s \in Seq(S)
    PROVE  /\ Reverse(s) \in Seq(S) /\ Len(Reverse(s)) = Len(s)
           /\ \A i \in 1..Len(s) : Reverse(s)[i] = s[Len(s) - i + 1]
<1>1. \A i \in 1..Len(s) : Len(s) - i + 1 \in 1..Len(s)
    OBVIOUS
<1>2. Reverse(s) = [i \in 1..Len(s) |-> s[(Len(s) - i) + 1]]
    BY DEF Reverse
<1>3. Reverse(s) \in [1..Len(s) -> S] /\ Len(s) \in Nat
    BY <1>1, <1>2
<1> QED BY <1>2, <1>3

\* Those before a position of an order are ordered as they are in it.
LEMMA OrderBefore ==
    ASSUME NEW S, NEW key, Keyed(S, key), NEW k \in 1..Cardinality(S),
           NEW T \in SUBSET S, \A i \in S : i \in T <=> Precedes(key, i, InOrder(S, key)[k]),
           NEW other, \A i \in T : other[i] = key[i]
    PROVE  /\ InOrder(T, other) = [j \in 1..(k - 1) |-> InOrder(S, key)[j]]
           /\ Cardinality(T) = k - 1
<1> DEFINE o == InOrder(S, key)
           n == Cardinality(S)
           first == [j \in 1..(k - 1) |-> o[j]]
<1>1. /\ n \in Nat /\ o \in [1..n -> S]
      /\ \A i \in S : \E j \in 1..n : o[j] = i
      /\ \A j, l \in 1..n : j < l => Precedes(key, o[j], o[l])
    BY InOrderOrdered DEF Ordered
<1>2. T \subseteq S /\ \A i \in T : Precedes(key, i, o[k])
    OBVIOUS
<1>3. \A i \in S : Precedes(key, i, o[k]) => i \in T
    OBVIOUS
<1> HIDE DEF o, n
<1>4. \A i \in S : i \in Nat /\ key[i] \in Int
    BY DEF Keyed
<1>5. \A j \in 1..n : o[j] \in S
    BY <1>1
<1>6. k \in 1..n
    BY DEF n
<1>7. ASSUME NEW j \in 1..n PROVE o[j] \in T <=> j < k
    <2>1. j < k => o[j] \in T
        BY <1>1, <1>3, <1>5, <1>6
    <2>2. ASSUME k <= j PROVE o[j] \notin T
        <3>1. o[j] = o[k] \/ Precedes(key, o[k], o[j])
            BY <1>1, <1>6, <2>2
        <3>2. ~Precedes(key, o[j], o[k])
            BY <1>4, <1>5, <1>6, <3>1 DEF Precedes
        <3> QED BY <1>2, <3>2
    <2> QED BY <1>6, <2>1, <2>2
<1>8. Keyed(T, other)
    BY <1>2, FS_Subset DEF Keyed
<1>9. Ordered(T, other, k - 1, first)
    <2>1. \A j \in 1..(k - 1) : j \in 1..n /\ j < k
        BY <1>1, <1>6
    <2>2. \A j \in 1..(k - 1) : first[j] = o[j] /\ o[j] \in T
        BY <1>7, <2>1
    <2>3. first \in [1..(k - 1) -> T]
        BY <2>2
    <2>4. ASSUME NEW i \in T PROVE \E j \in 1..(k - 1) : first[j] = i
        <3>1. PICK j \in 1..n : o[j] = i
            BY <1>1, <1>2
        <3>2. j \in 1..(k - 1)
            BY <1>1, <1>6, <1>7, <3>1
        <3> QED BY <2>2, <3>1, <3>2
    <2>5. ASSUME NEW j \in 1..(k - 1), NEW l \in 1..(k - 1), j < l
          PROVE  Precedes(other, first[j], first[l])
        <3>1. Precedes(key, o[j], o[l])
            BY <1>1, <2>1, <2>5
        <3> HIDE DEF first
        <3> QED BY <2>2, <3>1 DEF Precedes
    <2> HIDE DEF first
    <2> QED BY <2>3, <2>4, <2>5 DEF Ordered
<1>10. k - 1 \in Nat
    BY <1>1, <1>6
<1> HIDE DEF first
<1>11. k - 1 = Cardinality(T) /\ first = InOrder(T, other)
    BY <1>8, <1>9, <1>10, OneOrder
<1> QED BY <1>11 DEF first, o

\* The activities of a revision, and those after the n-th of them.
LEMMA ActivitiesAre ==
    ASSUME events \in Seq(LedgerRow), NEW rev \in 0..Len(events)
    PROVE  /\ Activities(rev) \in Seq(Nat) /\ Len(Activities(rev)) = rev
           /\ \A n \in 1..rev : \A seen :
                 Last(seen) = Activities(rev)[n] =>
                    After(rev, seen) = SubSeq(Activities(rev), n + 1, rev)
<1> DEFINE S == 1..rev
           key == [i \in S |-> events[i].at]
           o == InOrder(S, key)
           all == Activities(rev)
<1>1. IsFiniteSet(S) /\ Cardinality(S) = rev /\ rev \in Nat
    BY FS_Interval
<1>2. \A i \in S : events[i].at \in Nat
    <2>1. \A i \in S : events[i] \in LedgerRow
        OBVIOUS
    <2> QED BY <2>1 DEF LedgerRow
<1>3. Keyed(S, key)
    BY <1>1, <1>2 DEF Keyed
<1>4. all = Reverse(o)
    BY DEF Activities, NewestFirst
<1> HIDE DEF key
<1>5. o \in [1..rev -> S] /\ \A i \in S : key[i] = events[i].at
    BY <1>1, <1>3, InOrderOrdered DEF Ordered, key
<1> HIDE DEF o
<1>6. all \in Seq(S) /\ Len(all) = rev /\ \A i \in 1..rev : all[i] = o[rev - i + 1]
    <2>1. rev \in Nat /\ o \in [1..rev -> S]
        BY <1>1, <1>5
    <2> HIDE DEF S
    <2>2. o \in Seq(S) /\ Len(o) = rev
        BY <2>1
    <2> QED BY <1>4, <2>2, Reversed
<1> HIDE DEF all
<1>7. all \in Seq(Nat)
    BY <1>6
<1>8. ASSUME NEW n \in 1..rev, NEW seen, Last(seen) = all[n]
      PROVE  After(rev, seen) = SubSeq(all, n + 1, rev)
    <2> DEFINE k == rev - n + 1
               cursor == Last(seen)
               T == {i \in 1..rev : \/ events[i].at < events[cursor].at
                                    \/ events[i].at = events[cursor].at /\ i < cursor}
               other == [i \in T |-> events[i].at]
               rest == InOrder(T, other)
    <2>1. k \in 1..rev /\ cursor = o[k] /\ cursor \in S
        BY <1>1, <1>5, <1>6, <1>8
    <2>2. After(rev, seen) = Reverse(rest)
        BY DEF After, NewestFirst
    <2>3. T = {i \in S : Precedes(key, i, o[k])}
        <3>1. ASSUME NEW i \in S
              PROVE  Precedes(key, i, o[k]) <=> (\/ events[i].at < events[cursor].at
                                                 \/ events[i].at = events[cursor].at /\ i < cursor)
            <4> HIDE DEF cursor
            <4> QED BY <1>5, <2>1 DEF Precedes
        <3> HIDE DEF cursor, k
        <3> QED BY <3>1
    <2>4. \A i \in T : i \in S /\ other[i] = key[i]
        BY <1>5
    <2> HIDE DEF T, other
    <2>5. rest = [j \in 1..(k - 1) |-> o[j]]
        <3>1. k \in 1..Cardinality(S)
            BY <1>1, <2>1
        <3>2. InOrder(T, other) = [j \in 1..(k - 1) |-> InOrder(S, key)[j]]
            <4> HIDE DEF S, k
            <4>1. T \in SUBSET S /\ \A i \in S : i \in T <=> Precedes(key, i, InOrder(S, key)[k])
                BY <2>3 DEF o
            <4> QED BY <1>3, <2>4, <3>1, <4>1, OrderBefore
        <3> QED BY <3>2 DEF o, rest
    <2> HIDE DEF rest
    <2>6. rest \in [1..(k - 1) -> S] /\ k - 1 \in Nat /\ k - 1 = rev - n
        BY <1>1, <1>5, <2>1, <2>5
    <2>7. /\ Reverse(rest) \in Seq(S) /\ Len(Reverse(rest)) = rev - n
          /\ \A i \in 1..(rev - n) : Reverse(rest)[i] = rest[(rev - n) - i + 1]
        <3> DEFINE l == rev - n
        <3>1. l \in Nat /\ rest \in [1..l -> S]
            BY <2>6
        <3> HIDE DEF l, S
        <3>2. rest \in Seq(S) /\ Len(rest) = l
            BY <3>1
        <3>3. /\ Reverse(rest) \in Seq(S) /\ Len(Reverse(rest)) = l
              /\ \A i \in 1..l : Reverse(rest)[i] = rest[l - i + 1]
            BY <3>2, Reversed
        <3> QED BY <3>3 DEF l
    <2>8. SubSeq(all, n + 1, rev) \in Seq(S) /\ Len(SubSeq(all, n + 1, rev)) = rev - n
        <3> HIDE DEF S
        <3> QED BY <1>1, <1>6
    <2>9. ASSUME NEW i \in 1..(rev - n) PROVE Reverse(rest)[i] = SubSeq(all, n + 1, rev)[i]
        <3>1. SubSeq(all, n + 1, rev)[i] = all[n + i] /\ n + i \in 1..rev
            BY <1>1, <1>6
        <3>2. all[n + i] = o[rev - (n + i) + 1]
            BY <1>6, <3>1
        <3>3. (rev - n) - i + 1 \in 1..(k - 1) /\ rev - (n + i) + 1 = (rev - n) - i + 1
            BY <1>1, <2>6
        <3>4. Reverse(rest)[i] = o[(rev - n) - i + 1]
            BY <2>5, <2>7, <3>3
        <3> QED BY <3>1, <3>2, <3>3, <3>4
    <2> QED BY <2>2, <2>7, <2>8, <2>9, SameSequence
<1> QED BY <1>6, <1>7, <1>8 DEF all

\* They are not changed by what is stored later.
LEMMA ActivitiesStay ==
    ASSUME events \in Seq(LedgerRow), NEW rows \in Seq(LedgerRow), events' = events \o rows,
           NEW rev \in 0..Len(events)
    PROVE  Activities(rev)' = Activities(rev)
<1>1. \A i \in 1..rev : i \in 1..Len(events)
    OBVIOUS
<1>2. \A i \in 1..rev : events'[i] = events[i]
    BY <1>1, Extensions
<1>3. [i \in 1..rev |-> events'[i].at] = [i \in 1..rev |-> events[i].at]
    BY <1>2
<1> QED BY <1>3 DEF Activities, NewestFirst

\* The first n of a sequence and the next m of it.
LEMMA Grown ==
    ASSUME NEW S, NEW s \in Seq(S), NEW n \in 0..Len(s), NEW m \in 0..(Len(s) - n)
    PROVE  SubSeq(s, 1, n) \o SubSeq(SubSeq(s, n + 1, Len(s)), 1, m) = SubSeq(s, 1, n + m)
<1> DEFINE a == SubSeq(s, 1, n)
           r == SubSeq(s, n + 1, Len(s))
           b == SubSeq(r, 1, m)
           c == SubSeq(s, 1, n + m)
<1>1. Len(s) \in Nat /\ n + m \in 0..Len(s)
    OBVIOUS
<1>2. a \in Seq(S) /\ Len(a) = n /\ (\A i \in 1..n : a[i] = s[i])
    BY FirstPart
<1>3. r \in Seq(S) /\ Len(r) = Len(s) - n /\ (\A i \in 1..(Len(s) - n) : r[i] = s[n + i])
    OBVIOUS
<1>4. c \in Seq(S) /\ Len(c) = n + m /\ (\A i \in 1..(n + m) : c[i] = s[i])
    BY <1>1, FirstPart
<1> HIDE DEF r
<1>5. b \in Seq(S) /\ Len(b) = m /\ (\A i \in 1..m : b[i] = r[i])
    BY <1>3, FirstPart
<1> HIDE DEF a, b, c
<1>6. a \o b \in Seq(S) /\ Len(a \o b) = n + m
    BY <1>2, <1>5, Extensions
<1>7. ASSUME NEW i \in 1..(n + m) PROVE (a \o b)[i] = c[i]
    <2>1. CASE i \in 1..n
        <3>1. i \in 1..Len(a) /\ i \in 1..(n + m)
            BY <1>2, <2>1
        <3>2. (a \o b)[i] = a[i]
            BY <1>2, <1>5, <3>1, Extensions
        <3> QED BY <1>2, <1>4, <2>1, <3>1, <3>2
    <2>2. CASE i \notin 1..n
        <3>1. i - n \in 1..m /\ i = n + (i - n) /\ i - n \in 1..(Len(s) - n)
            BY <1>1, <2>2
        <3>2. (a \o b)[n + (i - n)] = b[i - n]
            BY <1>2, <1>5, <3>1, Extensions
        <3>3. b[i - n] = s[n + (i - n)]
            BY <1>3, <1>5, <3>1
        <3> QED BY <1>4, <3>1, <3>2, <3>3
    <2> QED BY <2>1, <2>2
<1>8. a \o b = c
    BY <1>4, <1>6, <1>7, SameSequence
<1> QED BY <1>8 DEF a, b, c, r

\* seen are the first activities of a revision, and more says whether there are
\* others.
Shown(seen, rev, more) ==
    \E n \in 0..rev : /\ seen = SubSeq(Activities(rev), 1, n)
                      /\ more <=> n < rev
                      /\ more => n > 0

\* A page shows the next ones.
LEMMA ReadShows ==
    ASSUME events \in Seq(LedgerRow), NEW rev \in 0..Len(events), NEW n \in 0..rev,
           NEW seen, seen = SubSeq(Activities(rev), 1, n), n = 0 <=> seen = <<>>
    PROVE  Shown(Read(rev, seen).seen, rev, Read(rev, seen).more)
<1> DEFINE all == Activities(rev)
           page == Page(rev, seen)
           m == Smaller(PageLimit, Len(page))
<1>1. all \in Seq(Nat) /\ Len(all) = rev /\ rev \in Nat
    BY ActivitiesAre
<1>2. page = SubSeq(all, n + 1, rev)
    <2>1. CASE n = 0
        <3>1. SubSeq(all, 1, Len(all)) = all
            BY <1>1, WholePrefix
        <3> QED BY <1>1, <2>1, <3>1 DEF Page
    <2>2. CASE n # 0
        <3>1. n \in 1..rev /\ seen # <<>>
            BY <1>1, <2>2
        <3>2. Len(seen) = n /\ seen[n] = all[n]
            BY <1>1, <3>1, FirstPart
        <3>3. Last(seen) = all[n]
            BY <3>2 DEF Last
        <3>4. After(rev, seen) = SubSeq(all, n + 1, rev)
            BY <3>1, <3>3, ActivitiesAre
        <3> QED BY <3>1, <3>4 DEF Page
    <2> QED BY <2>1, <2>2
<1>3. Len(page) = rev - n
    BY <1>1, <1>2
<1>4. PageLimit \in Nat /\ PageLimit > 0
    BY LedgerAssumption
<1>5. m \in 0..(rev - n) /\ (Len(page) > PageLimit <=> n + m < rev) /\ (n + m < rev => n + m > 0)
    BY <1>1, <1>3, <1>4 DEF Smaller
<1>6. Read(rev, seen) = [revision |-> rev, seen |-> seen \o SubSeq(page, 1, m), more |-> Len(page) > PageLimit]
    BY DEF Read
<1> HIDE DEF m, page
<1>7. SubSeq(all, 1, n) \o SubSeq(SubSeq(all, n + 1, Len(all)), 1, m) = SubSeq(all, 1, n + m)
    <2> HIDE DEF all
    <2> QED BY <1>1, <1>5, Grown
<1>8. seen \o SubSeq(page, 1, m) = SubSeq(all, 1, n + m) /\ n + m \in 0..rev
    <2>1. seen = SubSeq(all, 1, n) /\ n + m \in 0..rev
        BY <1>1, <1>5
    <2> HIDE DEF all
    <2> QED BY <1>1, <1>2, <1>7, <2>1
<1>9. /\ Read(rev, seen).seen = SubSeq(all, 1, n + m)
      /\ Read(rev, seen).more <=> n + m < rev
    <2>1. (Len(page) > PageLimit) <=> n + m < rev
        BY <1>5
    <2> DEFINE shown == seen \o SubSeq(page, 1, m)
               long == Len(page) > PageLimit
    <2>2. Read(rev, seen) = [revision |-> rev, seen |-> shown, more |-> long]
        BY <1>6
    <2>3. shown = SubSeq(all, 1, n + m) /\ (long <=> n + m < rev)
        BY <1>8, <2>1
    <2> HIDE DEF shown, long, all
    <2>4. Read(rev, seen).seen = shown
        BY <2>2
    <2>5. Read(rev, seen).more = long
        BY <2>2
    <2> QED BY <2>3, <2>4, <2>5, Zenon
<1> QED BY <1>5, <1>8, <1>9 DEF Shown

WalkInv ==
    /\ walks \in Nat
    /\ walk.more => walks > 0
    /\ walks > 0 => Shown(walk.seen, walk.revision, walk.more)

LEMMA WalkInit == Init => WalkInv
BY DEF Init, WalkInv, NoWalk

LEMMA WalkStep == LedgerInv /\ WalkInv /\ [Next]_vars => WalkInv'
<1> SUFFICES ASSUME LedgerInv, WalkInv, [Next]_vars PROVE WalkInv'
    OBVIOUS
<1>1. events \in Seq(LedgerRow) /\ walk.revision \in 0..Len(events) /\ Revision = Len(events)
      /\ Len(events) \in Nat
    BY DEF LedgerInv, StoredInv, IsLedger, WalkTypeInv, Revision
<1>2. CASE UNCHANGED <<events, walk, walks>>
    BY <1>2 DEF WalkInv, Shown, Activities, NewestFirst
<1>3. ASSUME NEW p \in DOMAIN previews, NEW key \in Key, Apply(p, key) PROVE WalkInv'
    <2>1. events' = events \o NewRows(previews[p]) /\ UNCHANGED <<walk, walks>>
        BY <1>3 DEF Apply, reader
    <2>2. p \in 1..Len(previews)
        BY DomainOfSequence DEF LedgerInv, ReviewInv
    <2>3. NewRows(previews[p]) \in Seq(LedgerRow)
        BY <2>2, PreviewAdds
    <2>4. Activities(walk.revision)' = Activities(walk'.revision)
        BY <1>1, <2>1, <2>3, ActivitiesStay
    <2> QED BY <1>1, <2>1, <2>3, <2>4, ActivitiesStay DEF WalkInv, Shown
<1>4. CASE StartWalk
    <2>1. walk' = Read(Revision, <<>>) /\ walks' = walks + 1 /\ UNCHANGED events
        BY <1>4 DEF StartWalk, stored
    <2>2. 0 \in 0..Revision /\ Revision \in 0..Len(events) /\ <<>> = SubSeq(Activities(Revision), 1, 0)
        BY <1>1
    <2>3. Shown(Read(Revision, <<>>).seen, Revision, Read(Revision, <<>>).more)
        BY <1>1, <2>2, ReadShows
    <2>4. walk'.revision = Revision
        BY <2>1 DEF Read
    <2> QED BY <2>1, <2>3, <2>4 DEF WalkInv, Shown, Activities, NewestFirst
<1>5. CASE NextPage
    <2>1. walk.more /\ walk' = Read(walk.revision, walk.seen) /\ walks' = walks /\ UNCHANGED events
        BY <1>5 DEF NextPage, stored
    <2>2. walks > 0
        BY <2>1 DEF WalkInv
    <2>3. PICK n \in 0..walk.revision : walk.seen = SubSeq(Activities(walk.revision), 1, n) /\ n > 0
        BY <2>1, <2>2 DEF WalkInv, Shown
    <2>4. walk.seen # <<>>
        <3>1. Activities(walk.revision) \in Seq(Nat) /\ n \in 0..Len(Activities(walk.revision))
            BY <1>1, <2>3, ActivitiesAre
        <3>2. Len(walk.seen) = n
            BY <2>3, <3>1, FirstPart
        <3>3. n # 0
            BY <2>3
        <3> QED BY <3>2, <3>3
    <2>5. Shown(Read(walk.revision, walk.seen).seen, walk.revision, Read(walk.revision, walk.seen).more)
        <3>1. n # 0
            BY <2>3
        <3> QED BY <1>1, <2>3, <2>4, <3>1, ReadShows
    <2>6. walk'.revision = walk.revision
        BY <2>1 DEF Read
    <2> QED BY <2>1, <2>2, <2>5, <2>6 DEF WalkInv, Shown, Activities, NewestFirst
<1>6. UNCHANGED <<events, walk, walks>> \/ (\E p \in DOMAIN previews, key \in Key : Apply(p, key))
      \/ StartWalk \/ NextPage
    BY DEF Next, vars, Preview, Activate, stored, reader
<1> QED BY <1>2, <1>3, <1>4, <1>5, <1>6

LEMMA CompleteFromInv == LedgerInv /\ WalkInv => WalkIsComplete
<1> SUFFICES ASSUME LedgerInv, WalkInv, walks > 0, ~walk.more
             PROVE  walk.seen = Activities(walk.revision)
    BY DEF WalkIsComplete
<1>1. events \in Seq(LedgerRow) /\ walk.revision \in 0..Len(events)
    BY DEF LedgerInv, StoredInv, IsLedger, WalkTypeInv, Revision
<1>2. PICK n \in 0..walk.revision : walk.seen = SubSeq(Activities(walk.revision), 1, n) /\ ~(n < walk.revision)
    BY DEF WalkInv, Shown
<1>3. n = walk.revision
    BY <1>1, <1>2
<1> QED BY <1>1, <1>2, <1>3, ActivitiesAre, WholePrefix

\* A finished walk has shown every activity of the revision it began at, newest
\* first and once, whatever was imported between its pages (ledger_activity.go
\* ledgerActivities).
THEOREM WalkShowsAll == Spec => []WalkIsComplete
<1>1. Spec => []WalkInv
    BY LedgerInvariant, WalkInit, WalkStep, PTL DEF Spec
<1> QED BY <1>1, LedgerInvariant, CompleteFromInv, PTL

-----------------------------------------------------------------------------
(* Costs: what is allocated of a cost is a part of it.                       *)

LEMMA Products ==
    ASSUME NEW a \in Nat, NEW b \in Nat, NEW k \in Nat, a <= b
    PROVE  /\ a * k \in Nat /\ b * k \in Nat /\ a * k <= b * k
           /\ a < b /\ k > 0 => a * k + k <= b * k
<1>1. b - a \in Nat /\ b = a + (b - a)
    OBVIOUS
<1>2. PICK d \in Nat : b = a + d /\ (a < b => d >= 1)
    BY <1>1
<1>3. b * k = a * k + d * k /\ a * k \in Nat /\ d * k \in Nat
    BY <1>2
<1>4. d >= 1 => d * k >= k
    <2>1. SUFFICES ASSUME d >= 1 PROVE d * k >= k
        OBVIOUS
    <2>2. PICK e \in Nat : d = e + 1
        <3>1. d - 1 \in Nat /\ d = (d - 1) + 1
            BY <2>1
        <3> QED BY <3>1
    <2>3. d * k = e * k + k /\ e * k \in Nat
        BY <2>2
    <2> QED BY <2>3
<1> QED BY <1>2, <1>3, <1>4

LEMMA Division ==
    ASSUME NEW n \in Nat, NEW d \in Nat \ {0}
    PROVE  /\ n \div d \in Nat /\ n % d \in Nat /\ n % d < d
           /\ n = (n \div d) * d + (n % d)
OBVIOUS

\* What is at most c times d is so divided.
LEMMA DivisionBelow ==
    ASSUME NEW n \in Nat, NEW d \in Nat \ {0}, NEW c \in Nat, n <= c * d
    PROVE  /\ n \div d \in 0..c
           /\ n % d > 0 => n \div d < c
<1> DEFINE q == n \div d
           r == n % d
<1>1. q \in Nat /\ r \in Nat /\ n = q * d + r
    BY Division
<1> HIDE DEF q, r
<1>2. ~(c < q)
    <2>1. SUFFICES ASSUME c < q PROVE FALSE
        OBVIOUS
    <2>2. c * d + d <= q * d /\ c * d \in Nat /\ q * d \in Nat
        BY <1>1, <2>1, Products
    <2> QED BY <1>1, <2>2
<1>3. r > 0 => q # c
    <2>1. SUFFICES ASSUME r > 0, q = c PROVE FALSE
        OBVIOUS
    <2>2. c * d \in Nat
        OBVIOUS
    <2> QED BY <1>1, <2>1, <2>2
<1>4. q \in 0..c /\ (r > 0 => q < c)
    BY <1>1, <1>2, <1>3
<1> QED BY <1>4 DEF q, r

LEMMA RoundingUnits ==
    ASSUME NEW cost \in Nat
    PROVE  \E c \in Nat : /\ RoundingUnit(cost) \in Nat \ {0}
                          /\ cost = RoundingUnit(cost) * c
<1>1. CASE cost % 100 = 0
    <2>1. cost = 100 * (cost \div 100) /\ cost \div 100 \in Nat
        BY <1>1
    <2>2. RoundingUnit(cost) = 100
        BY <1>1 DEF RoundingUnit, Quantum
    <2> QED BY <2>1, <2>2
<1>2. CASE cost % 100 # 0 /\ cost % 10 = 0
    <2>1. cost = 10 * (cost \div 10) /\ cost \div 10 \in Nat
        BY <1>2
    <2>2. RoundingUnit(cost) = 10
        BY <1>2 DEF RoundingUnit, Quantum
    <2> QED BY <2>1, <2>2
<1>3. CASE cost % 100 # 0 /\ cost % 10 # 0
    <2>1. RoundingUnit(cost) = 1
        BY <1>3 DEF RoundingUnit, Quantum
    <2> QED BY <2>1
<1> QED BY <1>1, <1>2, <1>3

\* What a sale takes of a lot's cost is between nothing and all of it.
LEMMA AllocationBounded ==
    ASSUME NEW cost \in Nat, NEW quantity \in Nat \ {0}, NEW take \in 0..quantity
    PROVE  /\ FIFOAllocation(cost, take, quantity) \in 0..cost
           /\ take = 0 => FIFOAllocation(cost, take, quantity) = 0
<1>1. CASE take = quantity
    BY <1>1 DEF FIFOAllocation
<1>2. take \in Nat /\ cost * take \in Nat /\ cost * take <= cost * quantity /\ cost * quantity \in Nat
    <2>1. take \in Nat /\ take <= quantity /\ quantity \in Nat
        OBVIOUS
    <2>2. take * cost \in Nat /\ quantity * cost \in Nat /\ take * cost <= quantity * cost
        BY <2>1, Products
    <2>3. take * cost = cost * take /\ quantity * cost = cost * quantity
        BY <2>1
    <2> QED BY <2>1, <2>2, <2>3
<1>3. CASE take # quantity /\ IsFinite(cost * take, quantity)
    <2>1. FIFOAllocation(cost, take, quantity) = (cost * take) \div quantity
        BY <1>3 DEF FIFOAllocation
    <2>2. (cost * take) \div quantity \in 0..cost
        BY <1>2, DivisionBelow
    <2>3. take = 0 => (cost * take) \div quantity = 0
        <3>1. cost * 0 = 0 /\ 0 \div quantity = 0
            OBVIOUS
        <3> QED BY <3>1
    <2> QED BY <2>1, <2>2, <2>3
<1>4. CASE take # quantity /\ ~IsFinite(cost * take, quantity)
    <2> DEFINE unit == RoundingUnit(cost)
               d == quantity * unit
               n == cost * take
    <2>1. PICK c \in Nat : unit \in Nat \ {0} /\ cost = unit * c
        BY RoundingUnits
    <2>2. FIFOAllocation(cost, take, quantity)
             = unit * (IF 2 * (n % d) > d \/ (2 * (n % d) = d /\ (n \div d) % 2 = 1)
                       THEN n \div d + 1 ELSE n \div d)
        BY <1>4 DEF FIFOAllocation, HalfEven
    <2>3. take # 0
        <3>1. SUFFICES ASSUME take = 0 PROVE IsFinite(cost * take, quantity)
            BY <1>4
        <3>2. cost * take = 0
            BY <3>1
        <3>3. (0 * 1) % quantity = 0
            <4>1. 0 * 1 = 0 /\ 0 % quantity = 0
                OBVIOUS
            <4> QED BY <4>1
        <3> QED BY <3>2, <3>3 DEF IsFinite
    <2> HIDE DEF unit
    <2>4. d \in Nat \ {0} /\ n \in Nat /\ n <= c * d
        <3>1. d \in Nat \ {0}
            BY <2>1
        <3>2. cost * quantity = c * d
            <4>1. (unit * c) * quantity = c * (quantity * unit)
                BY <2>1
            <4> QED BY <2>1, <4>1
        <3> QED BY <1>2, <3>1, <3>2
    <2> HIDE DEF d, n
    <2>5. n \div d \in 0..c /\ (n % d > 0 => n \div d < c) /\ n % d \in Nat
        BY <2>4, Division, DivisionBelow
    <2> DEFINE rounded == IF 2 * (n % d) > d \/ (2 * (n % d) = d /\ (n \div d) % 2 = 1)
                          THEN n \div d + 1 ELSE n \div d
    <2>6. rounded \in 0..c
        BY <2>4, <2>5
    <2>7. FIFOAllocation(cost, take, quantity) = unit * rounded
        BY <2>2
    <2> HIDE DEF rounded
    <2>8. unit * rounded \in 0..(unit * c)
        <3>1. rounded \in Nat /\ rounded <= c /\ unit \in Nat
            BY <2>1, <2>6
        <3>2. rounded * unit \in Nat /\ rounded * unit <= c * unit /\ c * unit \in Nat
            BY <3>1, Products
        <3>3. rounded * unit = unit * rounded /\ c * unit = unit * c
            BY <3>1
        <3> QED BY <3>2, <3>3
    <2> QED BY <2>1, <2>3, <2>7, <2>8
<1> QED BY <1>1, <1>2, <1>3, <1>4

-----------------------------------------------------------------------------
(* Totals.  A total is a function over the subsets of its positions, and two *)
(* functions with the recursion of a total agree.                            *)

\* What holds of the empty set and survives one more element holds of a finite
\* set; C is the collection of subsets it holds of.
LEMMA FiniteInduction ==
    ASSUME NEW S, IsFiniteSet(S), NEW C, {} \in C,
           \A T \in C : \A x \in S \ T : T \subseteq S => T \cup {x} \in C
    PROVE  S \in C
<1> DEFINE D == {T \in C : T \subseteq S}
           Rests == {Cardinality(S \ T) : T \in D}
<1>1. \A T : IsFiniteSet(S \ T) /\ Cardinality(S \ T) \in Nat
    BY FS_Subset, FS_CardinalityType
<1>2. Rests \subseteq Nat /\ Rests # {}
    <2>1. {} \in D
        OBVIOUS
    <2> QED BY <1>1, <2>1
<1>3. PICK least \in Rests : \A m \in Rests : least <= m
    <2> HIDE DEF Rests
    <2> QED BY <1>2, LeastNumber
<1>4. PICK T \in D : least = Cardinality(S \ T)
    BY <1>3
<1>5. T \in C /\ T \subseteq S
    BY <1>4
<1>6. SUFFICES ASSUME S \ T # {} PROVE FALSE
    <2>1. S \ T = {} => S = T
        BY <1>5
    <2> QED BY <1>5, <2>1
<1>7. PICK x : x \in S \ T
    BY <1>6
<1> DEFINE rest == S \ T
           less == S \ (T \cup {x})
<1>8. Cardinality(less) \in Rests
    BY <1>5, <1>7
<1>9. less = rest \ {x} /\ x \in rest
    BY <1>7
<1>10. IsFiniteSet(rest) /\ Cardinality(rest) \in Nat /\ least = Cardinality(rest)
    BY <1>1, <1>4
<1> HIDE DEF rest, less, Rests, D
<1>11. Cardinality(less) = Cardinality(rest) - 1
    BY <1>9, <1>10, FS_RemoveElement
<1>12. least <= Cardinality(less)
    BY <1>3, <1>8
<1> QED BY <1>10, <1>11, <1>12

\* sum adds up the amounts over the subsets of S, in any order of the elements.
SumsUp(sum, S, amount) ==
    /\ sum \in [SUBSET S -> Int]
    /\ sum[{}] = 0
    /\ \A T \in SUBSET S : \A x \in T : sum[T] = amount[x] + sum[T \ {x}]

LEMMA SumExists ==
    ASSUME NEW S, IsFiniteSet(S), NEW amount, \A x \in S : amount[x] \in Int
    PROVE  \E sum : SumsUp(sum, S, amount)
<1> DEFINE C == {T \in SUBSET S : \E sum : SumsUp(sum, T, amount)}
<1>1. {} \in C
    <2> DEFINE zero == [T \in SUBSET {} |-> 0]
    <2>1. SumsUp(zero, {}, amount)
        BY DEF SumsUp
    <2> QED BY <2>1, Zenon
<1>2. ASSUME NEW T \in C, NEW y \in S \ T, T \subseteq S
      PROVE  T \cup {y} \in C
    <2>1. PICK sum : SumsUp(sum, T, amount)
        BY <1>2
    <2> DEFINE more == [U \in SUBSET (T \cup {y}) |->
                           IF y \in U THEN amount[y] + sum[U \ {y}] ELSE sum[U]]
    <2>2. \A U \in SUBSET (T \cup {y}) : U \ {y} \in SUBSET T
        OBVIOUS
    <2>3. \A U \in SUBSET (T \cup {y}) : y \notin U => U \in SUBSET T
        OBVIOUS
    <2>4. more \in [SUBSET (T \cup {y}) -> Int]
        BY <1>2, <2>1, <2>2, <2>3 DEF SumsUp
    <2>5. more[{}] = 0
        BY <2>1 DEF SumsUp
    <2>6. ASSUME NEW U \in SUBSET (T \cup {y}), NEW x \in U
          PROVE  more[U] = amount[x] + more[U \ {x}]
        <3>1. CASE y \notin U
            <4>1. U \in SUBSET T /\ U \ {x} \in SUBSET (T \cup {y}) /\ y \notin U \ {x}
                BY <2>3, <3>1
            <4>2. more[U] = sum[U] /\ more[U \ {x}] = sum[U \ {x}]
                BY <3>1, <4>1
            <4> QED BY <2>1, <4>1, <4>2 DEF SumsUp
        <3>2. CASE x = y
            <4>1. more[U] = amount[y] + sum[U \ {y}] /\ more[U \ {x}] = sum[U \ {y}]
                BY <3>2
            <4> QED BY <3>2, <4>1
        <3>3. CASE y \in U /\ x # y
            <4>1. more[U] = amount[y] + sum[U \ {y}]
                BY <3>3
            <4>2. y \in U \ {x} /\ U \ {x} \in SUBSET (T \cup {y})
                BY <3>3
            <4>3. more[U \ {x}] = amount[y] + sum[(U \ {x}) \ {y}]
                BY <4>2
            <4>4. U \ {y} \in SUBSET T /\ x \in U \ {y} /\ (U \ {y}) \ {x} \in SUBSET T
                BY <3>3
            <4>5. sum[U \ {y}] = amount[x] + sum[(U \ {y}) \ {x}]
                BY <2>1, <4>4 DEF SumsUp
            <4>6. (U \ {y}) \ {x} = (U \ {x}) \ {y}
                OBVIOUS
            <4>7. amount[x] \in Int /\ amount[y] \in Int /\ sum[(U \ {y}) \ {x}] \in Int
                BY <1>2, <2>1, <4>4 DEF SumsUp
            <4> HIDE DEF more
            <4>8. \A i, j, k \in Int : i + (j + k) = j + (i + k)
                OBVIOUS
            <4>9. amount[y] + (amount[x] + sum[(U \ {y}) \ {x}])
                     = amount[x] + (amount[y] + sum[(U \ {y}) \ {x}])
                BY ONLY <4>7, <4>8
            <4> QED BY ONLY <4>1, <4>3, <4>5, <4>6, <4>9, Zenon
        <3> QED BY <3>1, <3>2, <3>3
    <2> HIDE DEF more
    <2>7. SumsUp(more, T \cup {y}, amount)
        BY <2>4, <2>5, <2>6 DEF SumsUp
    <2> QED BY <2>7
<1> HIDE DEF C
<1>3. S \in C
    BY <1>1, <1>2, FiniteInduction
<1> QED BY <1>3 DEF C

Picked(T) == CHOOSE x \in T : TRUE

\* The recursion of the community module, which takes out one element of its
\* choice.
Recurses(sum, S, amount) ==
    sum = [T \in SUBSET S |-> IF T = {} THEN 0 ELSE amount[Picked(T)] + sum[T \ {Picked(T)}]]

LEMMA SumRecurses ==
    ASSUME NEW S, NEW amount, NEW sum, SumsUp(sum, S, amount)
    PROVE  Recurses(sum, S, amount)
<1>1. \A T : T # {} => Picked(T) \in T
    BY DEF Picked
<1>2. \A T \in SUBSET S : sum[T] = IF T = {} THEN 0 ELSE amount[Picked(T)] + sum[T \ {Picked(T)}]
    BY <1>1 DEF SumsUp
<1>3. sum = [T \in SUBSET S |-> sum[T]]
    BY DEF SumsUp
<1> QED BY <1>2, <1>3 DEF Recurses

LEMMA RecursionSums ==
    ASSUME NEW S, IsFiniteSet(S), NEW amount, NEW sum, SumsUp(sum, S, amount),
           NEW other, Recurses(other, S, amount)
    PROVE  other[S] = sum[S]
<1> DEFINE Sizes == {Cardinality(T) : T \in {U \in SUBSET S : other[U] # sum[U]}}
<1>1. \A T \in SUBSET S : IsFiniteSet(T) /\ Cardinality(T) \in Nat
    BY FS_Subset, FS_CardinalityType
<1>2. SUFFICES ASSUME other[S] # sum[S] PROVE FALSE
    OBVIOUS
<1>3. Sizes \subseteq Nat /\ Sizes # {}
    BY <1>1, <1>2
<1>4. PICK least \in Sizes : \A m \in Sizes : least <= m
    <2> HIDE DEF Sizes
    <2> QED BY <1>3, LeastNumber
<1>5. PICK T \in SUBSET S : other[T] # sum[T] /\ least = Cardinality(T)
    BY <1>4
<1>6. other[T] = IF T = {} THEN 0 ELSE amount[Picked(T)] + other[T \ {Picked(T)}]
    BY DEF Recurses
<1>7. T # {}
    BY <1>5, <1>6 DEF SumsUp
<1>8. PICK x : x = Picked(T)
    OBVIOUS
<1>9. x \in T /\ T \ {x} \in SUBSET S
    BY <1>7, <1>8 DEF Picked
<1>10. Cardinality(T \ {x}) = Cardinality(T) - 1
    BY <1>1, <1>9, FS_RemoveElement
<1>11. other[T \ {x}] = sum[T \ {x}]
    <2>1. SUFFICES ASSUME other[T \ {x}] # sum[T \ {x}] PROVE FALSE
        OBVIOUS
    <2>2. Cardinality(T \ {x}) \in Sizes
        BY <1>9, <2>1
    <2> HIDE DEF Sizes
    <2> QED BY <1>1, <1>4, <1>5, <1>10, <2>2
<1>12. other[T] = amount[x] + other[T \ {x}]
    BY <1>6, <1>7, <1>8
<1>13. sum[T] = amount[x] + sum[T \ {x}]
    BY <1>9 DEF SumsUp
<1> QED BY <1>5, <1>11, <1>12, <1>13

LEMMA TotalIs ==
    ASSUME NEW S, IsFiniteSet(S), NEW amount, NEW sum, SumsUp(sum, S, amount)
    PROVE  Total(amount, S) = sum[S]
<1> DEFINE Follows(it) ==
              it = [T \in SUBSET S |-> IF T = {} THEN 0 ELSE amount[Picked(T)] + it[T \ {Picked(T)}]]
           it == CHOOSE it : Follows(it)
<1>1. Total(amount, S) = it[S]
    BY DEF Total, MapThenSumSet, MapThenFoldSet, Picked
<1>2. ASSUME NEW other PROVE Follows(other) <=> Recurses(other, S, amount)
    BY DEF Recurses
<1> HIDE DEF Follows
<1>3. Follows(sum)
    BY <1>2, SumRecurses
<1>4. Follows(it)
    BY <1>3
<1> HIDE DEF it
<1> QED BY <1>1, <1>2, <1>4, RecursionSums

\* The laws of a total.
LEMMA TotalLaws ==
    ASSUME NEW S, IsFiniteSet(S), NEW amount, \A x \in S : amount[x] \in Int
    PROVE  /\ Total(amount, {}) = 0
           /\ Total(amount, S) \in Int
           /\ \A x \in S : Total(amount, S) = amount[x] + Total(amount, S \ {x})
<1>1. PICK sum : SumsUp(sum, S, amount)
    BY SumExists
<1>2. ASSUME NEW T \in SUBSET S PROVE Total(amount, T) = sum[T]
    <2> DEFINE part == [U \in SUBSET T |-> sum[U]]
    <2>1. SumsUp(part, T, amount) /\ part[T] = sum[T]
        BY <1>1 DEF SumsUp
    <2>2. IsFiniteSet(T)
        BY FS_Subset
    <2> HIDE DEF part
    <2> QED BY <2>1, <2>2, TotalIs
<1>3. {} \in SUBSET S /\ S \in SUBSET S /\ \A x \in S : S \ {x} \in SUBSET S
    OBVIOUS
<1> QED BY <1>1, <1>2, <1>3 DEF SumsUp

\* Equal amounts have equal totals.
LEMMA SameTotal ==
    ASSUME NEW S, IsFiniteSet(S), NEW amount, NEW other,
           \A x \in S : amount[x] \in Int /\ other[x] = amount[x]
    PROVE  Total(other, S) = Total(amount, S)
<1>1. PICK sum : SumsUp(sum, S, amount)
    BY SumExists
<1>2. SumsUp(sum, S, other)
    BY <1>1 DEF SumsUp
<1> QED BY <1>1, <1>2, TotalIs

\* The total of a sequence of amounts grows by what is appended.
LEMMA TotalGrows ==
    ASSUME NEW n \in Nat \ {0}, NEW amount, NEW before,
           \A i \in 1..n : amount[i] \in Int, \A i \in 1..(n - 1) : before[i] = amount[i]
    PROVE  /\ Total(amount, 1..n) = Total(before, 1..(n - 1)) + amount[n]
           /\ Total(before, 1..(n - 1)) \in Int
<1>1. IsFiniteSet(1..n) /\ IsFiniteSet(1..(n - 1)) /\ (1..n) \ {n} = 1..(n - 1) /\ n \in 1..n
    BY FS_Interval
<1>2. \A i \in 1..(n - 1) : i \in 1..n
    OBVIOUS
<1>3. Total(amount, 1..n) = amount[n] + Total(amount, (1..n) \ {n})
    BY <1>1, TotalLaws
<1>4. Total(before, 1..(n - 1)) = Total(amount, 1..(n - 1)) /\ Total(amount, 1..(n - 1)) \in Int
    BY <1>1, <1>2, SameTotal, TotalLaws
<1>5. Total(amount, (1..n) \ {n}) = Total(amount, 1..(n - 1)) /\ amount[n] \in Int
    BY <1>1
<1> QED BY <1>3, <1>4, <1>5

-----------------------------------------------------------------------------
(* Lots.                                                                     *)

Lot == [quantity: Nat \ {0}, cost: Nat]

CostsOf(lots) == [i \in 1..Len(lots) |-> lots[i].cost]

SharesOf(lots) == [i \in 1..Len(lots) |-> lots[i].quantity]

CostIn(lots) == Total(CostsOf(lots), 1..Len(lots))

SharesIn(lots) == Total(SharesOf(lots), 1..Len(lots))

LEMMA LotTypes ==
    ASSUME NEW lots \in Seq(Lot)
    PROVE  /\ Len(lots) \in Nat
           /\ \A i \in 1..Len(lots) : /\ lots[i] \in Lot
                                      /\ lots[i].quantity \in Nat \ {0} /\ lots[i].cost \in Nat
                                      /\ CostsOf(lots)[i] = lots[i].cost
                                      /\ SharesOf(lots)[i] = lots[i].quantity
           /\ IsFiniteSet(1..Len(lots))
<1>1. Len(lots) \in Nat /\ \A i \in 1..Len(lots) : lots[i] \in Lot
    OBVIOUS
<1>2. IsFiniteSet(1..Len(lots))
    BY <1>1, FS_Interval
<1> QED BY <1>1, <1>2 DEF Lot, CostsOf, SharesOf

\* One lot more counts its cost and its shares.
LEMMA LotAdded ==
    ASSUME NEW lots \in Seq(Lot), NEW lot \in Lot
    PROVE  /\ Append(lots, lot) \in Seq(Lot)
           /\ CostIn(lots) \in Int /\ SharesIn(lots) \in Int
           /\ CostIn(Append(lots, lot)) = CostIn(lots) + lot.cost
           /\ SharesIn(Append(lots, lot)) = SharesIn(lots) + lot.quantity
<1> DEFINE more == Append(lots, lot)
           n == Len(lots) + 1
<1>1. /\ more \in Seq(Lot) /\ Len(more) = n /\ n \in Nat \ {0} /\ n - 1 = Len(lots)
      /\ \A i \in 1..(n - 1) : more[i] = lots[i]
      /\ more[n] = lot
    BY Appends
<1> HIDE DEF more, n
<1>2. \A i \in 1..n : /\ CostsOf(more)[i] = more[i].cost /\ SharesOf(more)[i] = more[i].quantity
                      /\ more[i].cost \in Int /\ more[i].quantity \in Int
    BY <1>1, LotTypes
<1>3. \A i \in 1..(n - 1) : i \in 1..n
    BY <1>1
<1>4. \A i \in 1..(n - 1) : CostsOf(lots)[i] = CostsOf(more)[i] /\ SharesOf(lots)[i] = SharesOf(more)[i]
    BY <1>1, <1>2, <1>3, LotTypes
<1>5. n \in 1..n
    BY <1>1
<1>6. /\ Total(CostsOf(more), 1..n) = Total(CostsOf(lots), 1..(n - 1)) + CostsOf(more)[n]
      /\ Total(CostsOf(lots), 1..(n - 1)) \in Int
  <2> DEFINE amount == CostsOf(more)
             before == CostsOf(lots)
  <2>1. n \in Nat \ {0} /\ \A i \in 1..n : amount[i] \in Int
    BY <1>1, <1>2
  <2>2. \A i \in 1..(n - 1) : before[i] = amount[i]
    BY <1>4
  <2> HIDE DEF amount, before
  <2>3. /\ Total(amount, 1..n) = Total(before, 1..(n - 1)) + amount[n]
        /\ Total(before, 1..(n - 1)) \in Int
    BY ONLY <2>1, <2>2, TotalGrows
  <2> QED BY <2>3 DEF amount, before
<1>7. /\ Total(SharesOf(more), 1..n) = Total(SharesOf(lots), 1..(n - 1)) + SharesOf(more)[n]
      /\ Total(SharesOf(lots), 1..(n - 1)) \in Int
  <2> DEFINE amount == SharesOf(more)
             before == SharesOf(lots)
  <2>1. n \in Nat \ {0} /\ \A i \in 1..n : amount[i] \in Int
    BY <1>1, <1>2
  <2>2. \A i \in 1..(n - 1) : before[i] = amount[i]
    BY <1>4
  <2> HIDE DEF amount, before
  <2>3. /\ Total(amount, 1..n) = Total(before, 1..(n - 1)) + amount[n]
        /\ Total(before, 1..(n - 1)) \in Int
    BY ONLY <2>1, <2>2, TotalGrows
  <2> QED BY <2>3 DEF amount, before
<1>8. CostsOf(more)[n] = lot.cost /\ SharesOf(more)[n] = lot.quantity
    BY <1>1, <1>2, <1>5
<1>9. /\ CostIn(lots) \in Int /\ SharesIn(lots) \in Int
      /\ CostIn(more) = CostIn(lots) + lot.cost
      /\ SharesIn(more) = SharesIn(lots) + lot.quantity
    BY <1>1, <1>6, <1>7, <1>8 DEF CostIn, SharesIn
<1> QED BY <1>1, <1>9 DEF more

LEMMA NoLots == CostIn(<<>>) = 0 /\ SharesIn(<<>>) = 0
<1>1. 1..Len(<<>>) = {} /\ IsFiniteSet({})
    BY FS_EmptySet
<1> QED BY <1>1, TotalLaws DEF CostIn, SharesIn

\* What holds of no lots and survives one more lot holds of every prefix.
LEMMA SharesPositive ==
    ASSUME NEW lots \in Seq(Lot)
    PROVE  SharesIn(lots) \in Nat
<1> DEFINE N == Len(lots)
           M == {n \in 0..N : SharesIn(SubSeq(lots, 1, n)) \in Nat}
<1>1. N \in Nat
    OBVIOUS
<1>2. 0 \in M
    <2>1. SubSeq(lots, 1, 0) = <<>>
        OBVIOUS
    <2>2. 0 \in 0..N /\ SharesIn(<<>>) = 0
        BY <1>1, NoLots
    <2>3. SharesIn(SubSeq(lots, 1, 0)) = 0
        BY <2>1, <2>2, Zenon
    <2> HIDE DEF N
    <2> QED BY <2>2, <2>3
<1>3. ASSUME NEW n \in 1..N, n - 1 \in M PROVE n \in M
    <2>1. n - 1 \in 0..N /\ n \in 0..N /\ SharesIn(SubSeq(lots, 1, n - 1)) \in Nat
        BY <1>1, <1>3
    <2>2. SubSeq(lots, 1, n) = Append(SubSeq(lots, 1, n - 1), lots[n])
        OBVIOUS
    <2>3. SubSeq(lots, 1, n - 1) \in Seq(Lot) /\ lots[n] \in Lot /\ lots[n].quantity \in Nat
        BY <2>1, FirstPart, LotTypes
    <2>4. SharesIn(SubSeq(lots, 1, n)) = SharesIn(SubSeq(lots, 1, n - 1)) + lots[n].quantity
        BY <2>2, <2>3, LotAdded
    <2> QED BY <2>1, <2>3, <2>4
<1> HIDE DEF M
<1>4. N \in M
    <2>1. \A n \in 1..N : n - 1 \in M => n \in M
        BY <1>3
    <2>2. \A n \in 0..N : n \in M
        BY <1>1, <1>2, <2>1, Climb
    <2> QED BY <1>1, <2>2
<1>5. SubSeq(lots, 1, N) = lots
    BY WholePrefix
<1> QED BY <1>4, <1>5 DEF M

-----------------------------------------------------------------------------
(* Sales.                                                                    *)

Sale == [left: Nat, cost: Nat, kept: Seq(Lot)]

\* The lots kept are the last ones, the first of them perhaps in part.
KeptOf(kept, lots) ==
    /\ Len(kept) <= Len(lots)
    /\ \A k \in 1..Len(kept) :
          /\ kept[k].quantity <= lots[Len(lots) - Len(kept) + k].quantity
          /\ k > 1 => kept[k] = lots[Len(lots) - Len(kept) + k]

\* What was sold of the lots and what is kept are the lots.
Balanced(sale, lots, quantity) ==
    /\ sale \in Sale
    /\ sale.left <= quantity
    /\ sale.left > 0 => sale.kept = <<>>
    /\ SharesIn(sale.kept) + (quantity - sale.left) = SharesIn(lots)
    /\ CostIn(sale.kept) + sale.cost = CostIn(lots)
    /\ KeptOf(sale.kept, lots)

LEMMA TakeType ==
    ASSUME NEW sale \in Sale, NEW lot \in Lot
    PROVE  LET take == Smaller(sale.left, lot.quantity)
               part == FIFOAllocation(lot.cost, take, lot.quantity)
               rest == [quantity |-> lot.quantity - take, cost |-> lot.cost - part]
           IN  /\ take \in 0..lot.quantity /\ part \in 0..lot.cost
               /\ sale.left - take \in Nat
               /\ take # lot.quantity => rest \in Lot /\ sale.left = take
               /\ take = 0 => rest = lot
               /\ take = lot.quantity => part = lot.cost
               /\ Take(sale, lot) \in Sale
<1> DEFINE take == Smaller(sale.left, lot.quantity)
           part == FIFOAllocation(lot.cost, take, lot.quantity)
           rest == [quantity |-> lot.quantity - take, cost |-> lot.cost - part]
<1>1. /\ lot.quantity \in Nat \ {0} /\ lot.cost \in Nat
      /\ sale.left \in Nat /\ sale.cost \in Nat /\ sale.kept \in Seq(Lot)
    BY DEF Lot, Sale
<1>2. take \in 0..lot.quantity /\ sale.left - take \in Nat /\ (take # lot.quantity => take = sale.left)
    BY <1>1 DEF Smaller
<1>3. part \in 0..lot.cost /\ (take = 0 => part = 0)
    BY <1>1, <1>2, AllocationBounded
<1>4. take = lot.quantity => part = lot.cost
    BY DEF FIFOAllocation
<1>5. Take(sale, lot) = [left |-> sale.left - take, cost |-> sale.cost + part,
                         kept |-> IF take = lot.quantity THEN sale.kept ELSE Append(sale.kept, rest)]
    BY DEF Take
<1> HIDE DEF take, part
<1>6. take # lot.quantity => rest \in Lot
    BY <1>1, <1>2, <1>3 DEF Lot
<1>7. take = 0 => rest = lot
    <2>1. SUFFICES ASSUME take = 0 PROVE rest = lot
        OBVIOUS
    <2>2. rest = [quantity |-> lot.quantity, cost |-> lot.cost]
        BY <1>1, <1>3, <2>1
    <2> QED BY <2>2 DEF Lot
<1> HIDE DEF rest
<1>8. Take(sale, lot) \in Sale
    <2>1. sale.cost + part \in Nat
        BY <1>1, <1>3
    <2>2. (IF take = lot.quantity THEN sale.kept ELSE Append(sale.kept, rest)) \in Seq(Lot)
        BY <1>1, <1>6
    <2> QED BY <1>2, <1>5, <2>1, <2>2 DEF Sale
<1> QED BY <1>2, <1>3, <1>4, <1>6, <1>7, <1>8 DEF take, part, rest

\* A sale that is balanced over some lots is so over one lot more.
LEMMA TakeBalances ==
    ASSUME NEW lots \in Seq(Lot), NEW lot \in Lot, NEW quantity \in Nat,
           NEW sale, Balanced(sale, lots, quantity)
    PROVE  Balanced(Take(sale, lot), Append(lots, lot), quantity)
<1> DEFINE take == Smaller(sale.left, lot.quantity)
           part == FIFOAllocation(lot.cost, take, lot.quantity)
           rest == [quantity |-> lot.quantity - take, cost |-> lot.cost - part]
           next == Take(sale, lot)
           more == Append(lots, lot)
<1>1. /\ sale \in Sale /\ sale.left \in Nat /\ sale.cost \in Nat /\ sale.kept \in Seq(Lot)
      /\ lot.quantity \in Nat \ {0} /\ lot.cost \in Nat
    BY DEF Balanced, Sale, Lot
<1>2. /\ take \in 0..lot.quantity /\ part \in 0..lot.cost
      /\ sale.left - take \in Nat
      /\ take # lot.quantity => rest \in Lot /\ sale.left = take
      /\ take = 0 => rest = lot
      /\ take = lot.quantity => part = lot.cost
      /\ next \in Sale
    BY <1>1, TakeType
<1>3. /\ next.left = sale.left - take /\ next.cost = sale.cost + part
      /\ next.kept = IF take = lot.quantity THEN sale.kept ELSE Append(sale.kept, rest)
    BY DEF Take
<1>4. rest.quantity = lot.quantity - take /\ rest.cost = lot.cost - part
    OBVIOUS
<1> HIDE DEF take, part, rest, next
<1>5. /\ SharesIn(more) = SharesIn(lots) + lot.quantity /\ CostIn(more) = CostIn(lots) + lot.cost
      /\ SharesIn(lots) \in Int /\ CostIn(lots) \in Int
      /\ SharesIn(sale.kept) \in Int /\ CostIn(sale.kept) \in Int
    BY <1>1, LotAdded
<1>6. /\ more \in Seq(Lot) /\ Len(more) = Len(lots) + 1 /\ Len(lots) \in Nat
      /\ \A i \in 1..Len(lots) : more[i] = lots[i]
      /\ more[Len(lots) + 1] = lot
    BY Appends
<1>7. /\ SharesIn(sale.kept) + (quantity - sale.left) = SharesIn(lots)
      /\ CostIn(sale.kept) + sale.cost = CostIn(lots)
      /\ sale.left <= quantity
      /\ sale.left > 0 => sale.kept = <<>>
      /\ KeptOf(sale.kept, lots)
    BY DEF Balanced
<1> HIDE DEF more
<1>8. CASE take = lot.quantity
    <2>1. next.kept = <<>> /\ sale.kept = <<>>
        BY <1>1, <1>2, <1>3, <1>7, <1>8
    <2>2. KeptOf(next.kept, more)
        BY <1>6, <2>1 DEF KeptOf
    <2>3. part = lot.cost
        BY <1>2, <1>8
    <2>4. /\ SharesIn(next.kept) + (quantity - next.left) = SharesIn(more)
          /\ CostIn(next.kept) + next.cost = CostIn(more)
          /\ next.left <= quantity
        <3>1. SharesIn(next.kept) = 0 /\ CostIn(next.kept) = 0 /\ SharesIn(sale.kept) = 0 /\ CostIn(sale.kept) = 0
            BY <2>1, NoLots
        <3>2. next.left = sale.left - lot.quantity /\ next.cost = sale.cost + lot.cost
            BY <1>3, <1>8, <2>3
        <3>3. SharesIn(lots) = quantity - sale.left /\ CostIn(lots) = sale.cost
            BY <1>1, <1>7, <3>1
        <3>4. 0 + (quantity - next.left) = SharesIn(more)
            BY <1>1, <1>5, <3>2, <3>3
        <3>5. 0 + next.cost = CostIn(more)
            BY <1>1, <1>5, <3>2, <3>3
        <3>6. next.left <= quantity
            BY <1>1, <1>7, <3>2
        <3> QED BY <3>1, <3>4, <3>5, <3>6
    <2> QED BY <1>2, <2>1, <2>2, <2>4 DEF Balanced, next, more
<1>9. CASE take # lot.quantity
    <2>1. next.kept = Append(sale.kept, rest) /\ rest \in Lot /\ sale.left = take /\ next.left = 0
        BY <1>1, <1>2, <1>3, <1>9
    <2>2. /\ SharesIn(next.kept) = SharesIn(sale.kept) + rest.quantity
          /\ CostIn(next.kept) = CostIn(sale.kept) + rest.cost
        BY <1>1, <2>1, LotAdded
    <2>3. /\ SharesIn(next.kept) + (quantity - next.left) = SharesIn(more)
          /\ CostIn(next.kept) + next.cost = CostIn(more)
          /\ next.left <= quantity
        <3>1. take \in Nat /\ part \in Nat
            BY <1>1, <1>2
        <3>2. /\ SharesIn(next.kept) = SharesIn(sale.kept) + (lot.quantity - sale.left)
              /\ CostIn(next.kept) = CostIn(sale.kept) + (lot.cost - part)
            BY <1>4, <2>1, <2>2
        <3>3. SharesIn(next.kept) + (quantity - 0) = SharesIn(more)
            BY <1>1, <1>5, <1>7, <3>2
        <3>4. CostIn(next.kept) + (sale.cost + part) = CostIn(more)
            <4>1. /\ CostIn(sale.kept) \in Int /\ sale.cost \in Int /\ lot.cost \in Int /\ part \in Int
                  /\ CostIn(sale.kept) + sale.cost = CostIn(lots)
                  /\ CostIn(more) = CostIn(lots) + lot.cost
                  /\ CostIn(next.kept) = CostIn(sale.kept) + (lot.cost - part)
                BY <1>1, <1>5, <1>7, <3>1, <3>2
            <4> QED BY ONLY <4>1
        <3>5. 0 <= quantity
            OBVIOUS
        <3> QED BY <1>3, <2>1, <3>3, <3>4, <3>5
    <2>4. /\ Len(next.kept) = Len(sale.kept) + 1 /\ Len(sale.kept) \in Nat
          /\ \A k \in 1..Len(sale.kept) : next.kept[k] = sale.kept[k]
          /\ next.kept[Len(sale.kept) + 1] = rest
        BY <1>1, <2>1, Appends
    <2>5. KeptOf(next.kept, more)
        <3>1. Len(sale.kept) <= Len(lots)
            BY <1>7 DEF KeptOf
        <3> DEFINE skipped == Len(lots) - Len(sale.kept)
        <3>2. skipped \in Nat /\ Len(more) - Len(next.kept) = skipped /\ Len(lots) = skipped + Len(sale.kept)
            BY <1>6, <2>4, <3>1
        <3>3. \A k \in 1..Len(next.kept) : k \in 1..Len(sale.kept) \/ k = Len(sale.kept) + 1
            BY <2>4
        <3>4. \A k \in 1..Len(sale.kept) : skipped + k \in 1..Len(lots)
            BY <1>6, <2>4, <3>2
        <3>5. skipped + (Len(sale.kept) + 1) = Len(lots) + 1
            <4> HIDE DEF skipped
            <4> QED BY <1>6, <2>4, <3>2
        <3>6. \A k \in 1..Len(sale.kept) :
                 /\ sale.kept[k].quantity <= lots[skipped + k].quantity
                 /\ k > 1 => sale.kept[k] = lots[skipped + k]
            BY <1>7 DEF KeptOf
        <3> HIDE DEF skipped
        <3>7. ASSUME NEW k \in 1..Len(next.kept)
              PROVE  /\ next.kept[k].quantity <= more[skipped + k].quantity
                     /\ k > 1 => next.kept[k] = more[skipped + k]
            <4>1. CASE k \in 1..Len(sale.kept)
                <5>1. skipped + k \in 1..Len(lots) /\ more[skipped + k] = lots[skipped + k]
                    BY <1>6, <3>4, <4>1
                <5>2. /\ sale.kept[k].quantity <= lots[skipped + k].quantity
                      /\ k > 1 => sale.kept[k] = lots[skipped + k]
                    BY <3>6, <4>1
                <5> QED BY <2>4, <4>1, <5>1, <5>2
            <4>2. CASE k = Len(sale.kept) + 1
                <5>1. skipped + k = Len(lots) + 1 /\ more[skipped + k] = lot /\ next.kept[k] = rest
                    BY <1>6, <2>4, <3>5, <4>2
                <5>2. rest.quantity <= lot.quantity
                    BY <1>1, <1>2, <1>4
                <5>3. k > 1 => rest = lot
                    <6>1. SUFFICES ASSUME k > 1 PROVE take = 0
                        BY <1>2
                    <6>2. sale.kept # <<>>
                        BY <2>4, <4>2, <6>1
                    <6> QED BY <1>1, <1>7, <2>1, <6>2
                <5> QED BY <5>1, <5>2, <5>3
            <4> QED BY <3>3, <4>1, <4>2
        <3>8. Len(next.kept) <= Len(more)
            BY <1>6, <2>4, <3>1
        <3> QED BY <3>2, <3>7, <3>8 DEF KeptOf
    <2>6. next.left > 0 => next.kept = <<>>
        BY <2>1
    <2> QED BY <1>2, <2>3, <2>5, <2>6 DEF Balanced, next, more
<1> QED BY <1>8, <1>9

\* A sale takes the oldest lots.
LEMMA SaleBalances ==
    ASSUME NEW lots \in Seq(Lot), NEW quantity \in Nat
    PROVE  Balanced(SellLots(lots, quantity), lots, quantity)
<1> DEFINE N == Len(lots)
           S == Sale
           base == [left |-> quantity, cost |-> 0, kept |-> <<>>]
           Follows(f) == f = [n \in 0..N |-> IF n = 0 THEN base ELSE Take(f[n - 1], lots[n])]
           step == [n \in 1..N |-> [sale \in S |-> Take(sale, lots[n])]]
<1>1. N \in Nat /\ base \in S /\ \A n \in 1..N : lots[n] \in Lot
    BY LotTypes DEF Sale
<1>2. \A sale \in S : \A n \in 1..N : Take(sale, lots[n]) \in S
    BY <1>1, TakeType
<1>3. base.left = quantity /\ base.cost = 0 /\ base.kept = <<>>
    OBVIOUS
<1> HIDE DEF N, S, base
<1>4. \E f : Follows(f)
    <2>1. \A n \in 1..N : step[n] \in [S -> S]
        BY <1>2
    <2>2. \A n \in 1..N : \A sale \in S : step[n][sale] = Take(sale, lots[n])
        OBVIOUS
    <2> HIDE DEF step
    <2>3. PICK f : Loops(S, N, base, step, f)
        BY <1>1, <2>1, LoopExists
    <2>4. \A n \in 1..N : n - 1 \in 0..N /\ f[n - 1] \in S
        BY <1>1, <2>3 DEF Loops
    <2>5. \A n \in 1..N : f[n] = Take(f[n - 1], lots[n])
        BY <2>2, <2>3, <2>4 DEF Loops
    <2>6. Follows(f)
        BY <1>1, <2>3, <2>5 DEF Loops
    <2> QED BY <2>6
<1>5. PICK f : Follows(f) /\ f = CHOOSE g : Follows(g)
    BY <1>4
<1>6. SellLots(lots, quantity) = f[N]
    BY <1>5 DEF SellLots, N, base
<1> DEFINE M == {n \in 0..N : Balanced(f[n], SubSeq(lots, 1, n), quantity)}
<1>7. 0 \in M
    <2>1. f[0] = base /\ SubSeq(lots, 1, 0) = <<>> /\ Len(<<>>) = 0
        BY <1>1, <1>5
    <2>2. Balanced(base, <<>>, quantity)
        BY <1>1, <1>3, NoLots DEF Balanced, KeptOf, S
    <2>3. 0 \in 0..N
        BY <1>1
    <2>4. Balanced(f[0], SubSeq(lots, 1, 0), quantity)
        BY <2>1, <2>2, Zenon
    <2> QED BY <2>3, <2>4
<1>8. ASSUME NEW n \in 1..N, n - 1 \in M PROVE n \in M
    <2>1. Balanced(f[n - 1], SubSeq(lots, 1, n - 1), quantity) /\ n \in 0..N /\ n - 1 \in 0..Len(lots)
        BY <1>1, <1>8 DEF N
    <2>2. f[n] = Take(f[n - 1], lots[n]) /\ lots[n] \in Lot
        BY <1>1, <1>5
    <2>3. SubSeq(lots, 1, n - 1) \in Seq(Lot)
        BY <2>1, FirstPart
    <2>4. SubSeq(lots, 1, n) = Append(SubSeq(lots, 1, n - 1), lots[n])
        BY DEF N
    <2>5. Balanced(Take(f[n - 1], lots[n]), Append(SubSeq(lots, 1, n - 1), lots[n]), quantity)
        BY <2>1, <2>2, <2>3, TakeBalances
    <2> QED BY <2>1, <2>2, <2>4, <2>5
<1> HIDE DEF M
<1>9. N \in M
    <2>1. \A n \in 1..N : n - 1 \in M => n \in M
        BY <1>8
    <2>2. \A n \in 0..N : n \in M
        BY <1>1, <1>7, <2>1, Climb
    <2> QED BY <1>1, <2>2
<1>10. SubSeq(lots, 1, N) = lots
    BY WholePrefix DEF N
<1> QED BY <1>6, <1>9, <1>10 DEF M

\* A split keeps the costs and multiplies the shares.
SplitLots(lots, k) == [i \in DOMAIN lots |-> [lots[i] EXCEPT !.quantity = @ * k]]

LEMMA SplitIs ==
    ASSUME NEW lots \in Seq(Lot), NEW k \in Nat \ {0}
    PROVE  /\ SplitLots(lots, k) \in Seq(Lot)
           /\ CostIn(SplitLots(lots, k)) = CostIn(lots)
           /\ SharesIn(SplitLots(lots, k)) = SharesIn(lots) * k
<1> DEFINE N == Len(lots)
           split == SplitLots(lots, k)
           M == {n \in 0..N : Total(SharesOf(split), 1..n) = Total(SharesOf(lots), 1..n) * k}
<1>1. /\ N \in Nat /\ DOMAIN lots = 1..N
      /\ \A i \in 1..N : /\ lots[i] \in Lot /\ lots[i].quantity \in Nat \ {0} /\ lots[i].cost \in Nat
                         /\ CostsOf(lots)[i] = lots[i].cost /\ SharesOf(lots)[i] = lots[i].quantity
      /\ IsFiniteSet(1..N)
    BY LotTypes, DomainOfSequence
<1>2. ASSUME NEW i \in 1..N
      PROVE  /\ split[i] \in Lot /\ split[i].quantity = lots[i].quantity * k /\ split[i].cost = lots[i].cost
    <2>1. split[i] = [lots[i] EXCEPT !.quantity = @ * k]
        BY <1>1 DEF SplitLots
    <2>2. lots[i].quantity * k \in Nat \ {0}
        <3>1. lots[i].quantity \in Nat \ {0}
            BY <1>1
        <3> QED BY <3>1
    <2> QED BY <1>1, <2>1, <2>2 DEF Lot
<1>3. split \in Seq(Lot) /\ Len(split) = N
    <2>1. split = [i \in 1..N |-> split[i]]
        BY <1>1 DEF SplitLots
    <2>2. split \in [1..N -> Lot]
        BY <1>2, <2>1
    <2> QED BY <1>1, <2>2
<1> HIDE DEF split, N
<1>4. ASSUME NEW i \in 1..N
      PROVE  /\ CostsOf(split)[i] = CostsOf(lots)[i] /\ CostsOf(lots)[i] \in Int
             /\ SharesOf(split)[i] = SharesOf(lots)[i] * k
             /\ SharesOf(split)[i] \in Int /\ SharesOf(lots)[i] \in Int
    <2>1. /\ CostsOf(lots)[i] = lots[i].cost /\ SharesOf(lots)[i] = lots[i].quantity
          /\ lots[i].cost \in Nat /\ lots[i].quantity \in Nat
        BY <1>1
    <2>2. /\ CostsOf(split)[i] = split[i].cost /\ SharesOf(split)[i] = split[i].quantity
          /\ split[i].quantity \in Nat
        BY <1>3, LotTypes
    <2>3. split[i].quantity = lots[i].quantity * k /\ split[i].cost = lots[i].cost
        BY <1>2
    <2>4. SharesOf(split)[i] = SharesOf(lots)[i] * k /\ CostsOf(split)[i] = CostsOf(lots)[i]
        BY <2>1, <2>2, <2>3, Zenon
    <2>5. SharesOf(split)[i] \in Nat /\ SharesOf(lots)[i] \in Nat /\ CostsOf(lots)[i] \in Nat
        BY <2>1, <2>2, Zenon
    <2> QED BY <2>4, <2>5
<1>5. CostIn(split) = CostIn(lots)
    <2>1. Total(CostsOf(split), 1..N) = Total(CostsOf(lots), 1..N)
        BY <1>1, <1>4, SameTotal
    <2> QED BY <1>3, <2>1 DEF CostIn, N
<1>6. 0 \in M
    <2>1. 1..0 = {} /\ 0 \in 0..N
        BY <1>1
    <2>2. Total(SharesOf(split), {}) = 0 /\ Total(SharesOf(lots), {}) = 0
        BY TotalLaws, FS_EmptySet
    <2>3. Total(SharesOf(split), 1..0) = Total(SharesOf(lots), 1..0) * k
        BY <2>1, <2>2
    <2> QED BY <2>1, <2>3
<1>7. ASSUME NEW n \in 1..N, n - 1 \in M PROVE n \in M
    <2>1. n \in Nat \ {0} /\ n \in 0..N /\ (\A i \in 1..n : i \in 1..N) /\ (\A i \in 1..(n - 1) : i \in 1..n)
          /\ n \in 1..n
        BY <1>1
    <2>2. \A i \in 1..n : /\ SharesOf(split)[i] \in Int /\ SharesOf(lots)[i] \in Int
                          /\ SharesOf(split)[i] = SharesOf(lots)[i] * k
        BY <1>4, <2>1, Zenon
    <2>3. /\ Total(SharesOf(split), 1..n) = Total(SharesOf(split), 1..(n - 1)) + SharesOf(split)[n]
          /\ Total(SharesOf(lots), 1..n) = Total(SharesOf(lots), 1..(n - 1)) + SharesOf(lots)[n]
          /\ Total(SharesOf(lots), 1..(n - 1)) \in Int
        BY <2>1, <2>2, TotalGrows
    <2>4. Total(SharesOf(split), 1..(n - 1)) = Total(SharesOf(lots), 1..(n - 1)) * k
        BY <1>7
    <2>5. \A a, b \in Int : a * k + b * k = (a + b) * k
        OBVIOUS
    <2>6. Total(SharesOf(split), 1..n) = Total(SharesOf(lots), 1..n) * k
        BY <2>1, <2>2, <2>3, <2>4, <2>5
    <2> QED BY <2>1, <2>6
<1> HIDE DEF M
<1>8. N \in M
    <2>1. \A n \in 1..N : n - 1 \in M => n \in M
        BY <1>7
    <2>2. \A n \in 0..N : n \in M
        BY <1>1, <1>6, <2>1, Climb
    <2> QED BY <1>1, <2>2
<1>9. SharesIn(split) = SharesIn(lots) * k
    BY <1>3, <1>8 DEF M, SharesIn, N
<1> QED BY <1>3, <1>5, <1>9 DEF split

-----------------------------------------------------------------------------
(* Posting.                                                                  *)

Account == [ok: BOOLEAN, cash: [Currency -> Int], realized: [Currency -> Int],
            lots: [Currency -> Seq(Lot)]]

\* What an event moves in a currency.
Moves(e, c) ==
    (IF e.currency = c THEN e.amount ELSE 0) + (IF e.counter = c THEN e.counterAmount ELSE 0)

\* What posting an event does to the lots of a currency and what they realized.
Posts(before, after, e, c) ==
    /\ e.currency # c \/ e.type \notin {"BUY", "SELL", "SPLIT"} =>
          after.lots[c] = before.lots[c] /\ after.realized[c] = before.realized[c]
    /\ e.currency = c /\ e.type = "BUY" =>
          /\ after.lots[c] = Append(before.lots[c], [quantity |-> e.quantity,
                                                     cost |-> e.quantity * e.price + e.fee])
          /\ after.realized[c] = before.realized[c]
    /\ e.currency = c /\ e.type = "SELL" =>
          \E sale : /\ Balanced(sale, before.lots[c], e.quantity) /\ sale.left = 0
                    /\ after.lots[c] = sale.kept
                    /\ after.realized[c] = before.realized[c] + e.amount - sale.cost
    /\ e.currency = c /\ e.type = "SPLIT" =>
          after.lots[c] = SplitLots(before.lots[c], e.quantity) /\ after.realized[c] = before.realized[c]

LEMMA RowFacts ==
    ASSUME NEW e \in LedgerRow, IsCanonical(e)
    PROVE  /\ e.currency \in Currency /\ e.amount \in Int /\ e.at \in Nat /\ e.source # ""
           /\ e.type \in EventType
           /\ e.corrects # "" <=> e.type = "CASH_VOID"
           /\ e.type # "FX_EXCHANGE" => e.counter \notin Currency
           /\ e.type = "FX_EXCHANGE" => e.counter \in Currency \ {e.currency} /\ e.counterAmount \in Int
           /\ e.type = "BUY" => /\ e.quantity \in Nat \ {0} /\ e.quantity * e.price + e.fee \in Nat
                                /\ e.amount = -(e.quantity * e.price + e.fee)
           /\ e.type \in {"SELL", "SPLIT"} => e.quantity \in Nat \ {0}
<1>1. /\ e.source \in STRING \ {""} /\ e.type \in EventType /\ e.at \in Nat /\ e.currency \in Currency
      /\ e.quantity \in Int /\ e.price \in Int /\ e.fee \in Int /\ e.amount \in Int /\ e.counterAmount \in Int
    BY DEF LedgerRow
<1>2. (e.corrects # "") <=> (e.type = "CASH_VOID")
    BY DEF IsCanonical
<1>3. e.type # "FX_EXCHANGE" => e.counter \notin Currency
    BY CurrencyAssumption DEF IsCanonical
<1>4. e.type = "FX_EXCHANGE" => e.counter \in Currency \ {e.currency}
    <2>1. SUFFICES ASSUME e.type = "FX_EXCHANGE" PROVE e.counter \in Currency \ {e.currency}
        OBVIOUS
    <2>2. /\ e.type \notin {"DEPOSIT", "DIVIDEND"} /\ e.type \notin {"WITHDRAWAL", "FEE", "TAX"}
          /\ e.type # "CASH_VOID" /\ e.type # "SPLIT" /\ e.type \notin TradeTypes
        BY <2>1 DEF TradeTypes
    <2> QED BY <2>1, <2>2 DEF IsCanonical
<1>5. e.type = "BUY" => /\ e.quantity > 0 /\ e.price > 0 /\ e.fee >= 0
                        /\ e.amount = -(e.quantity * e.price + e.fee)
    BY DEF IsCanonical, IsCanonicalTrade, TradeTypes
<1>6. e.type \in {"SELL", "SPLIT"} => e.quantity > 0
    BY DEF IsCanonical, IsCanonicalTrade, TradeTypes
<1>7. e.type = "BUY" => e.quantity * e.price + e.fee \in Nat
    <2>1. SUFFICES ASSUME e.type = "BUY" PROVE e.quantity * e.price + e.fee \in Nat
        OBVIOUS
    <2>2. e.quantity > 0 /\ e.price > 0 /\ e.fee >= 0
        BY <1>5, <2>1
    <2>3. e.quantity \in Int /\ e.price \in Int /\ e.fee \in Int
        BY <1>1
    <2>4. e.quantity \in Nat /\ e.price \in Nat /\ e.fee \in Nat
        BY ONLY <2>2, <2>3
    <2> QED BY ONLY <2>4
<1>8. e.type = "BUY" \/ e.type \in {"SELL", "SPLIT"} => e.quantity \in Nat \ {0}
    <2>1. SUFFICES ASSUME e.type = "BUY" \/ e.type \in {"SELL", "SPLIT"} PROVE e.quantity \in Nat \ {0}
        OBVIOUS
    <2>2. e.quantity > 0
        BY <1>5, <1>6, <2>1
    <2>3. e.quantity \in Int
        BY <1>1
    <2> QED BY ONLY <2>2, <2>3
<1>9. e.type = "BUY" => e.amount = -(e.quantity * e.price + e.fee)
    BY <1>5
<1> QED BY <1>1, <1>2, <1>3, <1>4, <1>7, <1>8, <1>9, Zenon

LEMMA PaidIs ==
    ASSUME NEW account \in Account, NEW e \in LedgerRow, IsCanonical(e)
    PROVE  /\ PostCash(account, e) \in Account
           /\ PostCash(account, e).ok = account.ok
           /\ PostCash(account, e).lots = account.lots
           /\ PostCash(account, e).realized = account.realized
           /\ \A c \in Currency : PostCash(account, e).cash[c] = account.cash[c] + Moves(e, c)
<1> DEFINE cash == [account.cash EXCEPT ![e.currency] = @ + e.amount]
           both == [cash EXCEPT ![e.counter] = @ + e.counterAmount]
           new == IF e.type = "FX_EXCHANGE" THEN both ELSE cash
<1>1. account.cash \in [Currency -> Int] /\ account.realized \in [Currency -> Int]
      /\ account.lots \in [Currency -> Seq(Lot)] /\ account.ok \in BOOLEAN
    BY DEF Account
<1> DEFINE x == e.currency
           y == e.counter
<1>0. /\ x \in Currency /\ e.amount \in Int /\ e.counterAmount \in Int
      /\ e.type = "FX_EXCHANGE" => y \in Currency
      /\ e.type # "FX_EXCHANGE" => y \notin Currency
    <2>1. e.counterAmount \in Int
        BY DEF LedgerRow
    <2> QED BY <2>1, RowFacts
<1>2. cash \in [Currency -> Int]
      /\ \A c \in Currency : cash[c] = account.cash[c] + (IF e.currency = c THEN e.amount ELSE 0)
    <2>1. account.cash[x] + e.amount \in Int /\ \A c \in Currency : account.cash[c] \in Int
        BY <1>0, <1>1
    <2>2. cash \in [Currency -> Int] /\ cash[x] = account.cash[x] + e.amount
          /\ \A c \in Currency : c # x => cash[c] = account.cash[c]
        BY <1>0, <1>1, <2>1
    <2>3. \A i \in Int : i + 0 = i
        OBVIOUS
    <2> HIDE DEF cash
    <2> QED BY <2>1, <2>2, <2>3
<1> HIDE DEF cash
<1>3. e.type = "FX_EXCHANGE" =>
          /\ both \in [Currency -> Int]
          /\ \A c \in Currency : both[c] = cash[c] + (IF e.counter = c THEN e.counterAmount ELSE 0)
    <2> SUFFICES ASSUME e.type = "FX_EXCHANGE"
                 PROVE  /\ both \in [Currency -> Int]
                        /\ \A c \in Currency : both[c] = cash[c] + (IF e.counter = c THEN e.counterAmount ELSE 0)
        OBVIOUS
    <2>1. y \in Currency /\ cash[y] + e.counterAmount \in Int /\ \A c \in Currency : cash[c] \in Int
        BY <1>0, <1>2
    <2>2. both \in [Currency -> Int] /\ both[y] = cash[y] + e.counterAmount
          /\ \A c \in Currency : c # y => both[c] = cash[c]
        BY <1>2, <2>1
    <2>3. \A i \in Int : i + 0 = i
        OBVIOUS
    <2> HIDE DEF both
    <2> QED BY <2>1, <2>2, <2>3
<1> HIDE DEF both
<1>4. new \in [Currency -> Int] /\ \A c \in Currency : new[c] = account.cash[c] + Moves(e, c)
    <2>1. CASE e.type = "FX_EXCHANGE"
        <3>1. new \in [Currency -> Int]
            BY <1>3, <2>1
        <3>2. ASSUME NEW c \in Currency PROVE new[c] = account.cash[c] + Moves(e, c)
            <4> DEFINE a == account.cash[c]
                       b == IF e.currency = c THEN e.amount ELSE 0
                       d == IF e.counter = c THEN e.counterAmount ELSE 0
            <4>1. a \in Int /\ b \in Int /\ d \in Int
                BY <1>0, <1>1
            <4>2. new[c] = both[c] /\ both[c] = cash[c] + d /\ cash[c] = a + b
                BY <1>2, <1>3, <2>1
            <4>3. Moves(e, c) = b + d
                BY DEF Moves
            <4> HIDE DEF a, b, d
            <4>4. (a + b) + d = a + (b + d)
                BY ONLY <4>1
            <4>5. new[c] = a + Moves(e, c)
                BY <4>2, <4>3, <4>4, Zenon
            <4> QED BY <4>5 DEF a
        <3> QED BY <3>1, <3>2
    <2>2. CASE e.type # "FX_EXCHANGE"
        <3>1. new = cash
            BY <2>2
        <3>2. ASSUME NEW c \in Currency PROVE cash[c] = account.cash[c] + Moves(e, c)
            <4> DEFINE b == IF e.currency = c THEN e.amount ELSE 0
            <4>1. b \in Int /\ e.counter # c
                BY <1>0, <2>2
            <4>2. Moves(e, c) = b + 0
                BY <4>1 DEF Moves
            <4>3. cash[c] = account.cash[c] + b
                BY <1>2
            <4> HIDE DEF b
            <4>4. Moves(e, c) = b
                BY <4>1, <4>2
            <4> QED BY <4>3, <4>4
        <3> QED BY <1>2, <3>1, <3>2
    <2> QED BY <2>1, <2>2
<1>5. PostCash(account, e) = [account EXCEPT !.cash = new]
    BY DEF PostCash, cash, both
<1> HIDE DEF new
<1> QED BY <1>1, <1>4, <1>5 DEF Account

LEMMA PostIs ==
    ASSUME NEW account \in Account, account.ok, NEW e \in LedgerRow, IsCanonical(e)
    PROVE  /\ Post(account, e) \in Account
           /\ Post(account, e).ok =>
                 \A c \in Currency : /\ Post(account, e).cash[c] = account.cash[c] + Moves(e, c)
                                     /\ Posts(account, Post(account, e), e, c)
<1> DEFINE paid == PostCash(account, e)
           next == Post(account, e)
           x == e.currency
<1>1. /\ paid \in Account /\ paid.ok /\ paid.lots = account.lots
      /\ paid.realized = account.realized
      /\ \A c \in Currency : paid.cash[c] = account.cash[c] + Moves(e, c)
    BY PaidIs, Zenon
<1>2. /\ paid.cash \in [Currency -> Int] /\ paid.realized \in [Currency -> Int]
      /\ paid.lots \in [Currency -> Seq(Lot)] /\ x \in Currency /\ paid.lots[x] \in Seq(Lot)
      /\ paid.realized[x] \in Int /\ e.amount \in Int
    BY <1>1, RowFacts DEF Account
<1> HIDE DEF paid
<1>3. CASE e.type = "BUY"
    <2> DEFINE lot == [quantity |-> e.quantity, cost |-> e.quantity * e.price + e.fee]
    <2>1. next = [paid EXCEPT !.lots[x] = Append(@, lot)]
        BY <1>3 DEF Post, PostBuy, paid
    <2>2. lot \in Lot
        BY <1>3, RowFacts DEF Lot
    <2>3. Append(paid.lots[x], lot) \in Seq(Lot)
        BY <1>2, <2>2
    <2> HIDE DEF lot, next
    <2>4. /\ next \in Account /\ next.cash = paid.cash /\ next.realized = paid.realized
          /\ next.lots[x] = Append(paid.lots[x], lot)
          /\ \A c \in Currency : c # x => next.lots[c] = paid.lots[c]
        BY <1>1, <1>2, <2>1, <2>3 DEF Account
    <2>5. \A c \in Currency : Posts(account, next, e, c)
        BY <1>1, <1>2, <1>3, <2>4 DEF Posts, lot
    <2> QED BY <1>1, <2>4, <2>5 DEF next
<1>4. CASE e.type = "SELL"
    <2> DEFINE sale == SellLots(paid.lots[x], e.quantity)
    <2>1. next = [paid EXCEPT !.ok = sale.left = 0,
                              !.lots[x] = sale.kept,
                              !.realized[x] = @ + e.amount - sale.cost]
        BY <1>4 DEF Post, PostSell, paid
    <2>2. Balanced(sale, paid.lots[x], e.quantity)
        <3>1. e.quantity \in Nat
            BY <1>4, RowFacts
        <3> QED BY <1>2, <3>1, SaleBalances
    <2> HIDE DEF sale, next
    <2>3. sale.kept \in Seq(Lot) /\ sale.cost \in Nat
        BY <2>2 DEF Balanced, Sale
    <2>4. /\ next \in Account /\ next.cash = paid.cash
          /\ next.lots[x] = sale.kept
          /\ next.realized[x] = paid.realized[x] + e.amount - sale.cost
          /\ \A c \in Currency : c # x => next.lots[c] = paid.lots[c] /\ next.realized[c] = paid.realized[c]
        <3> DEFINE lots == [paid.lots EXCEPT ![x] = sale.kept]
                   realized == [paid.realized EXCEPT ![x] = @ + e.amount - sale.cost]
        <3>1. paid.realized[x] + e.amount - sale.cost \in Int
            <4>1. paid.realized[x] \in Int /\ e.amount \in Int /\ sale.cost \in Int
                BY <1>2, <2>3
            <4> QED BY ONLY <4>1
        <3>2. /\ lots \in [Currency -> Seq(Lot)] /\ lots[x] = sale.kept
              /\ \A c \in Currency : c # x => lots[c] = paid.lots[c]
            BY <1>2, <2>3
        <3>3. /\ realized \in [Currency -> Int]
              /\ realized[x] = paid.realized[x] + e.amount - sale.cost
              /\ \A c \in Currency : c # x => realized[c] = paid.realized[c]
            BY <1>2, <3>1
        <3>4. /\ next = [paid EXCEPT !.ok = sale.left = 0, !.lots = lots, !.realized = realized]
            BY <1>1, <2>1 DEF Account
        <3> HIDE DEF lots, realized
        <3>5. /\ next \in Account /\ next.cash = paid.cash /\ next.lots = lots /\ next.realized = realized
            BY <1>1, <1>2, <3>2, <3>3, <3>4 DEF Account
        <3> QED BY <3>2, <3>3, <3>5
    <2>5. next.ok => sale.left = 0
        BY <1>1, <2>1 DEF Account
    <2>6. next.ok => \A c \in Currency : Posts(account, next, e, c)
        BY <1>1, <1>2, <1>4, <2>2, <2>4, <2>5 DEF Posts
    <2> QED BY <1>1, <2>4, <2>6 DEF next
<1>5. CASE e.type = "SPLIT"
    <2> DEFINE lots == paid.lots[x]
               split == SplitLots(lots, e.quantity)
    <2>1. next = [paid EXCEPT !.ok = lots # <<>>, !.lots[x] = split]
        BY <1>5 DEF Post, PostSplit, paid, SplitLots
    <2>2. split \in Seq(Lot)
        <3>1. e.quantity \in Nat \ {0}
            BY <1>5, RowFacts
        <3> QED BY <1>2, <3>1, SplitIs
    <2> HIDE DEF split, next
    <2>3. /\ next \in Account /\ next.cash = paid.cash /\ next.realized = paid.realized
          /\ next.lots[x] = split
          /\ \A c \in Currency : c # x => next.lots[c] = paid.lots[c]
        BY <1>1, <1>2, <2>1, <2>2 DEF Account
    <2>4. \A c \in Currency : Posts(account, next, e, c)
        BY <1>1, <1>2, <1>5, <2>3 DEF Posts, split
    <2> QED BY <1>1, <2>3, <2>4 DEF next
<1>6. CASE e.type \notin {"BUY", "SELL", "SPLIT"}
    <2>1. next = paid
        BY <1>6 DEF Post, paid
    <2>2. \A c \in Currency : Posts(account, paid, e, c)
        BY <1>1, <1>6 DEF Posts
    <2> HIDE DEF next
    <2> QED BY <1>1, <2>1, <2>2 DEF next
<1> QED BY <1>3, <1>4, <1>5, <1>6

-----------------------------------------------------------------------------
(* A replay.                                                                 *)

\* The accounts of a replay, one after each event in the order o.
Posted(f, history, o) ==
    /\ f \in [0..Len(history) -> Account]
    /\ f[0] = EmptyAccount
    /\ \A n \in 1..Len(history) : \A c \in Currency :
          /\ f[n].cash[c] = f[n - 1].cash[c] + Moves(history[o[n]], c)
          /\ Posts(f[n - 1], f[n], history[o[n]], c)

KeysOf(p, history) == [i \in 1..Len(history) |-> SortKey(p, history[i].at)]

LEMMA ChronologyIs ==
    ASSUME NEW history \in Seq(LedgerRow), NEW p \in {Fifo, Legacy}
    PROVE  /\ Keyed(1..Len(history), KeysOf(p, history))
           /\ Ordered(1..Len(history), KeysOf(p, history), Len(history), Chronology(p, history))
<1> DEFINE N == Len(history)
           key == KeysOf(p, history)
<1>1. N \in Nat /\ DOMAIN history = 1..N /\ \A i \in 1..N : history[i] \in LedgerRow
    BY DomainOfSequence
<1>2. ASSUME NEW at \in Nat PROVE SortKey(p, at) \in Int
    <2>1. at \div 2 \in Int /\ at % 2 \in Int
        OBVIOUS
    <2>2. 2 * (at \div 2) + 1 - (at % 2) \in Int
        BY ONLY <2>1
    <2> QED BY <2>2 DEF SortKey
<1>3. Keyed(1..N, key)
    <2>1. \A i \in 1..N : history[i].at \in Nat
        BY <1>1 DEF LedgerRow
    <2>2. \A i \in 1..N : key[i] \in Int
        BY <1>2, <2>1 DEF KeysOf
    <2>3. IsFiniteSet(1..N) /\ 1..N \subseteq Nat
        BY <1>1, FS_Interval
    <2> QED BY <2>2, <2>3 DEF Keyed
<1>4. Chronology(p, history) = InOrder(1..N, key)
    BY <1>1 DEF Chronology, KeysOf
<1> HIDE DEF N, key
<1>5. Cardinality(1..N) = N
    BY <1>1, FS_Interval
<1> QED BY <1>3, <1>4, <1>5, InOrderOrdered DEF N, key

LEMMA EmptyIsAccount == EmptyAccount \in Account /\ EmptyAccount.ok
<1>1. <<>> \in Seq(Lot) /\ 0 \in Int
    OBVIOUS
<1> QED BY <1>1 DEF EmptyAccount, Account

\* A replay that does not fail posts every event.
LEMMA ReplayPosts ==
    ASSUME NEW history, IsLedger(history), NEW p \in {Fifo, Legacy}, Replay(p, history).ok
    PROVE  \E f : Posted(f, history, Chronology(p, history)) /\ Replay(p, history) = f[Len(history)]
<1> DEFINE N == Len(history)
           S == Account
           o == Chronology(p, history)
           Follows(f) == f = [n \in 0..N |-> IF n = 0 THEN EmptyAccount ELSE Post(f[n - 1], history[o[n]])]
           step == [n \in 1..N |-> [a \in S |-> Post(a, history[o[n]])]]
<1>1. /\ N \in Nat /\ EmptyAccount \in S
      /\ \A n \in 1..N : o[n] \in 1..N /\ history[o[n]] \in LedgerRow /\ IsCanonical(history[o[n]])
    <2>1. history \in Seq(LedgerRow)
        BY DEF IsLedger
    <2>2. N \in Nat /\ \A i \in 1..N : history[i] \in LedgerRow
        BY <2>1, DomainOfSequence
    <2>3. \A n \in 1..N : o[n] \in 1..N
        BY <2>1, ChronologyIs DEF Ordered
    <2> QED BY <2>2, <2>3, EmptyIsAccount DEF IsLedger
<1>2. \A a \in S : \A n \in 1..N : Post(a, history[o[n]]) \in S /\ (~a.ok => Post(a, history[o[n]]) = a)
    <2> SUFFICES ASSUME NEW a \in S, NEW n \in 1..N
                 PROVE  Post(a, history[o[n]]) \in S /\ (~a.ok => Post(a, history[o[n]]) = a)
        OBVIOUS
    <2>1. CASE a.ok
        BY <1>1, <2>1, PostIs
    <2>2. CASE ~a.ok
        BY <2>2 DEF Post
    <2> QED BY <2>1, <2>2
<1> HIDE DEF N, S, o
<1>3. \E f : f \in [0..N -> S] /\ Follows(f)
    <2>1. \A n \in 1..N : step[n] \in [S -> S]
        BY <1>2
    <2>2. \A n \in 1..N : \A a \in S : step[n][a] = Post(a, history[o[n]])
        OBVIOUS
    <2> HIDE DEF step
    <2>3. PICK f : Loops(S, N, EmptyAccount, step, f)
        BY <1>1, <2>1, LoopExists
    <2>4. \A n \in 1..N : n - 1 \in 0..N /\ f[n - 1] \in S
        BY <1>1, <2>3 DEF Loops
    <2>5. \A n \in 1..N : f[n] = Post(f[n - 1], history[o[n]])
        BY <2>2, <2>3, <2>4 DEF Loops
    <2>6. f \in [0..N -> S] /\ Follows(f)
        BY <1>1, <2>3, <2>5 DEF Loops
    <2> QED BY <2>6
<1>4. PICK f : Follows(f) /\ f = CHOOSE g : Follows(g)
    BY <1>3
<1>5. Replay(p, history) = f[N]
    BY <1>4 DEF Replay, N, o
<1>6. /\ f[0] = EmptyAccount
      /\ \A n \in 1..N : n - 1 \in 0..N /\ n \in 0..N /\ f[n] = Post(f[n - 1], history[o[n]])
    BY <1>1, <1>4
<1> HIDE DEF Follows
<1>7. \A n \in 0..N : f[n] \in S
    <2> DEFINE M == {n \in 0..N : f[n] \in S}
    <2>1. 0 \in M
        BY <1>1, <1>6
    <2>2. \A n \in 1..N : n - 1 \in M => n \in M
        BY <1>2, <1>6
    <2> HIDE DEF M
    <2>3. \A n \in 0..N : n \in M
        BY <1>1, <2>1, <2>2, Climb
    <2> QED BY <2>3 DEF M
<1>8. ASSUME NEW m \in 0..N PROVE f[m].ok
    <2>1. SUFFICES ASSUME ~f[m].ok PROVE FALSE
        OBVIOUS
    <2> DEFINE M == {n \in 0..N : n >= m => ~f[n].ok}
    <2>2. 0 \in M
        <3>1. 0 >= m => m = 0
            OBVIOUS
        <3>2. 0 \in 0..N
            BY <1>1
        <3> QED BY <2>1, <3>1, <3>2
    <2>3. ASSUME NEW n \in 1..N, n - 1 \in M PROVE n \in M
        <3>1. CASE n = m
            BY <1>6, <2>1, <3>1
        <3>2. CASE n > m
            <4>1. n - 1 >= m
                BY <3>2
            <4>2. ~f[n - 1].ok
                BY <2>3, <4>1
            <4>3. f[n] = f[n - 1]
                BY <1>2, <1>6, <1>7, <4>2
            <4> QED BY <1>6, <4>2, <4>3
        <3>3. CASE n < m
            BY <1>6, <3>3
        <3> QED BY <3>1, <3>2, <3>3
    <2> HIDE DEF M
    <2>4. \A n \in 0..N : n \in M
        BY <1>1, <2>2, <2>3, Climb
    <2>5. N \in M /\ N >= m
        BY <1>1, <2>4
    <2> QED BY <1>5, <2>5 DEF M
<1>9. ASSUME NEW n \in 1..N, NEW c \in Currency
      PROVE  /\ f[n].cash[c] = f[n - 1].cash[c] + Moves(history[o[n]], c)
             /\ Posts(f[n - 1], f[n], history[o[n]], c)
    <2>1. f[n - 1] \in Account /\ f[n - 1].ok /\ f[n].ok /\ f[n] = Post(f[n - 1], history[o[n]])
        BY <1>6, <1>7, <1>8 DEF S
    <2> QED BY <1>1, <2>1, PostIs
<1>10. f \in [0..N -> Account]
    <2>1. f = [n \in 0..N |-> f[n]]
        BY <1>4 DEF Follows
    <2> QED BY <1>7, <2>1 DEF S
<1>11. Posted(f, history, o)
    BY <1>6, <1>9, <1>10 DEF Posted, N
<1> QED BY <1>5, <1>11 DEF N, o

-----------------------------------------------------------------------------
(* No share is sold before it was bought.                                    *)

\* What an event does to the shares held in a currency.
Holds(held, e, c) ==
    IF e.currency # c THEN held
    ELSE CASE e.type = "BUY"    -> held + e.quantity
           [] e.type = "SELL"   -> held - e.quantity
           [] e.type = "SPLIT"  -> held * e.quantity
           [] OTHER             -> held

LEMMA PostsShares ==
    ASSUME NEW before \in Account, NEW after \in Account, NEW e \in LedgerRow, IsCanonical(e),
           NEW c \in Currency, Posts(before, after, e, c)
    PROVE  SharesIn(after.lots[c]) = Holds(SharesIn(before.lots[c]), e, c)
<1> DEFINE old == before.lots[c]
           new == after.lots[c]
<1>1. old \in Seq(Lot) /\ new \in Seq(Lot)
    BY DEF Account
<1>2. CASE e.currency # c \/ e.type \notin {"BUY", "SELL", "SPLIT"}
    <2>1. new = old
        BY <1>2 DEF Posts
    <2> HIDE DEF old
    <2>2. CASE e.currency # c
        <3>1. Holds(SharesIn(old), e, c) = SharesIn(old)
            BY <2>2 DEF Holds
        <3> QED BY <2>1, <3>1 DEF old
    <2>3. CASE e.currency = c
        <3>1. e.type # "BUY" /\ e.type # "SELL" /\ e.type # "SPLIT"
            BY <1>2, <2>3
        <3>2. Holds(SharesIn(old), e, c) = SharesIn(old)
            BY <2>3, <3>1 DEF Holds
        <3> QED BY <2>1, <3>2 DEF old
    <2> QED BY <2>2, <2>3
<1>3. CASE e.currency = c /\ e.type = "BUY"
    <2> DEFINE lot == [quantity |-> e.quantity, cost |-> e.quantity * e.price + e.fee]
    <2>1. lot \in Lot /\ lot.quantity = e.quantity
        BY <1>3, RowFacts DEF Lot
    <2>2. new = Append(old, lot)
        BY <1>3 DEF Posts
    <2> HIDE DEF lot
    <2>3. SharesIn(new) = SharesIn(old) + e.quantity
        BY <1>1, <2>1, <2>2, LotAdded
    <2>4. Holds(SharesIn(old), e, c) = SharesIn(old) + e.quantity
        BY <1>3 DEF Holds
    <2> QED BY <2>3, <2>4
<1>4. CASE e.currency = c /\ e.type = "SELL"
    <2>1. PICK sale : Balanced(sale, old, e.quantity) /\ sale.left = 0 /\ new = sale.kept
        BY <1>4 DEF Posts
    <2>2. SharesIn(new) + (e.quantity - 0) = SharesIn(old)
        BY <2>1 DEF Balanced
    <2>3. SharesIn(new) \in Int /\ e.quantity \in Int
        <3>1. SharesIn(new) \in Nat
            BY <1>1, SharesPositive
        <3>2. e.quantity \in Nat
            BY <1>4, RowFacts
        <3> QED BY <3>1, <3>2
    <2>4. SharesIn(new) = SharesIn(old) - e.quantity
        BY ONLY <2>2, <2>3
    <2>5. Holds(SharesIn(old), e, c) = SharesIn(old) - e.quantity
        BY <1>4 DEF Holds
    <2> QED BY <2>4, <2>5
<1>5. CASE e.currency = c /\ e.type = "SPLIT"
    <2>1. e.quantity \in Nat \ {0}
        BY <1>5, RowFacts
    <2>2. new = SplitLots(old, e.quantity)
        BY <1>5 DEF Posts
    <2>3. SharesIn(new) = SharesIn(old) * e.quantity
        BY <1>1, <2>1, <2>2, SplitIs
    <2>4. Holds(SharesIn(old), e, c) = SharesIn(old) * e.quantity
        BY <1>5 DEF Holds
    <2> QED BY <2>3, <2>4
<1> QED BY <1>2, <1>3, <1>4, <1>5

LEMMA NoneOversold == StoredInv => NeverOversold
<1> SUFFICES ASSUME StoredInv, policy = Fifo, NEW c \in Currency
             PROVE  LET byTime == InOrder(DOMAIN events, [i \in DOMAIN events |-> events[i].at])
                        held[n \in 0..Len(events)] ==
                          IF n = 0 THEN 0 ELSE Holds(held[n - 1], events[byTime[n]], c)
                    IN  \A n \in DOMAIN events : held[n] >= 0
    BY DEF NeverOversold, Holds
<1> DEFINE N == Len(events)
           byTime == InOrder(DOMAIN events, [i \in DOMAIN events |-> events[i].at])
           Follows(h) == h = [n \in 0..N |-> IF n = 0 THEN 0 ELSE Holds(h[n - 1], events[byTime[n]], c)]
<1>1. /\ IsLedger(events) /\ events \in Seq(LedgerRow) /\ DOMAIN events = 1..N /\ N \in Nat
      /\ \A i \in 1..N : events[i] \in LedgerRow /\ IsCanonical(events[i])
      /\ Replay(Fifo, events).ok
    <2>1. IsLedger(events) /\ events \in Seq(LedgerRow)
        BY DEF StoredInv, IsLedger
    <2>2. Replay(Fifo, events).ok
        BY <2>1, WholePrefix DEF StoredInv, Snapshot, Revision
    <2> QED BY <2>1, <2>2, DomainOfSequence DEF IsLedger
<1>2. byTime = Chronology(Fifo, events)
    BY DEF Chronology, SortKey
<1> HIDE DEF byTime, N
<1>3. PICK f : Posted(f, events, byTime)
    BY <1>1, <1>2, ReplayPosts
<1> DEFINE g == [n \in 0..N |-> SharesIn(f[n].lots[c])]
<1>4. /\ f[0] = EmptyAccount /\ \A n \in 0..N : f[n] \in Account
      /\ \A n \in 1..N : /\ n - 1 \in 0..N /\ n \in 0..N /\ byTime[n] \in 1..N
                         /\ Posts(f[n - 1], f[n], events[byTime[n]], c)
    <2>1. \A n \in 1..N : byTime[n] \in 1..N
        BY <1>1, <1>2, ChronologyIs DEF Ordered, N
    <2> QED BY <1>1, <1>3, <2>1 DEF Posted, N
<1>5. \A n \in 1..N : SharesIn(f[n].lots[c]) = Holds(SharesIn(f[n - 1].lots[c]), events[byTime[n]], c)
    BY <1>1, <1>4, PostsShares
<1>6. SharesIn(f[0].lots[c]) = 0
    BY <1>4, NoLots DEF EmptyAccount
<1>7. \E h : Follows(h)
    <2>1. Follows(g)
        BY <1>1, <1>4, <1>5, <1>6
    <2> QED BY <2>1
<1>8. PICK h : Follows(h) /\ h = CHOOSE k : Follows(k)
    BY <1>7
<1>9. /\ h[0] = 0
      /\ \A n \in 1..N : h[n] = Holds(h[n - 1], events[byTime[n]], c)
    BY <1>1, <1>4, <1>8
<1> DEFINE M == {n \in 0..N : h[n] = SharesIn(f[n].lots[c])}
<1>10. 0 \in M
    BY <1>1, <1>6, <1>9
<1>11. \A n \in 1..N : n - 1 \in M => n \in M
    BY <1>4, <1>5, <1>9
<1> HIDE DEF M
<1>12. \A n \in 0..N : n \in M
    BY <1>1, <1>10, <1>11, Climb
<1>13. ASSUME NEW n \in DOMAIN events PROVE h[n] >= 0
    <2>1. n \in 0..N /\ f[n].lots[c] \in Seq(Lot)
        BY <1>1, <1>4 DEF Account
    <2>2. h[n] = SharesIn(f[n].lots[c])
        BY <1>12, <2>1 DEF M
    <2>3. SharesIn(f[n].lots[c]) \in Nat
        BY <2>1, SharesPositive
    <2> QED BY <2>2, <2>3
<1> QED BY <1>8, <1>13 DEF byTime, N

-----------------------------------------------------------------------------
(* Sums over the order of a replay.                                          *)

\* What is added up in any order of the positions is their total.
LEMMA AddedInOrder ==
    ASSUME NEW N \in Nat, NEW key, NEW o, Ordered(1..N, key, N, o), Keyed(1..N, key),
           NEW v, \A i \in 1..N : v[i] \in Int,
           NEW g, g[0] = 0, \A n \in 1..N : g[n] = g[n - 1] + v[o[n]]
    PROVE  g[N] = Total(v, 1..N)
<1> DEFINE Seen(n) == {o[k] : k \in 1..n}
           M == {n \in 0..N : g[n] = Total(v, Seen(n))}
<1>1. ASSUME NEW n \in 0..N
      PROVE  Seen(n) \in SUBSET (1..N) /\ IsFiniteSet(Seen(n)) /\ \A i \in Seen(n) : v[i] \in Int
    <2>1. Seen(n) \in SUBSET (1..N)
        BY DEF Ordered
    <2>2. IsFiniteSet(1..N)
        BY FS_Interval
    <2> HIDE DEF Seen
    <2>3. IsFiniteSet(Seen(n))
        BY <2>1, <2>2, FS_Subset
    <2> QED BY <2>1, <2>3
<1>2. 0 \in M
    <2>1. Seen(0) = {}
        OBVIOUS
    <2>2. Total(v, {}) = 0
        BY FS_EmptySet, TotalLaws
    <2>3. 0 \in 0..N
        OBVIOUS
    <2> HIDE DEF Seen
    <2> QED BY <2>1, <2>2, <2>3
<1>3. ASSUME NEW n \in 1..N, n - 1 \in M PROVE n \in M
    <2>1. g[n - 1] = Total(v, Seen(n - 1)) /\ n - 1 \in 0..N /\ n \in 0..N
        BY <1>3
    <2>2. o[n] \in Seen(n)
        OBVIOUS
    <2>3. Seen(n) \ {o[n]} = Seen(n - 1)
        <3>1. ASSUME NEW i \in Seen(n), i # o[n] PROVE i \in Seen(n - 1)
            BY <3>1
        <3>2. ASSUME NEW k \in 1..(n - 1) PROVE o[k] # o[n] /\ o[k] \in Seen(n)
            <4>1. k \in 1..N /\ k < n /\ k \in 1..n
                OBVIOUS
            <4>2. Precedes(key, o[k], o[n])
                BY <4>1 DEF Ordered
            <4>3. o[n] \in 1..N
                BY DEF Ordered
            <4>4. ~Precedes(key, o[n], o[n])
                BY <4>3 DEF Precedes, Keyed
            <4> QED BY <4>1, <4>2, <4>4
        <3> QED BY <3>1, <3>2
    <2>4. Total(v, Seen(n)) = v[o[n]] + Total(v, Seen(n) \ {o[n]})
        <3> HIDE DEF Seen
        <3> QED BY <1>1, <2>1, <2>2, TotalLaws
    <2>5. Total(v, Seen(n - 1)) \in Int /\ v[o[n]] \in Int
        <3> HIDE DEF Seen
        <3> QED BY <1>1, <2>1, <2>2, TotalLaws
    <2> HIDE DEF Seen
    <2>6. g[n] = Total(v, Seen(n))
        <3> DEFINE a == Total(v, Seen(n - 1))
                   b == v[o[n]]
        <3>1. g[n] = g[n - 1] + v[o[n]]
            OBVIOUS
        <3>2. g[n] = a + b /\ Total(v, Seen(n)) = b + a
            BY <2>1, <2>3, <2>4, <3>1, Zenon
        <3>3. a \in Int /\ b \in Int
            BY <2>5
        <3> HIDE DEF a, b
        <3>4. a + b = b + a
            BY ONLY <3>3
        <3> QED BY <3>2, <3>4, Zenon
    <2> QED BY <2>1, <2>6
<1> HIDE DEF M
<1>4. N \in M
    <2>1. \A n \in 1..N : n - 1 \in M => n \in M
        BY <1>3
    <2>2. \A n \in 0..N : n \in M
        BY <1>2, <2>1, Climb
    <2> QED BY <2>2
<1>5. Seen(N) = 1..N
    BY DEF Ordered
<1> QED BY <1>4, <1>5 DEF M

\* Positions that count nothing do not matter.
LEMMA TotalOfPart ==
    ASSUME NEW S, IsFiniteSet(S), NEW T \in SUBSET S, NEW v, NEW amount,
           \A i \in T : amount[i] \in Int /\ v[i] = amount[i], \A i \in S \ T : v[i] = 0
    PROVE  Total(v, S) = Total(amount, T)
<1> DEFINE C == {U \in SUBSET (S \ T) : Total(v, T \cup U) = Total(amount, T)}
<1>1. IsFiniteSet(T) /\ IsFiniteSet(S \ T)
    BY FS_Subset
<1>2. Total(v, T) = Total(amount, T) /\ Total(amount, T) \in Int
    BY <1>1, SameTotal, TotalLaws
<1>3. {} \in C
    <2>1. T \cup {} = T
        OBVIOUS
    <2> QED BY <1>2, <2>1
<1>4. ASSUME NEW U \in C, NEW x \in (S \ T) \ U, U \subseteq S \ T PROVE U \cup {x} \in C
    <2> DEFINE more == T \cup (U \cup {x})
    <2>1. more \in SUBSET S /\ x \in more /\ more \ {x} = T \cup U
        OBVIOUS
    <2>2. v[x] = 0 /\ \A i \in S : v[i] \in Int
        OBVIOUS
    <2>3. Total(v, T \cup U) = Total(amount, T)
        OBVIOUS
    <2> HIDE DEF more
    <2>4. IsFiniteSet(more)
        BY <2>1, FS_Subset
    <2>5. Total(v, more) = v[x] + Total(v, more \ {x})
        BY <2>1, <2>2, <2>4, TotalLaws
    <2>6. Total(v, more) = Total(amount, T)
        <3>1. Total(v, more) = 0 + Total(amount, T)
            BY <2>1, <2>2, <2>3, <2>5, Zenon
        <3>2. \A i \in Int : 0 + i = i
            OBVIOUS
        <3> HIDE DEF C
        <3> QED BY <1>2, <3>1, <3>2
    <2> QED BY <2>6 DEF more
<1> HIDE DEF C
<1>5. S \ T \in C
    BY <1>1, <1>3, <1>4, FiniteInduction
<1>6. T \cup (S \ T) = S
    OBVIOUS
<1> QED BY <1>5, <1>6 DEF C

-----------------------------------------------------------------------------
(* Costs are conserved.                                                      *)

\* What a trade in the currency pays or earns.
Trades(e, c) == IF e.type \in TradeTypes /\ e.currency = c THEN e.amount ELSE 0

LEMMA PostsCosts ==
    ASSUME NEW before \in Account, NEW after \in Account, NEW e \in LedgerRow, IsCanonical(e),
           NEW c \in Currency, Posts(before, after, e, c)
    PROVE  after.realized[c] - CostIn(after.lots[c])
              = (before.realized[c] - CostIn(before.lots[c])) + Trades(e, c)
<1> DEFINE old == before.lots[c]
           new == after.lots[c]
           r == before.realized[c]
           s == after.realized[c]
<1>1. /\ old \in Seq(Lot) /\ new \in Seq(Lot) /\ r \in Int /\ s \in Int /\ e.amount \in Int
    BY RowFacts DEF Account
<1> HIDE DEF old, new, r, s
<1>2. CostIn(old) \in Int /\ CostIn(new) \in Int
    <2>1. PICK lot : lot = [quantity |-> 1, cost |-> 0]
        OBVIOUS
    <2>2. lot \in Lot
        BY <2>1 DEF Lot
    <2> QED BY <1>1, <2>2, LotAdded
<1>3. CASE e.currency # c \/ e.type \notin {"BUY", "SELL", "SPLIT"}
    <2>1. new = old /\ s = r
        BY <1>3 DEF Posts, old, new, r, s
    <2>2. Trades(e, c) = 0
        BY <1>3 DEF Trades, TradeTypes
    <2>3. r - CostIn(old) = (r - CostIn(old)) + 0
        BY ONLY <1>1, <1>2
    <2> QED BY <2>1, <2>2, <2>3 DEF old, new, r, s
<1>4. CASE e.currency = c /\ e.type = "BUY"
    <2> DEFINE cost == e.quantity * e.price + e.fee
               lot == [quantity |-> e.quantity, cost |-> cost]
    <2>1. cost \in Nat /\ e.amount = -cost /\ e.quantity \in Nat \ {0}
        BY <1>4, RowFacts
    <2>2. new = Append(old, lot) /\ s = r
        BY <1>4 DEF Posts, old, new, r, s
    <2> HIDE DEF cost
    <2>3. lot \in Lot /\ lot.cost = cost
        BY <2>1 DEF Lot
    <2> HIDE DEF lot
    <2>4. CostIn(new) = CostIn(old) + cost
        BY <1>1, <2>2, <2>3, LotAdded
    <2>5. Trades(e, c) = -cost
        BY <1>4, <2>1 DEF Trades, TradeTypes
    <2>6. r - (CostIn(old) + cost) = (r - CostIn(old)) + (-cost)
        BY ONLY <1>1, <1>2, <2>1
    <2> QED BY <2>2, <2>4, <2>5, <2>6 DEF old, new, r, s
<1>5. CASE e.currency = c /\ e.type = "SELL"
    <2>1. PICK sale : Balanced(sale, old, e.quantity) /\ new = sale.kept /\ s = r + e.amount - sale.cost
        BY <1>5 DEF Posts, old, new, r, s
    <2>2. CostIn(new) + sale.cost = CostIn(old) /\ sale.cost \in Nat
        BY <2>1 DEF Balanced, Sale
    <2>3. Trades(e, c) = e.amount
        BY <1>5 DEF Trades, TradeTypes
    <2>4. s - CostIn(new) = (r - CostIn(old)) + e.amount
        BY ONLY <1>1, <1>2, <2>1, <2>2
    <2> QED BY <2>3, <2>4 DEF old, new, r, s
<1>6. CASE e.currency = c /\ e.type = "SPLIT"
    <2>1. e.quantity \in Nat \ {0}
        BY <1>6, RowFacts
    <2>2. new = SplitLots(old, e.quantity) /\ s = r
        BY <1>6 DEF Posts, old, new, r, s
    <2>3. CostIn(new) = CostIn(old)
        BY <1>1, <2>1, <2>2, SplitIs
    <2>4. Trades(e, c) = 0
        BY <1>6 DEF Trades, TradeTypes
    <2>5. r - CostIn(old) = (r - CostIn(old)) + 0
        BY ONLY <1>1, <1>2
    <2> QED BY <2>2, <2>3, <2>4, <2>5 DEF old, new, r, s
<1> QED BY <1>3, <1>4, <1>5, <1>6

\* The stored events and the accounts of their replay.
LEMMA StoredReplay ==
    ASSUME StoredInv
    PROVE  /\ IsLedger(events) /\ events \in Seq(LedgerRow) /\ DOMAIN events = 1..Len(events)
           /\ Len(events) \in Nat
           /\ \A i \in 1..Len(events) : events[i] \in LedgerRow /\ IsCanonical(events[i])
           /\ Snapshot(policy, events, Revision) = Replay(policy, events)
           /\ \E f : /\ Posted(f, events, Chronology(policy, events))
                     /\ Replay(policy, events) = f[Len(events)]
<1>1. IsLedger(events) /\ events \in Seq(LedgerRow) /\ policy \in {Fifo, Legacy}
    BY DEF StoredInv, IsLedger
<1>2. Snapshot(policy, events, Revision) = Replay(policy, events)
    BY <1>1, WholePrefix DEF Snapshot, Revision
<1>3. Replay(policy, events).ok
    BY <1>2 DEF StoredInv
<1> QED BY <1>1, <1>2, <1>3, DomainOfSequence, ReplayPosts DEF IsLedger

LEMMA CostsConserved == StoredInv => CostIsConserved
<1> SUFFICES ASSUME StoredInv PROVE CostIsConserved
    OBVIOUS
<1> DEFINE N == Len(events)
           o == Chronology(policy, events)
           key == KeysOf(policy, events)
           portfolio == Snapshot(policy, events, Revision)
<1>1. PICK f : Posted(f, events, o) /\ portfolio = f[N]
    BY StoredReplay
<1>2. /\ events \in Seq(LedgerRow) /\ DOMAIN events = 1..N /\ N \in Nat
      /\ \A i \in 1..N : events[i] \in LedgerRow /\ IsCanonical(events[i])
    BY StoredReplay
<1>3. Keyed(1..N, key) /\ Ordered(1..N, key, N, o)
    BY <1>2, ChronologyIs DEF StoredInv
<1> HIDE DEF o, key, portfolio, N
<1>4. ASSUME NEW c \in Currency
      PROVE  /\ portfolio.realized[c] - CostIn(portfolio.lots[c])
                   = Total([i \in DOMAIN events |-> events[i].amount],
                           {i \in DOMAIN events : events[i].type \in TradeTypes /\ events[i].currency = c})
             /\ portfolio.lots[c] \in Seq(Lot)
    <2> DEFINE amount == [i \in DOMAIN events |-> events[i].amount]
               trades == {i \in DOMAIN events : events[i].type \in TradeTypes /\ events[i].currency = c}
               v == [i \in 1..N |-> Trades(events[i], c)]
               g == [n \in 0..N |-> f[n].realized[c] - CostIn(f[n].lots[c])]
    <2>1. /\ f[0] = EmptyAccount /\ \A n \in 0..N : f[n] \in Account
          /\ \A n \in 1..N : /\ n - 1 \in 0..N /\ n \in 0..N /\ o[n] \in 1..N
                             /\ Posts(f[n - 1], f[n], events[o[n]], c)
        <3>1. \A n \in 1..N : o[n] \in 1..N /\ n - 1 \in 0..N /\ n \in 0..N
            BY <1>2, <1>3 DEF Ordered
        <3>2. /\ f \in [0..N -> Account] /\ f[0] = EmptyAccount
              /\ \A n \in 1..N : Posts(f[n - 1], f[n], events[o[n]], c)
            BY <1>1 DEF Posted, N
        <3> HIDE DEF g, v, trades, amount
        <3> QED BY <3>1, <3>2
    <2>2. \A i \in 1..N : events[i].amount \in Int
        BY <1>2, RowFacts
    <2>3. \A i \in 1..N : v[i] \in Int
        BY <2>2 DEF Trades
    <2>4. g[0] = 0
        <3>1. f[0].realized[c] = 0 /\ CostIn(f[0].lots[c]) = 0
            BY <2>1, NoLots DEF EmptyAccount
        <3> QED BY <1>2, <3>1
    <2>5. ASSUME NEW n \in 1..N PROVE g[n] = g[n - 1] + v[o[n]]
        <3>1. /\ f[n - 1] \in Account /\ f[n] \in Account /\ events[o[n]] \in LedgerRow
              /\ IsCanonical(events[o[n]]) /\ Posts(f[n - 1], f[n], events[o[n]], c)
            BY <1>2, <2>1
        <3>2. f[n].realized[c] - CostIn(f[n].lots[c])
                 = (f[n - 1].realized[c] - CostIn(f[n - 1].lots[c])) + Trades(events[o[n]], c)
            BY <3>1, PostsCosts
        <3> QED BY <2>1, <3>2
    <2>6. N \in 0..N /\ IsFiniteSet(1..N) /\ trades \in SUBSET (1..N)
        BY <1>2, FS_Interval
    <2>7. \A i \in trades : amount[i] \in Int /\ v[i] = amount[i]
        BY <1>2, <2>2 DEF Trades
    <2>8. \A i \in (1..N) \ trades : v[i] = 0
        BY <1>2 DEF Trades
    <2>9. g[N] = f[N].realized[c] - CostIn(f[N].lots[c])
        BY <2>6
    <2> HIDE DEF g, v, trades, amount
    <2>10. g[N] = Total(v, 1..N)
        BY <1>2, <1>3, <2>3, <2>4, <2>5, AddedInOrder
    <2>11. Total(v, 1..N) = Total(amount, trades)
        <3> DEFINE S == 1..N
        <3>1. /\ IsFiniteSet(S) /\ trades \in SUBSET S
              /\ \A i \in trades : amount[i] \in Int /\ v[i] = amount[i]
              /\ \A i \in S \ trades : v[i] = 0
            BY <2>6, <2>7, <2>8
        <3> HIDE DEF S
        <3>2. Total(v, S) = Total(amount, trades)
            BY <3>1, TotalOfPart
        <3> QED BY <3>2 DEF S
    <2>12. f[N].lots[c] \in Seq(Lot)
        BY <2>1, <2>6 DEF Account
    <2> QED BY <1>1, <2>9, <2>10, <2>11, <2>12 DEF amount, trades
<1>5. ASSUME NEW c \in Currency, NEW lots, lots = portfolio.lots[c]
      PROVE  /\ Total([i \in DOMAIN lots |-> lots[i].cost], DOMAIN lots) = CostIn(portfolio.lots[c])
             /\ \A i \in DOMAIN lots : lots[i].cost >= 0
    <2>1. lots \in Seq(Lot)
        BY <1>4, <1>5
    <2>2. DOMAIN lots = 1..Len(lots)
        BY <2>1, DomainOfSequence
    <2>3. \A i \in 1..Len(lots) : lots[i].cost \in Nat
        BY <2>1, LotTypes
    <2>4. Total([i \in DOMAIN lots |-> lots[i].cost], DOMAIN lots) = CostIn(lots)
        BY <2>2, Zenon DEF CostIn, CostsOf
    <2> QED BY <1>5, <2>2, <2>3, <2>4
<1> QED BY <1>4, <1>5 DEF CostIsConserved, portfolio

-----------------------------------------------------------------------------
(* Voids cancel.                                                             *)

\* The first n rows that count: neither void nor voided by one of them.
Counted(history, n) ==
    {i \in 1..n : /\ history[i].type # "CASH_VOID"
                  /\ \A j \in 1..n : history[j].corrects # history[i].source}

\* What a ledger's rows say of one another.
LEMMA LedgerRows ==
    ASSUME NEW history, IsLedger(history), NEW n \in 1..Len(history)
    PROVE  /\ history[n] \in LedgerRow /\ IsCanonical(history[n]) /\ Len(history) \in Nat
           /\ \A i \in 1..(n - 1) : history[i].source # history[n].source
           /\ history[n].type = "CASH_VOID" =>
                 \A i \in 1..(n - 1) : history[i].corrects # history[n].corrects
<1> DEFINE h == SubSeq(history, 1, n - 1)
<1>1. history \in Seq(LedgerRow) /\ n - 1 \in 0..Len(history)
    BY DEF IsLedger
<1>2. /\ DOMAIN h = 1..(n - 1)
      /\ \A i \in 1..(n - 1) : h[i] = history[i]
    <2>1. h \in Seq(LedgerRow) /\ Len(h) = n - 1 /\ \A i \in 1..(n - 1) : h[i] = history[i]
        BY <1>1, FirstPart
    <2>2. DOMAIN h = 1..Len(h)
        BY <2>1, DomainOfSequence
    <2> QED BY <2>1, <2>2
<1>3. CanInsert(h, history[n])
    BY DEF IsLedger
<1> HIDE DEF h
<1>4. \A i \in 1..(n - 1) : history[i].source # history[n].source
    BY <1>2, <1>3 DEF CanInsert
<1>5. history[n].type = "CASH_VOID" => \A i \in 1..(n - 1) : history[i].corrects # history[n].corrects
    BY <1>2, <1>3 DEF CanInsert, IsVoided
<1> QED BY <1>1, <1>4, <1>5, DomainOfSequence DEF IsLedger

\* One row more counts, unless it is a void: then it takes out one row.
LEMMA CountedGrows ==
    ASSUME NEW history, IsLedger(history), NEW n \in 1..Len(history)
    PROVE  /\ history[n].type # "CASH_VOID" =>
                 /\ Counted(history, n) \ {n} = Counted(history, n - 1)
                 /\ n \in Counted(history, n)
           /\ history[n].type = "CASH_VOID" =>
                 \E t \in Counted(history, n - 1) :
                    /\ VoidReverses(history[t], history[n])
                    /\ Counted(history, n) = Counted(history, n - 1) \ {t}
<1>1. \A i \in 1..n : /\ history[i].source # ""
                      /\ (history[i].corrects # "") <=> (history[i].type = "CASH_VOID")
    <2>1. ASSUME NEW i \in 1..n
          PROVE  history[i].source # "" /\ ((history[i].corrects # "") <=> (history[i].type = "CASH_VOID"))
        <3>1. i \in 1..Len(history)
            BY LedgerRows
        <3> QED BY <3>1, LedgerRows, RowFacts
    <2> QED BY <2>1
<1>2. \A i, j \in 1..n : history[i].source = history[j].source => i = j
    <2>1. ASSUME NEW j \in 1..n, NEW i \in 1..(j - 1) PROVE history[i].source # history[j].source
        <3>1. j \in 1..Len(history)
            BY LedgerRows
        <3> QED BY <3>1, LedgerRows
    <2>2. \A i, j \in 1..n : i = j \/ i \in 1..(j - 1) \/ j \in 1..(i - 1)
        OBVIOUS
    <2> QED BY <2>1, <2>2
<1>3. \A i \in 1..n : i = n \/ i \in 1..(n - 1)
    OBVIOUS
<1>4. n \in 1..n /\ \A i \in 1..(n - 1) : i \in 1..n /\ i # n
    OBVIOUS
<1>5. CASE history[n].type # "CASH_VOID"
    <2>1. history[n].corrects = ""
        BY <1>1, <1>4, <1>5
    <2>2. ASSUME NEW j \in 1..n PROVE history[j].corrects # history[n].source
        <3>1. SUFFICES ASSUME history[j].corrects = history[n].source PROVE FALSE
            OBVIOUS
        <3>0. j \in 1..Len(history)
            BY LedgerRows
        <3>2. history[j].type = "CASH_VOID" /\ j \in 1..Len(history) /\ j # n
            BY <1>1, <1>4, <1>5, <3>0, <3>1, Zenon
        <3>3. PICK t \in 1..(j - 1) : history[t].source = history[j].corrects
            BY <3>2, LedgerVoids
        <3>4. t \in 1..n /\ t # n
            BY <3>3
        <3> QED BY <1>2, <1>4, <3>1, <3>3, <3>4
    <2>3. n \in Counted(history, n)
        BY <1>4, <1>5, <2>2 DEF Counted
    <2>4. ASSUME NEW i \in 1..(n - 1) PROVE i \in Counted(history, n) <=> i \in Counted(history, n - 1)
        <3>1. history[n].corrects # history[i].source
            BY <1>1, <1>4, <2>1
        <3> QED BY <1>3, <1>4, <3>1 DEF Counted
    <2>5. \A i : i \in Counted(history, n) => i \in 1..n
        BY DEF Counted
    <2>6. \A i : i \in Counted(history, n - 1) => i \in 1..(n - 1)
        BY DEF Counted
    <2> QED BY <1>3, <1>4, <1>5, <2>3, <2>4, <2>5, <2>6
<1>6. CASE history[n].type = "CASH_VOID"
    <2>1. PICK t \in 1..(n - 1) : /\ history[t].source = history[n].corrects
                                  /\ VoidReverses(history[t], history[n])
        BY <1>6, LedgerVoids
    <2>2. t \in Counted(history, n - 1)
        <3>1. history[t].type # "CASH_VOID"
            BY <2>1 DEF VoidReverses, CashTypes
        <3>2. \A j \in 1..(n - 1) : history[j].corrects # history[n].corrects
            BY <1>6, LedgerRows
        <3> QED BY <2>1, <3>1, <3>2 DEF Counted
    <2>3. ASSUME NEW i \in 1..(n - 1)
          PROVE  i \in Counted(history, n) <=> i \in Counted(history, n - 1) /\ i # t
        <3>1. history[n].corrects = history[i].source <=> i = t
            BY <1>2, <1>4, <2>1
        <3> QED BY <1>3, <1>4, <3>1 DEF Counted
    <2>4. n \notin Counted(history, n)
        BY <1>6 DEF Counted
    <2>5. \A i : i \in Counted(history, n) => i \in 1..n
        BY DEF Counted
    <2>6. \A i : i \in Counted(history, n - 1) => i \in 1..(n - 1)
        BY DEF Counted
    <2>7. Counted(history, n) = Counted(history, n - 1) \ {t}
        BY <1>3, <2>3, <2>4, <2>5, <2>6
    <2> QED BY <1>6, <2>1, <2>2, <2>7
<1> QED BY <1>5, <1>6

LEMMA MovesTyped ==
    ASSUME NEW e \in LedgerRow, IsCanonical(e), NEW c \in Currency
    PROVE  /\ Moves(e, c) \in Int
           /\ e.type # "FX_EXCHANGE" => Moves(e, c) = IF e.currency = c THEN e.amount ELSE 0
<1>1. e.amount \in Int /\ e.counterAmount \in Int
    BY DEF LedgerRow
<1>2. e.type # "FX_EXCHANGE" => e.counter # c
    BY RowFacts
<1>3. \A i \in Int : i + 0 = i
    OBVIOUS
<1> QED BY <1>1, <1>2, <1>3 DEF Moves

\* The total of all rows is that of those that count.
LEMMA CountedTotal ==
    ASSUME NEW history, IsLedger(history), NEW c \in Currency, NEW v,
           \A i \in 1..Len(history) : v[i] = Moves(history[i], c)
    PROVE  Total(v, 1..Len(history)) = Total(v, Counted(history, Len(history)))
<1> DEFINE N == Len(history)
           M == {n \in 0..N : Total(v, 1..n) = Total(v, Counted(history, n))}
<1>1. /\ N \in Nat
      /\ \A i \in 1..N : history[i] \in LedgerRow /\ IsCanonical(history[i]) /\ v[i] \in Int
    <2>1. N \in Nat /\ \A i \in 1..N : history[i] \in LedgerRow /\ IsCanonical(history[i])
        BY DomainOfSequence DEF IsLedger
    <2> QED BY <2>1, MovesTyped
<1>2. ASSUME NEW n \in 0..N
      PROVE  /\ IsFiniteSet(1..n) /\ IsFiniteSet(Counted(history, n))
             /\ \A i \in 1..n : v[i] \in Int
             /\ \A i \in Counted(history, n) : i \in 1..n
    <2>1. IsFiniteSet(1..n) /\ Counted(history, n) \in SUBSET (1..n)
        BY FS_Interval DEF Counted
    <2>2. \A i \in 1..n : i \in 1..N
        BY <1>1
    <2> QED BY <1>1, <2>1, <2>2, FS_Subset
<1>3. 0 \in M
    <2>1. 1..0 = {} /\ Counted(history, 0) = {} /\ 0 \in 0..N
        BY <1>1 DEF Counted
    <2> QED BY <2>1
<1>4. ASSUME NEW n \in 1..N, n - 1 \in M PROVE n \in M
    <2>1. /\ Total(v, 1..(n - 1)) = Total(v, Counted(history, n - 1))
          /\ n - 1 \in 0..N /\ n \in 0..N /\ n \in 1..n /\ (1..n) \ {n} = 1..(n - 1)
        BY <1>1, <1>4
    <2>2. Total(v, 1..n) = v[n] + Total(v, 1..(n - 1)) /\ v[n] \in Int
        <3>1. IsFiniteSet(1..n) /\ \A i \in 1..n : v[i] \in Int
            BY <1>2, <2>1
        <3>2. Total(v, 1..n) = v[n] + Total(v, (1..n) \ {n})
            BY <2>1, <3>1, TotalLaws, Zenon
        <3> QED BY <2>1, <3>1, <3>2, Zenon
    <2>3. Total(v, Counted(history, n)) \in Int /\ Total(v, Counted(history, n - 1)) \in Int
        BY <1>2, <2>1, TotalLaws
    <2>4. CASE history[n].type # "CASH_VOID"
        <3>1. Counted(history, n) \ {n} = Counted(history, n - 1) /\ n \in Counted(history, n)
            BY <2>4, CountedGrows
        <3>2. Total(v, Counted(history, n)) = v[n] + Total(v, Counted(history, n) \ {n})
            BY <1>2, <2>1, <3>1, TotalLaws
        <3> QED BY <2>1, <2>2, <3>1, <3>2
    <2>5. CASE history[n].type = "CASH_VOID"
        <3>1. PICK t \in Counted(history, n - 1) :
                 /\ VoidReverses(history[t], history[n])
                 /\ Counted(history, n) = Counted(history, n - 1) \ {t}
            BY <2>5, CountedGrows
        <3>2. Total(v, Counted(history, n - 1)) = v[t] + Total(v, Counted(history, n - 1) \ {t})
            BY <1>2, <2>1, <3>1, TotalLaws
        <3>3. t \in 1..N /\ v[t] \in Int
            BY <1>1, <1>2, <2>1, <3>1
        <3>4. v[t] + v[n] = 0
            <4>1. /\ history[t].type # "FX_EXCHANGE" /\ history[n].type # "FX_EXCHANGE"
                  /\ history[t].currency = history[n].currency
                  /\ history[t].amount + history[n].amount = 0
                BY <2>5, <3>1 DEF VoidReverses, CashTypes
            <4>2. /\ v[t] = IF history[t].currency = c THEN history[t].amount ELSE 0
                  /\ v[n] = IF history[n].currency = c THEN history[n].amount ELSE 0
                BY <1>1, <3>3, <4>1, MovesTyped
            <4> QED BY <4>1, <4>2
        <3>5. Total(v, 1..n) = v[n] + (v[t] + Total(v, Counted(history, n)))
            BY <2>1, <2>2, <3>1, <3>2, Zenon
        <3> DEFINE a == Total(v, 1..n)
                   b == Total(v, Counted(history, n))
        <3>6. a = b
            <4>1. a = v[n] + (v[t] + b) /\ b \in Int /\ v[t] \in Int /\ v[n] \in Int /\ v[t] + v[n] = 0
                BY <2>2, <2>3, <3>3, <3>4, <3>5
            <4> HIDE DEF a, b
            <4> QED BY ONLY <4>1
        <3> QED BY <2>1, <3>6
    <2> QED BY <2>4, <2>5
<1> HIDE DEF M
<1>5. N \in M
    <2>1. \A n \in 1..N : n - 1 \in M => n \in M
        BY <1>4
    <2>2. \A n \in 0..N : n \in M
        BY <1>1, <1>3, <2>1, Climb
    <2> QED BY <1>1, <2>2
<1> QED BY <1>5 DEF M

LEMMA VoidsCanceled == StoredInv => VoidsCancel
<1> SUFFICES ASSUME StoredInv PROVE VoidsCancel
    OBVIOUS
<1> DEFINE N == Len(events)
           o == Chronology(policy, events)
           key == KeysOf(policy, events)
           portfolio == Snapshot(policy, events, Revision)
<1>1. PICK f : Posted(f, events, o) /\ portfolio = f[N]
    BY StoredReplay
<1>2. /\ IsLedger(events) /\ events \in Seq(LedgerRow) /\ DOMAIN events = 1..N /\ N \in Nat
      /\ \A i \in 1..N : events[i] \in LedgerRow /\ IsCanonical(events[i])
    BY StoredReplay
<1>3. Keyed(1..N, key) /\ Ordered(1..N, key, N, o)
    BY <1>2, ChronologyIs DEF StoredInv
<1> HIDE DEF o, key, portfolio
<1>4. ASSUME NEW c \in Currency
      PROVE  portfolio.cash[c] = Total([i \in DOMAIN events |-> Moves(events[i], c)],
                                       {i \in DOMAIN events : events[i].type # "CASH_VOID"
                                                              /\ ~IsVoided(events, events[i].source)})
    <2> DEFINE v == [i \in DOMAIN events |-> Moves(events[i], c)]
               counted == {i \in DOMAIN events : events[i].type # "CASH_VOID"
                                                 /\ ~IsVoided(events, events[i].source)}
               g == [n \in 0..N |-> f[n].cash[c]]
    <2>1. \A i \in 1..N : v[i] = Moves(events[i], c) /\ v[i] \in Int
        BY <1>2, MovesTyped
    <2>2. g[0] = 0 /\ g[N] = f[N].cash[c]
        BY <1>1, <1>2 DEF Posted, EmptyAccount
    <2>3. ASSUME NEW n \in 1..N PROVE g[n] = g[n - 1] + v[o[n]]
        <3>1. o[n] \in 1..N /\ n - 1 \in 0..N /\ n \in 0..N
            BY <1>2, <1>3 DEF Ordered
        <3>2. f[n].cash[c] = f[n - 1].cash[c] + Moves(events[o[n]], c)
            BY <1>1 DEF Posted
        <3> QED BY <2>1, <3>1, <3>2
    <2>4. counted = Counted(events, N)
        BY <1>2 DEF Counted, IsVoided
    <2> HIDE DEF v, counted, g
    <2>5. g[N] = Total(v, 1..N)
        <3> HIDE DEF N
        <3> QED BY <1>2, <1>3, <2>1, <2>2, <2>3, AddedInOrder
    <2>6. Total(v, 1..N) = Total(v, Counted(events, N))
        BY <1>2, <2>1, CountedTotal
    <2> QED BY <1>1, <2>2, <2>4, <2>5, <2>6 DEF v, counted
<1> QED BY <1>4 DEF VoidsCancel, portfolio, Moves

-----------------------------------------------------------------------------
(* The newest remain.                                                        *)

\* The lots are the last purchases of b, the first of them perhaps in part.
Remain(lots, history, b) ==
    /\ Len(lots) <= Len(b)
    /\ \A k \in 1..Len(lots) :
          /\ lots[k].quantity <= history[b[Len(b) - Len(lots) + k]].quantity
          /\ k > 1 => lots[k].quantity = history[b[Len(b) - Len(lots) + k]].quantity

\* A purchase is the newest of all.
LEMMA BuyRemains ==
    ASSUME NEW lots \in Seq(Lot), NEW history, NEW b \in Seq(Nat), Remain(lots, history, b),
           NEW i \in Nat, NEW lot \in Lot, lot.quantity = history[i].quantity
    PROVE  Remain(Append(lots, lot), history, Append(b, i))
<1> DEFINE L == Len(lots)
           B == Len(b)
           more == Append(lots, lot)
           bs == Append(b, i)
<1>1. /\ L \in Nat /\ Len(more) = L + 1 /\ \A k \in 1..L : more[k] = lots[k]
      /\ more[L + 1] = lot
    BY Appends
<1>2. /\ B \in Nat /\ Len(bs) = B + 1 /\ \A k \in 1..B : bs[k] = b[k]
      /\ bs[B + 1] = i
    BY Appends
<1>3. L <= B /\ \A k \in 1..L : /\ lots[k].quantity <= history[b[B - L + k]].quantity
                                /\ k > 1 => lots[k].quantity = history[b[B - L + k]].quantity
    BY DEF Remain
<1>4. lot.quantity \in Int /\ lot.quantity <= history[i].quantity
    BY DEF Lot
<1> HIDE DEF L, B, more, bs
<1>5. (B + 1) - (L + 1) = B - L
    BY <1>1, <1>2
<1>6. ASSUME NEW k \in 1..(L + 1)
      PROVE  /\ more[k].quantity <= history[bs[B - L + k]].quantity
             /\ k > 1 => more[k].quantity = history[bs[B - L + k]].quantity
    <2>1. CASE k \in 1..L
        <3>1. B - L + k \in 1..B
            BY <1>1, <1>2, <1>3, <2>1
        <3>2. more[k] = lots[k] /\ bs[B - L + k] = b[B - L + k]
            BY <1>1, <1>2, <2>1, <3>1
        <3> QED BY <1>3, <2>1, <3>2
    <2>2. CASE k = L + 1
        <3>1. B - L + k = B + 1
            BY <1>1, <1>2, <2>2
        <3>2. more[k] = lot /\ bs[B - L + k] = i
            BY <1>1, <1>2, <2>2, <3>1
        <3> QED BY <1>4, <3>2
    <2>3. k \in 1..L \/ k = L + 1
        BY <1>1
    <2> QED BY <2>1, <2>2, <2>3
<1>7. L + 1 <= B + 1
    BY <1>1, <1>2, <1>3
<1>8. Remain(more, history, bs)
    BY <1>1, <1>2, <1>5, <1>6, <1>7 DEF Remain
<1> QED BY <1>8 DEF more, bs

\* What a sale keeps are the newest of what there was.
LEMMA SaleRemains ==
    ASSUME NEW lots \in Seq(Lot), NEW history, NEW b \in Seq(Nat), Remain(lots, history, b),
           NEW kept \in Seq(Lot), KeptOf(kept, lots),
           \A k \in 1..Len(b) : history[b[k]].quantity \in Int
    PROVE  Remain(kept, history, b)
<1> DEFINE L == Len(lots)
           B == Len(b)
           K == Len(kept)
<1>1. L \in Nat /\ B \in Nat /\ K \in Nat
    OBVIOUS
<1>2. K <= L /\ \A k \in 1..K : /\ kept[k].quantity <= lots[L - K + k].quantity
                                /\ k > 1 => kept[k] = lots[L - K + k]
    BY DEF KeptOf
<1>3. L <= B /\ \A k \in 1..L : /\ lots[k].quantity <= history[b[B - L + k]].quantity
                                /\ k > 1 => lots[k].quantity = history[b[B - L + k]].quantity
    BY DEF Remain
<1>4. /\ \A k \in 1..K : kept[k].quantity \in Nat
      /\ \A k \in 1..L : lots[k].quantity \in Nat
    BY LotTypes
<1>5. \A k \in 1..B : history[b[k]].quantity \in Int
    OBVIOUS
<1> HIDE DEF L, B, K
<1>6. ASSUME NEW k \in 1..K
      PROVE  /\ kept[k].quantity <= history[b[B - K + k]].quantity
             /\ k > 1 => kept[k].quantity = history[b[B - K + k]].quantity
    <2> DEFINE l == L - K + k
    <2>1. l \in 1..L /\ B - L + l = B - K + k /\ (k > 1 => l > 1) /\ B - K + k \in 1..B
        BY <1>1, <1>2, <1>3
    <2>2. /\ kept[k].quantity <= lots[l].quantity
          /\ k > 1 => kept[k] = lots[l]
        BY <1>2
    <2> HIDE DEF l
    <2>3. /\ lots[l].quantity <= history[b[B - K + k]].quantity
          /\ l > 1 => lots[l].quantity = history[b[B - K + k]].quantity
        <3>1. /\ lots[l].quantity <= history[b[B - L + l]].quantity
              /\ l > 1 => lots[l].quantity = history[b[B - L + l]].quantity
            BY <1>3, <2>1
        <3> QED BY <2>1, <3>1
    <2>4. kept[k].quantity \in Int /\ lots[l].quantity \in Int /\ history[b[B - K + k]].quantity \in Int
        BY <1>4, <1>5, <2>1
    <2>5. kept[k].quantity <= history[b[B - K + k]].quantity
        BY <2>2, <2>3, <2>4
    <2> QED BY <2>1, <2>2, <2>3, <2>5
<1>7. K <= B
    BY <1>1, <1>2, <1>3
<1> QED BY <1>6, <1>7 DEF Remain, K, B

\* One position more, after all others.
LEMMA OrderGrows ==
    ASSUME NEW S, NEW key, NEW b \in Seq(Nat), Ordered(S, key, Len(b), b), NEW i \in Nat, i \notin S,
           \A j \in S : Precedes(key, j, i)
    PROVE  Ordered(S \cup {i}, key, Len(Append(b, i)), Append(b, i)) /\ Append(b, i) \in Seq(Nat)
<1> DEFINE B == Len(b)
           bs == Append(b, i)
<1>1. /\ B \in Nat /\ Len(bs) = B + 1 /\ bs \in Seq(Nat) /\ \A k \in 1..B : bs[k] = b[k]
      /\ bs[B + 1] = i
    BY Appends
<1>2. /\ \A k \in 1..B : b[k] \in S
      /\ \A j \in S : \E k \in 1..B : b[k] = j
      /\ \A k, l \in 1..B : k < l => Precedes(key, b[k], b[l])
    BY DEF Ordered
<1> HIDE DEF B, bs
<1>3. \A k \in 1..(B + 1) : k \in 1..B \/ k = B + 1
    BY <1>1
<1>4. \A k \in 1..B : k \in 1..(B + 1) /\ k < B + 1
    BY <1>1
<1>5. bs = [k \in 1..(B + 1) |-> bs[k]] /\ B + 1 \in 1..(B + 1)
    BY <1>1
<1>6. \A k \in 1..(B + 1) : bs[k] \in S \cup {i}
    BY <1>1, <1>2, <1>3
<1>7. bs \in [1..(B + 1) -> S \cup {i}]
    BY <1>5, <1>6
<1>8. ASSUME NEW j \in S \cup {i} PROVE \E k \in 1..(B + 1) : bs[k] = j
    <2>1. CASE j = i
        BY <1>1, <1>5, <2>1
    <2>2. CASE j \in S
        <3>1. PICK k \in 1..B : b[k] = j
            BY <1>2, <2>2
        <3> QED BY <1>1, <1>4, <3>1
    <2> QED BY <2>1, <2>2
<1>9. ASSUME NEW k \in 1..(B + 1), NEW l \in 1..(B + 1), k < l PROVE Precedes(key, bs[k], bs[l])
    <2>1. k \in 1..B
        BY <1>1, <1>9
    <2>2. CASE l \in 1..B
        BY <1>1, <1>2, <1>9, <2>1, <2>2
    <2>3. CASE l = B + 1
        <3>1. bs[l] = i /\ bs[k] = b[k] /\ b[k] \in S
            BY <1>1, <1>2, <2>1, <2>3
        <3> QED BY <3>1
    <2> QED BY <1>3, <2>2, <2>3
<1>10. Ordered(S \cup {i}, key, Len(bs), bs)
    BY <1>1, <1>7, <1>8, <1>9 DEF Ordered
<1> QED BY <1>1, <1>10 DEF bs

\* The lots are the last of the purchases, the first of them perhaps in part.
NewestLots(lots, buys) ==
    LET skipped == Len(buys) - Len(lots)
    IN  /\ skipped >= 0
        /\ \A k \in DOMAIN lots :
            /\ lots[k].quantity <= events[buys[skipped + k]].quantity
            /\ k > 1 => lots[k].quantity = events[buys[skipped + k]].quantity

LEMMA NewestOf ==
    ASSUME StoredInv, policy = Fifo, \A i \in DOMAIN events : events[i].type # "SPLIT",
           NEW c \in Currency,
           NEW S, S = {i \in DOMAIN events : events[i].type = "BUY" /\ events[i].currency = c},
           NEW key, key = [i \in S |-> events[i].at],
           NEW lots, lots = Snapshot(Fifo, events, Revision).lots[c]
    PROVE  NewestLots(lots, InOrder(S, key))
<1> DEFINE N == Len(events)
           o == Chronology(Fifo, events)
<1>1. PICK f : Posted(f, events, o) /\ lots = f[N].lots[c]
    BY StoredReplay
<1>2. /\ events \in Seq(LedgerRow) /\ DOMAIN events = 1..N /\ N \in Nat
      /\ \A i \in 1..N : events[i] \in LedgerRow /\ IsCanonical(events[i])
    BY StoredReplay
<1>3. Keyed(1..N, KeysOf(Fifo, events)) /\ Ordered(1..N, KeysOf(Fifo, events), N, o)
    BY <1>2, ChronologyIs
<1>4. /\ S \subseteq 1..N /\ IsFiniteSet(S) /\ Keyed(S, key)
      /\ \A i \in S : key[i] = KeysOf(Fifo, events)[i]
    <2>1. S \subseteq 1..N
        BY <1>2
    <2>2. IsFiniteSet(S)
        <3>1. IsFiniteSet(1..N)
            BY <1>3 DEF Keyed
        <3> HIDE DEF N
        <3> QED BY <2>1, <3>1, FS_Subset
    <2>3. \A i \in S : key[i] = KeysOf(Fifo, events)[i]
        BY <2>1 DEF KeysOf, SortKey
    <2> QED BY <1>3, <2>1, <2>2, <2>3 DEF Keyed
<1> HIDE DEF o, N
<1> DEFINE Bought(n) == {o[k] : k \in 1..n} \cap S
           Fits(n, b) == /\ b \in Seq(Nat) /\ Ordered(Bought(n), key, Len(b), b)
                         /\ Remain(f[n].lots[c], events, b)
           M == {n \in 0..N : \E b : Fits(n, b)}
<1>5. /\ f[0] = EmptyAccount /\ \A n \in 0..N : f[n] \in Account
      /\ \A n \in 1..N : /\ n - 1 \in 0..N /\ n \in 0..N /\ o[n] \in 1..N
                         /\ Posts(f[n - 1], f[n], events[o[n]], c)
    <2>1. \A n \in 1..N : o[n] \in 1..N /\ n - 1 \in 0..N /\ n \in 0..N
        BY <1>2, <1>3 DEF Ordered
    <2>2. /\ f \in [0..N -> Account] /\ f[0] = EmptyAccount
          /\ \A n \in 1..N : Posts(f[n - 1], f[n], events[o[n]], c)
        BY <1>1 DEF Posted, N
    <2> QED BY <2>1, <2>2
<1>6. 0 \in M
    <2>1. Bought(0) = {}
        OBVIOUS
    <2>2. <<>> \in Seq(Nat) /\ Len(<<>>) = 0 /\ Ordered({}, key, 0, <<>>)
        BY DEF Ordered
    <2>3. f[0].lots[c] = <<>>
        BY <1>5 DEF EmptyAccount
    <2>4. Remain(f[0].lots[c], events, <<>>)
        BY <2>2, <2>3 DEF Remain
    <2>5. Fits(0, <<>>)
        BY <2>1, <2>2, <2>4
    <2> HIDE DEF Fits
    <2> QED BY <1>2, <2>5
<1>7. ASSUME NEW n \in 1..N, n - 1 \in M PROVE n \in M
    <2> DEFINE e == events[o[n]]
               old == f[n - 1].lots[c]
               new == f[n].lots[c]
    <2>1. PICK b : Fits(n - 1, b)
        BY <1>7
    <2>2. /\ old \in Seq(Lot) /\ new \in Seq(Lot) /\ e \in LedgerRow /\ IsCanonical(e)
          /\ Posts(f[n - 1], f[n], e, c) /\ e.type # "SPLIT" /\ n \in 0..N /\ n - 1 \in 0..N
        BY <1>2, <1>5 DEF Account
    <2>3. \A k \in 1..n : k = n \/ k \in 1..(n - 1)
        OBVIOUS
    <2>4. \A k \in 1..(n - 1) : k \in 1..n /\ k \in 1..N /\ k < n
        BY <1>2
    <2>5. o[n] \in S <=> e.type = "BUY" /\ e.currency = c
        BY <1>2, <1>5
    <2>6. CASE e.type = "BUY" /\ e.currency = c
        <3> DEFINE lot == [quantity |-> e.quantity, cost |-> e.quantity * e.price + e.fee]
        <3>1. lot \in Lot /\ lot.quantity = e.quantity
            BY <2>2, <2>6, RowFacts DEF Lot
        <3>2. new = Append(old, lot)
            BY <2>2, <2>6 DEF Posts
        <3> HIDE DEF lot
        <3>3. Remain(new, events, Append(b, o[n]))
            <4>1. b \in Seq(Nat) /\ Remain(old, events, b) /\ o[n] \in Nat
                BY <1>2, <1>5, <2>1
            <4> HIDE DEF old, new, Fits
            <4> QED BY <2>2, <3>1, <3>2, <4>1, BuyRemains
        <3>4. Bought(n) = Bought(n - 1) \cup {o[n]}
            BY <2>3, <2>4, <2>5, <2>6
        <3>5. ASSUME NEW j \in Bought(n - 1) PROVE Precedes(key, j, o[n])
            <4>1. PICK k \in 1..(n - 1) : j = o[k]
                OBVIOUS
            <4>2. Precedes(KeysOf(Fifo, events), o[k], o[n])
                BY <1>3, <2>4, <4>1 DEF Ordered
            <4>3. j \in S /\ o[n] \in S
                BY <2>5, <2>6
            <4> QED BY <1>4, <4>1, <4>2, <4>3 DEF Precedes
        <3>6. o[n] \notin Bought(n - 1)
            <4>1. o[n] \in S /\ o[n] \in Nat /\ key[o[n]] \in Int
                BY <1>4, <2>5, <2>6 DEF Keyed
            <4>2. ~Precedes(key, o[n], o[n])
                BY <4>1 DEF Precedes
            <4> QED BY <3>5, <4>2
        <3>7. Ordered(Bought(n - 1), key, Len(b), b) /\ b \in Seq(Nat) /\ o[n] \in Nat
            BY <1>2, <1>5, <2>1
        <3>8. Ordered(Bought(n), key, Len(Append(b, o[n])), Append(b, o[n])) /\ Append(b, o[n]) \in Seq(Nat)
            <4> HIDE DEF Bought
            <4> QED BY <3>4, <3>5, <3>6, <3>7, OrderGrows
        <3>9. Fits(n, Append(b, o[n]))
            BY <3>3, <3>8
        <3> HIDE DEF Fits
        <3> QED BY <2>2, <3>9
    <2>7. CASE ~(e.type = "BUY" /\ e.currency = c)
        <3>1. Bought(n) = Bought(n - 1)
            BY <2>3, <2>4, <2>5, <2>7
        <3>2. b \in Seq(Nat) /\ Ordered(Bought(n - 1), key, Len(b), b) /\ Remain(old, events, b)
            BY <2>1
        <3>3. Remain(new, events, b)
            <4>1. CASE e.currency = c /\ e.type = "SELL"
                <5>1. KeptOf(new, old)
                    BY <2>2, <4>1 DEF Posts, Balanced
                <5>2. \A k \in 1..Len(b) : events[b[k]].quantity \in Int
                    <6>1. \A k \in 1..Len(b) : b[k] \in 1..N
                        BY <1>4, <3>2 DEF Ordered
                    <6> QED BY <1>2, <6>1 DEF LedgerRow
                <5> HIDE DEF old, new, Fits, Bought
                <5> QED BY <2>2, <3>2, <5>1, <5>2, SaleRemains
            <4>2. CASE ~(e.currency = c /\ e.type = "SELL")
                <5>1. new = old
                    BY <2>2, <2>7, <4>2 DEF Posts
                <5> QED BY <3>2, <5>1
            <4> QED BY <4>1, <4>2
        <3>4. Fits(n, b)
            BY <3>1, <3>2, <3>3
        <3> HIDE DEF Fits
        <3> QED BY <2>2, <3>4
    <2> QED BY <2>6, <2>7
<1> HIDE DEF M
<1>8. N \in M
    <2>1. \A n \in 1..N : n - 1 \in M => n \in M
        BY <1>7
    <2>2. \A n \in 0..N : n \in M
        BY <1>2, <1>6, <2>1, Climb
    <2> QED BY <1>2, <2>2
<1>9. PICK b : b \in Seq(Nat) /\ Ordered(Bought(N), key, Len(b), b) /\ Remain(lots, events, b)
    BY <1>1, <1>8 DEF M
<1>10. Bought(N) = S
    BY <1>3, <1>4 DEF Ordered
<1>11. b = InOrder(S, key)
    <2>1. Ordered(S, key, Len(b), b) /\ Len(b) \in Nat
        <3>1. b \in Seq(Nat) /\ Ordered(Bought(N), key, Len(b), b)
            BY <1>9
        <3> HIDE DEF Bought
        <3>2. Len(b) \in Nat
            BY <3>1
        <3> QED BY <1>10, <3>1, <3>2, Zenon
    <2> HIDE DEF Bought
    <2> QED BY <1>4, <2>1, OneOrder
<1>12. lots \in Seq(Lot) /\ DOMAIN lots = 1..Len(lots) /\ Len(lots) \in Nat /\ Len(b) \in Nat
    <2>1. lots \in Seq(Lot)
        BY <1>1, <1>2, <1>5 DEF Account
    <2> QED BY <1>9, <2>1, DomainOfSequence
<1>13. Len(b) - Len(lots) >= 0
    BY <1>9, <1>12 DEF Remain
<1> QED BY <1>9, <1>11, <1>12, <1>13 DEF Remain, NewestLots

LEMMA NewestRemains == StoredInv => NewestRemain
<1> SUFFICES ASSUME StoredInv, policy = Fifo, \A i \in DOMAIN events : events[i].type # "SPLIT",
                    NEW c \in Currency
             PROVE  LET S == {i \in DOMAIN events : events[i].type = "BUY" /\ events[i].currency = c}
                        buys == InOrder(S, [i \in S |-> events[i].at])
                    IN  NewestLots(Snapshot(Fifo, events, Revision).lots[c], buys)
    BY DEF NewestRemain, NewestLots
<1>1. PICK S : S = {i \in DOMAIN events : events[i].type = "BUY" /\ events[i].currency = c}
    OBVIOUS
<1>2. PICK key : key = [i \in S |-> events[i].at]
    OBVIOUS
<1>3. PICK lots : lots = Snapshot(Fifo, events, Revision).lots[c]
    OBVIOUS
<1>4. NewestLots(lots, InOrder(S, key))
    BY <1>1, <1>2, <1>3, NewestOf
<1> QED BY <1>1, <1>2, <1>3, <1>4, Zenon

\* The portfolio that the replay gives is the one the events tell: no share is
\* sold before it was bought, realized results and open costs account for every
\* trade's cash, the newest purchases remain, and a void leaves the cash as if
\* the voided event had never been imported (core.go snapshotFromPolicy,
\* internal/exact FIFOAllocation, core.go validateCashVoid).
THEOREM PortfolioAlwaysRight == Spec => []PortfolioIsRight
<1>1. LedgerInv => PortfolioIsRight
    BY NoneOversold, CostsConserved, NewestRemains, VoidsCanceled DEF LedgerInv, PortfolioIsRight
<1> QED BY <1>1, LedgerInvariant, PTL
=============================================================================
