--------------------------- MODULE ScaleUpProofs ---------------------------
(***************************************************************************)
(* Proofs about the rounds of the scale-up, for every width, ceiling,      *)
(* capacity and report, and any number of rows.                            *)
(***************************************************************************)
EXTENDS ScaleUp, FiniteSetTheorems, TLAPS

Keys == Stages \X BOOLEAN

\* The rows of r at the keys K, each one a pair.
Cells(r, K) == UNION {{k} \X (1 .. r[k]) : k \in K}
Size(r, K) == Cardinality(Cells(r, K))

\* Supply beyond the rows that have no reservation identifier
Held == (Stages \ Untold) \X {TRUE}
Idless == Untold \X BOOLEAN

\* The rows the ledger has reserved for, and those it may come to reserve for
Granted == Stages \X {TRUE}
Asks == {"asking", "told", "cancelled"}
Owed == Asks \X {FALSE}
Ahead == Granted \cup Owed

-----------------------------------------------------------------------------
(***************************************************************************)
(* Counting rows.                                                          *)
(***************************************************************************)
LEMMA CellsAre ==
  ASSUME NEW r, NEW K, NEW x
  PROVE  x \in Cells(r, K) <=> \E k \in K : \E i \in 1 .. r[k] : x = <<k, i>>
BY DEF Cells

LEMMA CellsFinite ==
  ASSUME NEW K, IsFiniteSet(K), NEW r, \A k \in K : r[k] \in Nat
  PROVE  IsFiniteSet(Cells(r, K)) /\ Size(r, K) \in Nat
<1> DEFINE f == [k \in K |-> {k} \X (1 .. r[k])]
           T == {{k} \X (1 .. r[k]) : k \in K}
<1>1. f \in Surjection(K, T)
  BY DEF Surjection
<1>2. IsFiniteSet(T)
  BY <1>1, FS_Surjection
<1>3. ASSUME NEW t \in T PROVE IsFiniteSet(t)
  <2>1. PICK k \in K : t = {k} \X (1 .. r[k])
    OBVIOUS
  <2>2. IsFiniteSet({k})
    BY FS_Singleton
  <2>3. IsFiniteSet(1 .. r[k])
    <3>1. 1 \in Int /\ r[k] \in Int
      OBVIOUS
    <3> QED BY <3>1, FS_Interval
  <2> QED BY <2>1, <2>2, <2>3, FS_Product
<1>4. IsFiniteSet(UNION T)
  BY <1>2, <1>3, FS_UNION
<1> QED BY <1>4, FS_CardinalityType DEF Cells, Size

\* One row more at a key.
LEMMA OneMore ==
  ASSUME NEW K \in SUBSET Keys, IsFiniteSet(K),
         NEW r \in [Keys -> Nat], NEW k \in Keys
  PROVE  Size([r EXCEPT ![k] = @ + 1], K) = Size(r, K) + (IF k \in K THEN 1 ELSE 0)
<1> DEFINE q == [r EXCEPT ![k] = @ + 1]
<1>1. \A j \in Keys : q[j] = IF j = k THEN r[k] + 1 ELSE r[j]
  OBVIOUS
<1>2. IsFiniteSet(Cells(r, K)) /\ Size(r, K) \in Nat
  BY CellsFinite
<1> HIDE DEF q
<1>3. CASE k \notin K
  <2>1. \A j \in K : q[j] = r[j]
    BY <1>1, <1>3
  <2>2. Cells(q, K) = Cells(r, K)
    BY <2>1 DEF Cells
  <2>3. Size(q, K) = Size(r, K)
    BY <2>2 DEF Size
  <2> QED BY <2>3, <1>2, <1>3 DEF q
<1>4. CASE k \in K
  <2>1. <<k, r[k] + 1>> \notin Cells(r, K)
    BY CellsAre
  <2>2. ASSUME NEW x PROVE x \in Cells(q, K) <=> x \in Cells(r, K) \cup {<<k, r[k] + 1>>}
    <3>1. ASSUME x \in Cells(q, K) PROVE x \in Cells(r, K) \cup {<<k, r[k] + 1>>}
      <4>1. PICK j \in K : \E i \in 1 .. q[j] : x = <<j, i>>
        BY <3>1, CellsAre
      <4>1b. PICK i \in 1 .. q[j] : x = <<j, i>>
        BY <4>1
      <4>2. i \in 1 .. r[j] \/ (j = k /\ i = r[k] + 1)
        BY <1>1
      <4> QED BY <4>1b, <4>2, CellsAre
    <3>2. ASSUME x \in Cells(r, K) PROVE x \in Cells(q, K)
      <4>1. PICK j \in K : \E i \in 1 .. r[j] : x = <<j, i>>
        BY <3>2, CellsAre
      <4>1b. PICK i \in 1 .. r[j] : x = <<j, i>>
        BY <4>1
      <4>2. i \in 1 .. q[j]
        BY <1>1
      <4> QED BY <4>1b, <4>2, CellsAre
    <3>3. <<k, r[k] + 1>> \in Cells(q, K)
      <4>1. r[k] + 1 \in 1 .. q[k]
        BY <1>1
      <4> QED BY <4>1, <1>4, CellsAre
    <3> QED BY <3>1, <3>2, <3>3
  <2>3. Cells(q, K) = Cells(r, K) \cup {<<k, r[k] + 1>>}
    BY <2>2
  <2>4. Size(q, K) = Size(r, K) + 1
    BY <2>1, <2>3, <1>2, FS_AddElement DEF Size
  <2> QED BY <2>4, <1>4 DEF q
<1> QED BY <1>3, <1>4

\* n rows more at a key are at most n more.
LEMMA AtMostMore ==
  ASSUME NEW K \in SUBSET Keys, IsFiniteSet(K),
         NEW r \in [Keys -> Nat], NEW k \in Keys, NEW n \in Nat
  PROVE  Size([r EXCEPT ![k] = @ + n], K) <= Size(r, K) + (IF k \in K THEN n ELSE 0)
<1> DEFINE q == [r EXCEPT ![k] = @ + n]
           New == {k} \X (r[k] + 1 .. r[k] + n)
<1>1. \A j \in Keys : q[j] = IF j = k THEN r[k] + n ELSE r[j]
  OBVIOUS
<1>2. IsFiniteSet(Cells(r, K)) /\ Size(r, K) \in Nat
  BY CellsFinite
<1> HIDE DEF q
<1>3. CASE k \notin K
  <2>1. \A j \in K : q[j] = r[j]
    BY <1>1, <1>3
  <2>2. Cells(q, K) = Cells(r, K)
    BY <2>1 DEF Cells
  <2>3. Size(q, K) = Size(r, K)
    BY <2>2 DEF Size
  <2> QED BY <2>3, <1>2, <1>3 DEF q
<1>4. CASE k \in K
  <2>1. /\ IsFiniteSet(New)
        /\ Cardinality(New) = n
    <3>1. IsFiniteSet({k}) /\ Cardinality({k}) = 1
      BY FS_Singleton
    <3>2. /\ IsFiniteSet(r[k] + 1 .. r[k] + n)
          /\ Cardinality(r[k] + 1 .. r[k] + n) = n
      <4>1. r[k] + 1 \in Int /\ r[k] + n \in Int
        OBVIOUS
      <4>2. (r[k] + n) - (r[k] + 1) + 1 = n /\ (r[k] + 1 > r[k] + n => n = 0)
        OBVIOUS
      <4> QED BY <4>1, <4>2, FS_Interval
    <3>3. /\ IsFiniteSet(New)
          /\ Cardinality(New) = Cardinality({k}) * Cardinality(r[k] + 1 .. r[k] + n)
      BY <3>1, <3>2, FS_Product
    <3>4. 1 * n = n
      OBVIOUS
    <3> QED BY <3>1, <3>2, <3>3, <3>4
  <2>2. \A x : x \in Cells(q, K) => x \in Cells(r, K) \cup New
    <3>1. SUFFICES ASSUME NEW x, x \in Cells(q, K) PROVE x \in Cells(r, K) \cup New
      OBVIOUS
    <3>2. PICK j \in K : \E i \in 1 .. q[j] : x = <<j, i>>
      BY <3>1, CellsAre
    <3>2b. PICK i \in 1 .. q[j] : x = <<j, i>>
      BY <3>2
    <3>3. i \in 1 .. r[j] \/ (j = k /\ i \in r[k] + 1 .. r[k] + n)
      BY <1>1
    <3> QED BY <3>2b, <3>3, CellsAre
  <2>3. /\ IsFiniteSet(Cells(r, K) \cup New)
        /\ Cardinality(Cells(r, K) \cup New) <= Size(r, K) + n
    <3>1. /\ IsFiniteSet(Cells(r, K) \cup New)
          /\ Cardinality(Cells(r, K) \cup New)
               = Size(r, K) + n - Cardinality(Cells(r, K) \cap New)
      BY <2>1, <1>2, FS_Union DEF Size
    <3>2. IsFiniteSet(Cells(r, K) \cap New)
      BY <1>2, <2>1, FS_Subset
    <3>3. Cardinality(Cells(r, K) \cap New) \in Nat
      BY <3>2, FS_CardinalityType
    <3> QED BY <3>1, <3>3, <1>2
  <2>4. Cardinality(Cells(q, K)) <= Cardinality(Cells(r, K) \cup New)
    <3>1. Cells(q, K) \in SUBSET (Cells(r, K) \cup New)
      BY <2>2
    <3> QED BY <3>1, <2>3, FS_Subset
  <2>5. Cardinality(Cells(q, K)) \in Nat /\ Cardinality(Cells(r, K) \cup New) \in Nat
    <3>1. Cells(q, K) \in SUBSET (Cells(r, K) \cup New)
      BY <2>2
    <3>2. IsFiniteSet(Cells(q, K))
      BY <3>1, <2>3, FS_Subset
    <3> QED BY <3>2, <2>3, FS_CardinalityType
  <2>6. Size(q, K) <= Size(r, K) + n
    BY <2>3, <2>4, <2>5, <1>2 DEF Size
  <2> QED BY <2>6, <1>4 DEF q
<1> QED BY <1>3, <1>4

LEMMA KeysFinite ==
  /\ IsFiniteSet(Keys)
  /\ \A K \in SUBSET Keys : IsFiniteSet(K)
<1>1. ASSUME NEW a, NEW b PROVE IsFiniteSet({a, b})
  <2>1. {a, b} = {a} \cup {b}
    OBVIOUS
  <2>2. IsFiniteSet({a}) /\ IsFiniteSet({b})
    BY FS_Singleton
  <2>3. IsFiniteSet({a} \cup {b})
    BY <2>2, FS_Union
  <2> QED BY <2>1, <2>3
<1>2. Stages = {"waiting", "asking"} \cup {"told", "parked"} \cup {"refused", "delivered"}
                 \cup {"unproven", "suspect"} \cup {"recent", "gone"}
                 \cup {"cancelled", "dropped"} \cup {"withdrawn", "withdrawn"}
  BY DEF Stages
<1>3. IsFiniteSet(Stages)
  BY <1>1, <1>2, FS_Union
<1>4. BOOLEAN = {TRUE, FALSE}
  OBVIOUS
<1>5. IsFiniteSet(BOOLEAN)
  BY <1>1, <1>4
<1>6. IsFiniteSet(Keys)
  BY <1>3, <1>5, FS_Product DEF Keys
<1> QED BY <1>6, FS_Subset

LEMMA SizeIsNat ==
  ASSUME NEW r \in [Keys -> Nat], NEW K \in SUBSET Keys
  PROVE  Size(r, K) \in Nat
BY KeysFinite, CellsFinite

\* A row that moves leaves one key and comes to another.
LEMMA Moves ==
  ASSUME rows \in [Keys -> Nat], NEW K \in SUBSET Keys,
         NEW s \in Stages, NEW h \in BOOLEAN, NEW t \in Stages, NEW g \in BOOLEAN,
         Becomes(s, h, t, g)
  PROVE  /\ rows' \in [Keys -> Nat]
         /\ Size(rows', K) = Size(rows, K) - (IF <<s, h>> \in K THEN 1 ELSE 0)
              + (IF <<t, g>> \in K /\ ~(t = "gone" /\ ~g) THEN 1 ELSE 0)
<1> DEFINE a == <<s, h>>
           b == <<t, g>>
           left == [rows EXCEPT ![a] = @ - 1]
<1>1. a \in Keys /\ b \in Keys
  BY DEF Keys
<1>2. rows[a] > 0 /\ rows' = IF t = "gone" /\ ~g THEN left ELSE [left EXCEPT ![b] = @ + 1]
  BY DEF Becomes
<1> HIDE DEF a, b
<1>3. left \in [Keys -> Nat]
  BY <1>1, <1>2
<1>4. rows = [left EXCEPT ![a] = @ + 1]
  <2>1. \A j \in Keys : left[j] = IF j = a THEN rows[a] - 1 ELSE rows[j]
    BY <1>1
  <2> HIDE DEF left
  <2>2. \A j \in Keys : [left EXCEPT ![a] = @ + 1][j] = rows[j]
    BY <1>1, <1>2, <1>3, <2>1
  <2> QED BY <1>3, <2>2
<1> HIDE DEF left
<1>5. Size(rows, K) = Size(left, K) + (IF a \in K THEN 1 ELSE 0)
  BY <1>1, <1>3, <1>4, KeysFinite, OneMore
<1>6. Size([left EXCEPT ![b] = @ + 1], K) = Size(left, K) + (IF b \in K THEN 1 ELSE 0)
  BY <1>1, <1>3, KeysFinite, OneMore
<1>7. Size(left, K) \in Nat
  BY <1>3, SizeIsNat
<1>8. rows' \in [Keys -> Nat]
  BY <1>1, <1>2, <1>3
<1>9. Size(rows', K) = Size(rows, K) - (IF a \in K THEN 1 ELSE 0)
              + (IF b \in K /\ ~(t = "gone" /\ ~g) THEN 1 ELSE 0)
  BY <1>2, <1>5, <1>6, <1>7
<1> QED BY <1>8, <1>9 DEF a, b

-----------------------------------------------------------------------------
(***************************************************************************)
(* The invariant.                                                          *)
(***************************************************************************)
\* The learned limit always lets a start through.
LimitLeavesAProbe == limit # Unlimited => limit >= MinAdmissionLimit

\* What the round did not see reserved was still to be answered.
SeenOrOpen ==
  round.asked => Size(rows, Ahead) + astray <= round.live + round.open

ScaleUpInv == ScaleUpTypeOK /\ LimitLeavesAProbe /\ SeenOrOpen

LEMMA HeldIsKeys ==
  /\ Held \in SUBSET Keys /\ Idless \in SUBSET Keys
  /\ Granted \in SUBSET Keys /\ Owed \in SUBSET Keys /\ Ahead \in SUBSET Keys
BY DEF Held, Idless, Granted, Owed, Ahead, Asks, Keys, Stages, Untold

LEMMA CountIsSize ==
  ASSUME rows \in [Keys -> Nat], NEW S \in SUBSET Stages, NEW held \in SUBSET BOOLEAN
  PROVE  Count(S, held) = Size(rows, S \X held) /\ Count(S, held) \in Nat
<1>1. S \X held \in SUBSET Keys
  BY DEF Keys
<1>2. Count(S, held) = Size(rows, S \X held)
  BY DEF Count, Size, Cells
<1> QED BY <1>1, <1>2, SizeIsNat

LEMMA InIsNat ==
  ASSUME rows \in [Keys -> Nat], NEW S \in SUBSET Stages
  PROVE  In(S) \in Nat
BY CountIsSize DEF In

\* Whatever the listener learns from leaves a limit of its type.
LEMMA LimitKept ==
  ASSUME ScaleUpTypeOK, LimitLeavesAProbe,
         \/ TakesCensus \/ ObservesRefusal \/ ObservesDelivery
         \/ UNCHANGED admissionVars \/ (limit' = Unlimited /\ streak' = 0)
  PROVE  /\ limit' \in Nat \cup {Unlimited}
         /\ streak' \in 0 .. AdmissionProbeSuccesses
         /\ LimitLeavesAProbe'
<1> USE DEF ScaleUpTypeOK, LimitLeavesAProbe, Unlimited
<1>1. /\ MinAdmissionLimit \in Nat \ {0}
      /\ AdmissionProbeSuccesses \in Nat \ {0}
      /\ MaxActiveRunners \in Nat
  BY ScaleUpConstants
<1>2. rows \in [Keys -> Nat]
  BY DEF Keys
<1>3. ASSUME NEW n \in Int, LowersTo(Floored(n))
      PROVE  /\ limit' \in Nat \cup {Unlimited}
             /\ streak' \in 0 .. AdmissionProbeSuccesses
             /\ LimitLeavesAProbe'
  <2>1. Floored(n) \in Nat /\ Floored(n) >= MinAdmissionLimit
    BY <1>1 DEF Floored
  <2>2. streak' = 0 /\ limit' = IF limit = Unlimited THEN Floored(n) ELSE Least(limit, Floored(n))
    BY <1>3 DEF LowersTo
  <2> QED BY <1>1, <2>1, <2>2 DEF Least
<1>4. ContendingCounts \in SUBSET Int /\ In({"recent"}) \in Nat /\ In({"suspect"}) \in Nat
  <2>1. /\ Contending \in SUBSET Stages /\ Contending \ Trying \in SUBSET Stages
        /\ {"recent"} \in SUBSET Stages /\ {"suspect"} \in SUBSET Stages
    BY DEF Contending, Trying, Started, Stages
  <2>2. In(Contending) \in Nat /\ In(Contending \ Trying) \in Nat
    BY <1>2, <2>1, InIsNat
  <2> QED BY <1>2, <2>1, <2>2, InIsNat DEF ContendingCounts
<1>5. CASE TakesCensus
  <2>1. CASE UNCHANGED admissionVars
    BY <2>1 DEF admissionVars
  <2>2. CASE ~UNCHANGED admissionVars
    <3>1. PICK n \in ContendingCounts : LowersTo(Floored(n + In({"recent"}) - In({"suspect"})))
      BY <1>5, <2>2 DEF TakesCensus
    <3>2. n + In({"recent"}) - In({"suspect"}) \in Int
      BY <1>4
    <3> QED BY <1>3, <3>1, <3>2
  <2> QED BY <2>1, <2>2
<1>6. CASE ObservesRefusal
  <2>1. PICK n \in ContendingCounts : LowersTo(Floored(n - 1))
    BY <1>6 DEF ObservesRefusal
  <2>2. n - 1 \in Int
    BY <1>4
  <2> QED BY <1>3, <2>1, <2>2
<1>7. CASE ObservesDelivery
  BY <1>1, <1>7 DEF ObservesDelivery, Least, admissionVars
<1>8. CASE UNCHANGED admissionVars
  BY <1>8 DEF admissionVars
<1>9. CASE limit' = Unlimited /\ streak' = 0
  BY <1>1, <1>9
<1> QED BY <1>5, <1>6, <1>7, <1>8, <1>9

-----------------------------------------------------------------------------
(***************************************************************************)
(* The round.                                                              *)
(***************************************************************************)
LEMMA Counts ==
  ASSUME rows \in [Keys -> Nat]
  PROVE  /\ Unreserved = Size(rows, Idless)
         /\ Supply = Size(rows, Idless) + Size(rows, Held)
         /\ Size(rows, Idless) \in Nat /\ Size(rows, Held) \in Nat
         /\ LiveReservations \in Nat /\ Size(rows, Held) <= LiveReservations
         /\ Active \in Nat
<1>1. Unreserved = Size(rows, Idless)
  BY DEF Unreserved, In, Count, Size, Cells, Idless
<1>2. Supply = Size(rows, Idless) + Size(rows, Held)
  BY <1>1 DEF Supply, Count, Size, Cells, Held
<1>3. Size(rows, Idless) \in Nat /\ Size(rows, Held) \in Nat
  BY HeldIsKeys, SizeIsNat
<1>4. LiveReservations = Size(rows, Granted) /\ LiveReservations \in Nat
  <2>1. LiveReservations = Size(rows, Granted)
    BY DEF LiveReservations, Count, Size, Cells, Granted
  <2> QED BY <2>1, HeldIsKeys, SizeIsNat
<1>5. Size(rows, Held) <= LiveReservations
  <2>1. Granted \in SUBSET Keys /\ Held \in SUBSET Granted
    BY DEF Keys, Held, Granted
  <2>3. IsFiniteSet(Cells(rows, Granted))
    BY <2>1, KeysFinite, CellsFinite
  <2>4. Cells(rows, Held) \in SUBSET Cells(rows, Granted)
    BY <2>1 DEF Cells
  <2>5. Cardinality(Cells(rows, Held)) <= Cardinality(Cells(rows, Granted))
    BY <2>3, <2>4, FS_Subset
  <2> QED BY <1>4, <2>5 DEF Size
<1>6. Active \in Nat
  <2>1. Untold \cup Trying \cup {"refused"} \in SUBSET Stages
    BY DEF Untold, Trying, Stages
  <2> QED BY <2>1, InIsNat DEF Active
<1> QED BY <1>1, <1>2, <1>3, <1>4, <1>5, <1>6

\* What is reserved and what may still come.
LEMMA AheadIs ==
  ASSUME rows \in [Keys -> Nat], astray \in Nat
  PROVE  /\ Coming = Size(rows, Owed) + astray
         /\ Size(rows, Ahead) = LiveReservations + Size(rows, Owed)
         /\ Size(rows, Owed) \in Nat /\ Size(rows, Ahead) \in Nat /\ Coming \in Nat
<1>1. Coming = Size(rows, Owed) + astray
  BY DEF Coming, Count, Size, Cells, Owed, Asks
<1>2. /\ Size(rows, Owed) \in Nat /\ Size(rows, Ahead) \in Nat
      /\ Size(rows, Granted) \in Nat
  BY HeldIsKeys, SizeIsNat
<1>3. IsFiniteSet(Cells(rows, Granted)) /\ IsFiniteSet(Cells(rows, Owed))
  BY HeldIsKeys, KeysFinite, CellsFinite
<1>4. Cells(rows, Ahead) = Cells(rows, Granted) \cup Cells(rows, Owed)
  BY DEF Cells, Ahead
<1>5. Cells(rows, Granted) \cap Cells(rows, Owed) = {}
  <2>1. Granted \cap Owed = {}
    BY DEF Granted, Owed
  <2> QED BY <2>1, CellsAre
<1>6. Cardinality(Cells(rows, Granted) \cup Cells(rows, Owed))
        = Cardinality(Cells(rows, Granted)) + Cardinality(Cells(rows, Owed))
  <2>1. Cardinality(Cells(rows, Granted) \cup Cells(rows, Owed))
          = Cardinality(Cells(rows, Granted)) + Cardinality(Cells(rows, Owed))
              - Cardinality(Cells(rows, Granted) \cap Cells(rows, Owed))
    BY <1>3, FS_Union
  <2>2. Cardinality(Cells(rows, Granted) \cap Cells(rows, Owed)) = 0
    BY <1>5, FS_EmptySet
  <2> QED BY <1>2, <2>1, <2>2 DEF Size
<1>7. Size(rows, Ahead) = Size(rows, Granted) + Size(rows, Owed)
  BY <1>4, <1>6 DEF Size
<1>8. LiveReservations = Size(rows, Granted)
  BY DEF LiveReservations, Count, Size, Cells, Granted
<1>9. Size(rows, Ahead) = LiveReservations + Size(rows, Owed)
  BY <1>7, <1>8
<1>10. Coming \in Nat
  BY <1>1, <1>2
<1> QED BY <1>1, <1>2, <1>9, <1>10

\* What a round admits fits into what is missing and into the limit.
LEMMA AdmittedFits ==
  ASSUME ScaleUpTypeOK, LimitLeavesAProbe, Evaluates
  PROVE  /\ LiveSupply \in Nat /\ Desired(LiveSupply) \in Int /\ Admitted \in Nat
         /\ Admitted > 0 => Admitted <= Desired(LiveSupply) - LiveSupply
         /\ Admitted > 0 /\ limit' # Unlimited => Admitted <= limit' - LiveSupply
<1>1. rows \in [Keys -> Nat] /\ round.live \in Nat
      /\ statistics.assigned \in Nat /\ statistics.idle \in Nat
  BY DEF ScaleUpTypeOK, Keys
<1>2. LiveSupply \in Nat /\ Width \in Int
  BY <1>1, Counts, ScaleUpConstants DEF LiveSupply, Width
<1>3. Desired(LiveSupply) \in Int
  <2>1. MaxActiveRunners \in Nat /\ ApprovedCapacity \in Nat
    BY ScaleUpConstants
  <2> QED BY <1>1, <1>2, <2>1 DEF Desired, Least, Positive
<1>4. limit' \in Nat \cup {Unlimited}
  BY LimitKept DEF Evaluates
<1>5. Shortfall \in Nat /\ (Shortfall > 0 => Shortfall = Desired(LiveSupply) - LiveSupply)
  BY <1>2, <1>3 DEF Shortfall, Positive
<1>6. /\ Headroom \in Nat
      /\ limit' # Unlimited /\ Headroom > 0 => Headroom = limit' - LiveSupply
  <2>1. CASE limit' = Unlimited
    BY <1>5, <2>1 DEF Headroom
  <2>2. CASE limit' # Unlimited
    <3>1. limit' \in Nat /\ Headroom = Positive(limit' - LiveSupply)
      BY <1>4, <2>2 DEF Headroom
    <3>2. LiveSupply \in Nat /\ limit' - LiveSupply \in Int
      BY <1>2, <3>1
    <3>3. \A n \in Int : Positive(n) \in Nat /\ (Positive(n) > 0 => Positive(n) = n)
      BY DEF Positive
    <3>4. /\ Positive(limit' - LiveSupply) \in Nat
          /\ Positive(limit' - LiveSupply) > 0
               => Positive(limit' - LiveSupply) = limit' - LiveSupply
      BY <3>2, <3>3
    <3> QED BY <3>1, <3>4
  <2> QED BY <2>1, <2>2
<1>7. Admitted \in Nat /\ Admitted <= Shortfall /\ Admitted <= Headroom
  BY <1>2, <1>5, <1>6 DEF Admitted, Least, Positive
<1>8. Admitted > 0 => Admitted <= Desired(LiveSupply) - LiveSupply
  BY <1>5, <1>7
<1>9. Admitted > 0 /\ limit' # Unlimited => Admitted <= limit' - LiveSupply
  BY <1>6, <1>7
<1> QED BY <1>2, <1>3, <1>7, <1>8, <1>9

\* RoundsOvershootNothing, for one allocation.
LEMMA AllocationFits ==
  ASSUME ScaleUpInv, Allocates, Supply' > Supply
  PROVE  /\ Supply' <= Desired(LiveSupply) + Answered
         /\ limit' # Unlimited => Supply' <= limit' + Answered
<1> DEFINE k == <<"waiting", FALSE>>
<1>1. /\ ScaleUpTypeOK /\ LimitLeavesAProbe /\ SeenOrOpen /\ Evaluates
      /\ rows' = [rows EXCEPT ![k] = @ + Admitted]
      /\ round.asked
  BY DEF ScaleUpInv, Allocates, Evaluates
<1>2. /\ rows \in [Keys -> Nat] /\ astray \in Nat
      /\ round.open \in Nat /\ round.live \in Nat
  BY <1>1 DEF ScaleUpTypeOK, Keys
<1>3. k \in Keys /\ k \notin Held
  BY DEF Keys, Held, Stages, Untold
<1> HIDE DEF k
<1>4. /\ LiveSupply \in Nat /\ Desired(LiveSupply) \in Int /\ Admitted \in Nat
      /\ Admitted > 0 => Admitted <= Desired(LiveSupply) - LiveSupply
      /\ Admitted > 0 /\ limit' # Unlimited => Admitted <= limit' - LiveSupply
  BY <1>1, AdmittedFits
<1>5. rows' \in [Keys -> Nat]
  BY <1>1, <1>2, <1>3, <1>4
<1>6. /\ Supply' = Size(rows', Idless) + Size(rows', Held)
      /\ Size(rows', Idless) \in Nat /\ Size(rows', Held) \in Nat
  <2>1. Supply' = Size(rows', Idless) + Size(rows', Held)
    BY DEF Supply, Unreserved, In, Count, Size, Cells, Held, Idless
  <2> QED BY <1>5, <2>1, HeldIsKeys, SizeIsNat
<1>7. /\ Supply = Size(rows, Idless) + Size(rows, Held)
      /\ Unreserved = Size(rows, Idless)
      /\ Size(rows, Idless) \in Nat /\ Size(rows, Held) \in Nat
  BY <1>2, Counts
<1>8. Admitted > 0
  <2>1. SUFFICES ASSUME Admitted = 0 PROVE FALSE
    BY <1>4
  <2>2. rows' = rows
    BY <1>1, <1>2, <1>3, <2>1
  <2> QED BY <1>6, <1>7, <2>2
<1>9. /\ Size(rows', Idless) <= Size(rows, Idless) + Admitted
      /\ Size(rows', Held) <= Size(rows, Held)
  <2>1. ASSUME NEW K \in SUBSET Keys
        PROVE  Size(rows', K) <= Size(rows, K) + (IF k \in K THEN Admitted ELSE 0)
    BY <1>1, <1>2, <1>3, <1>4, KeysFinite, AtMostMore
  <2>2. Size(rows', Held) <= Size(rows, Held)
    BY <1>3, <1>7, <2>1, HeldIsKeys
  <2>3. Size(rows', Idless) <= Size(rows, Idless) + (IF k \in Idless THEN Admitted ELSE 0)
    BY <2>1, HeldIsKeys
  <2> QED BY <1>4, <1>6, <1>7, <2>2, <2>3
<1>10. Answered \in Int /\ Size(rows, Held) <= round.live + Answered
  <2>1. /\ Coming = Size(rows, Owed) + astray
        /\ Size(rows, Ahead) = LiveReservations + Size(rows, Owed)
        /\ Size(rows, Owed) \in Nat
    BY <1>2, AheadIs
  <2>2. LiveReservations \in Nat /\ Size(rows, Held) <= LiveReservations
    BY <1>2, Counts
  <2>3. Size(rows, Ahead) + astray <= round.live + round.open
    BY <1>1 DEF SeenOrOpen
  <2> QED BY <1>2, <1>7, <2>1, <2>2, <2>3 DEF Answered
<1>11. Supply' <= LiveSupply + Admitted + Answered
  BY <1>2, <1>4, <1>6, <1>7, <1>9, <1>10 DEF LiveSupply
<1>12. limit' \in Nat \cup {Unlimited}
  BY <1>1, LimitKept DEF Evaluates
<1>13. Supply' \in Nat
  BY <1>6
<1>14. Supply' <= Desired(LiveSupply) + Answered
  BY <1>4, <1>8, <1>10, <1>11, <1>13
<1>15. ASSUME limit' # Unlimited PROVE Supply' <= limit' + Answered
  <2>1. limit' \in Int
    BY <1>12, <1>15
  <2>2. Admitted <= limit' - LiveSupply
    BY <1>4, <1>8, <1>15
  <2>3. LiveSupply \in Nat /\ Admitted \in Nat /\ Answered \in Int
    BY <1>4, <1>10
  <2>4. \A s, l, a, o, m \in Int : s <= l + a + o /\ a <= m - l => s <= m + o
    OBVIOUS
  <2>5. /\ Supply' \in Int /\ LiveSupply \in Int /\ Admitted \in Int
        /\ Answered \in Int
    BY <1>13, <2>3
  <2> QED BY ONLY <1>11, <2>1, <2>2, <2>4, <2>5, Zenon
<1> QED BY <1>14, <1>15

-----------------------------------------------------------------------------
(***************************************************************************)
(* The steps of a row.                                                     *)
(***************************************************************************)
\* A step of one row keeps the invariant when what is ahead does not grow, or
\* when a request becomes astray or stops to be with it.
LEMMA RowStepKeeps ==
  ASSUME ScaleUpInv, astray' \in Nat,
         NEW s \in Stages, NEW h \in BOOLEAN, NEW t \in Stages, NEW g \in BOOLEAN,
         Becomes(s, h, t, g),
         \/ ~round'.asked
         \/ /\ round' = round
            /\ \/ astray' = astray /\ (<<t, g>> \in Ahead => <<s, h>> \in Ahead)
               \/ astray' <= astray + 1 /\ <<t, g>> \notin Ahead /\ <<s, h>> \in Ahead
               \/ astray' = astray - 1
  PROVE  rows' \in [Keys -> Nat] /\ SeenOrOpen'
<1>1. /\ rows \in [Keys -> Nat] /\ astray \in Nat
      /\ round.live \in Nat /\ round.open \in Nat
  BY DEF ScaleUpInv, ScaleUpTypeOK, Keys
<1>2. /\ rows' \in [Keys -> Nat]
      /\ Size(rows', Ahead) = Size(rows, Ahead) - (IF <<s, h>> \in Ahead THEN 1 ELSE 0)
           + (IF <<t, g>> \in Ahead /\ ~(t = "gone" /\ ~g) THEN 1 ELSE 0)
  BY <1>1, HeldIsKeys, Moves
<1>3. Size(rows', Ahead) \in Nat /\ Size(rows, Ahead) \in Nat
  BY <1>1, <1>2, HeldIsKeys, SizeIsNat
<1>4. CASE ~round'.asked
  BY <1>2, <1>4 DEF SeenOrOpen
<1>5. CASE /\ round' = round
           /\ \/ astray' = astray /\ (<<t, g>> \in Ahead => <<s, h>> \in Ahead)
              \/ astray' <= astray + 1 /\ <<t, g>> \notin Ahead /\ <<s, h>> \in Ahead
              \/ astray' = astray - 1
  <2> DEFINE from == <<s, h>> \in Ahead
             to == <<t, g>> \in Ahead
             ends == t = "gone" /\ ~g
  <2>0. Size(rows', Ahead) = Size(rows, Ahead) - (IF from THEN 1 ELSE 0)
           + (IF to /\ ~ends THEN 1 ELSE 0)
    BY <1>2
  <2>0a. \/ astray' = astray /\ (to => from)
         \/ astray' <= astray + 1 /\ ~to /\ from
         \/ astray' = astray - 1
    BY <1>5
  <2> HIDE DEF from, to, ends
  <2>1. Size(rows', Ahead) + astray' <= Size(rows, Ahead) + astray
    BY <1>1, <1>3, <2>0, <2>0a
  <2>2. round.asked => Size(rows, Ahead) + astray <= round.live + round.open
    BY DEF ScaleUpInv, SeenOrOpen
  <2>3. round.asked => Size(rows', Ahead) + astray' <= round.live + round.open
    BY <1>1, <1>3, <2>1, <2>2
  <2> QED BY <1>2, <1>5, <2>3 DEF SeenOrOpen
<1> QED BY <1>4, <1>5

\* Between the rounds a row may go where it will.
LEMMA FreeStepKeeps ==
  ASSUME ScaleUpInv, ~round'.asked,
         NEW s \in Stages, NEW h \in BOOLEAN, NEW t \in Stages, NEW g \in BOOLEAN,
         Becomes(s, h, t, g)
  PROVE  rows' \in [Keys -> Nat] /\ SeenOrOpen'
<1>1. rows \in [Keys -> Nat]
  BY DEF ScaleUpInv, ScaleUpTypeOK, Keys
<1>2. rows' \in [Keys -> Nat]
  BY <1>1, HeldIsKeys, Moves
<1> QED BY <1>2 DEF SeenOrOpen

LEMMA RowsKept ==
  ASSUME ScaleUpInv,
         \/ Launch \/ Cancels \/ LedgerGrants \/ ReplyArrives \/ StartAccepted
         \/ StartRecovered \/ StartRefused \/ Replaced \/ Fails \/ Withdraws \/ Throws
         \/ Probes \/ Releases \/ JobCompleted \/ LedgerFrees \/ Ages
  PROVE  rows' \in [Keys -> Nat] /\ SeenOrOpen'
<1> USE DEF Stages, Asks, Granted, Owed, Ahead, Unnoticed, Unlearned, RowStep
<1>0. astray \in Nat
  BY DEF ScaleUpInv, ScaleUpTypeOK
<1>1. CASE Launch
  <2>1. PICK h \in BOOLEAN : Becomes("waiting", h, "asking", h) \/ Becomes("parked", h, "told", h)
    BY <1>1 DEF Launch
  <2>2. ~round'.asked
    BY <1>1 DEF Launch
  <2> QED BY <2>1, <2>2, FreeStepKeeps
<1>2. CASE Cancels
  <2>1. ~round'.asked
    BY <1>2 DEF Cancels
  <2>2. \E s \in Stages, t \in Stages, h \in BOOLEAN, g \in BOOLEAN : Becomes(s, h, t, g)
    BY <1>2 DEF Cancels
  <2> QED BY <2>1, <2>2, FreeStepKeeps
<1>3. CASE LedgerGrants
  <2>1. PICK s \in {"asking", "cancelled"} : Becomes(s, FALSE, s, TRUE)
    BY <1>3 DEF LedgerGrants
  <2>2. round' = round /\ astray' = astray
    BY <1>3 DEF LedgerGrants
  <2> QED BY <1>0, <2>1, <2>2, RowStepKeeps
<1>4. CASE ReplyArrives
  <2>1. Becomes("asking", TRUE, "told", TRUE) \/ Becomes("cancelled", TRUE, "withdrawn", TRUE)
    BY <1>4 DEF ReplyArrives
  <2>2. round' = round /\ astray' = astray
    BY <1>4 DEF ReplyArrives
  <2> QED BY <1>0, <2>1, <2>2, RowStepKeeps
<1>5. CASE StartAccepted \/ StartRecovered \/ StartRefused
  <2>1. PICK h \in BOOLEAN, t \in {"delivered", "unproven", "refused"} :
          Becomes("told", h, t, h)
    BY <1>5 DEF StartAccepted, StartRecovered, StartRefused
  <2>2. round' = round /\ astray' = astray
    BY <1>5 DEF StartAccepted, StartRecovered, StartRefused
  <2> QED BY <1>0, <2>1, <2>2, RowStepKeeps
<1>6. CASE Replaced
  <2>1. Becomes("told", FALSE, "gone", TRUE) /\ round' = round /\ astray' = astray
    BY <1>6 DEF Replaced
  <2> QED BY <1>0, <2>1, RowStepKeeps
<1>7. CASE Fails
  <2>1. PICK h \in BOOLEAN, g \in BOOLEAN :
          \/ /\ \/ \E s \in {"asking", "cancelled"} : g = h /\ Becomes(s, h, "gone", g)
                \/ (g => h) /\ Becomes("told", h, "gone", g)
             /\ LeavesBehind(IF g THEN 0 ELSE 1)
          \/ Becomes("refused", h, "gone", FALSE) /\ LeavesBehind(0)
    BY <1>7 DEF Fails
  <2>2. round' = round
    BY <1>7 DEF Fails
  <2>3. CASE Becomes("refused", h, "gone", FALSE) /\ LeavesBehind(0)
    <3>1. astray' = astray
      BY <1>0, <2>3 DEF LeavesBehind
    <3> QED BY <1>0, <2>2, <2>3, <3>1, RowStepKeeps
  <2>4. CASE /\ \/ \E s \in {"asking", "cancelled"} : g = h /\ Becomes(s, h, "gone", g)
                \/ (g => h) /\ Becomes("told", h, "gone", g)
             /\ LeavesBehind(IF g THEN 0 ELSE 1)
    <3>1. PICK s \in Asks : Becomes(s, h, "gone", g) /\ (g => h)
      BY <2>4
    <3>2. CASE g = TRUE
      <4>1. astray' = astray
        BY <1>0, <2>4, <3>2 DEF LeavesBehind
      <4> QED BY <1>0, <2>2, <3>1, <3>2, <4>1, RowStepKeeps
    <3>3. CASE g = FALSE
      <4>1. astray' \in Nat /\ astray' <= astray + 1
        BY <1>0, <2>4, <3>3 DEF LeavesBehind
      <4>2. <<s, h>> \in Ahead /\ <<"gone", g>> \notin Ahead
        BY <3>3
      <4> QED BY <1>0, <2>2, <3>1, <4>1, <4>2, RowStepKeeps
    <3> QED BY <3>2, <3>3
  <2> QED BY <2>1, <2>3, <2>4
<1>8. CASE Withdraws
  <2>1. PICK h \in BOOLEAN :
          \/ Becomes("dropped", h, "withdrawn", h)
          \/ \E g \in BOOLEAN : (g => h) /\ Becomes("dropped", h, "gone", g)
          \/ Becomes("withdrawn", h, "gone", FALSE)
    BY <1>8 DEF Withdraws
  <2>2. round' = round /\ astray' = astray
    BY <1>8 DEF Withdraws
  <2>3. CASE \E g \in BOOLEAN : (g => h) /\ Becomes("dropped", h, "gone", g)
    <3>1. PICK g \in BOOLEAN : (g => h) /\ Becomes("dropped", h, "gone", g)
      BY <2>3
    <3> QED BY <1>0, <2>2, <3>1, RowStepKeeps
  <2> QED BY <1>0, <2>1, <2>2, <2>3, RowStepKeeps
<1>9. CASE Throws
  <2>1. PICK h \in BOOLEAN :
          \/ Becomes("asking", h, "waiting", h)
          \/ \E s \in {"told", "refused"} : Becomes(s, h, "parked", h)
    BY <1>9 DEF Throws
  <2>2. round' = round /\ astray' = astray
    BY <1>9 DEF Throws
  <2>3. CASE Becomes("asking", h, "waiting", h)
    BY <1>0, <2>2, <2>3, RowStepKeeps
  <2>4. CASE \E s \in {"told", "refused"} : Becomes(s, h, "parked", h)
    BY <1>0, <2>2, <2>4, RowStepKeeps
  <2> QED BY <2>1, <2>3, <2>4
<1>10. CASE Probes
  <2>1. ~round'.asked
    BY <1>10 DEF Probes
  <2>2. \E s \in Stages, t \in Stages, h \in BOOLEAN, g \in BOOLEAN : Becomes(s, h, t, g)
    <3>1. PICK h \in BOOLEAN :
            \/ \E s \in {"unproven", "suspect"} :
                 Becomes(s, h, "delivered", h) \/ Becomes(s, h, "suspect", h)
            \/ Becomes("suspect", h, "unproven", h)
      BY <1>10 DEF Probes
    <3> QED BY <3>1
  <2> QED BY <2>1, <2>2, FreeStepKeeps
<1>11. CASE Releases
  <2>1. ~round'.asked
    BY <1>11 DEF Releases
  <2>2. \E s \in Stages, t \in Stages, h \in BOOLEAN, g \in BOOLEAN : Becomes(s, h, t, g)
    BY <1>11 DEF Releases, Started
  <2> QED BY <2>1, <2>2, FreeStepKeeps
<1>12. CASE JobCompleted
  <2>1. ~round'.asked
    BY <1>12 DEF JobCompleted
  <2>2. \E s \in Stages, t \in Stages, h \in BOOLEAN, g \in BOOLEAN : Becomes(s, h, t, g)
    BY <1>12 DEF JobCompleted
  <2> QED BY <2>1, <2>2, FreeStepKeeps
<1>13. CASE LedgerFrees
  <2>1. PICK s \in Stages \ {"asking", "cancelled", "recent"} : Becomes(s, TRUE, s, FALSE)
    BY <1>13 DEF LedgerFrees
  <2>2. round' = round /\ astray' = astray
    BY <1>13 DEF LedgerFrees
  <2>3. <<s, TRUE>> \in Ahead
    OBVIOUS
  <2> QED BY <1>0, <2>1, <2>2, <2>3, RowStepKeeps
<1>14. CASE Ages
  <2>1. Becomes("recent", FALSE, "gone", FALSE) /\ round' = round /\ astray' = astray
    BY <1>14 DEF Ages
  <2> QED BY <1>0, <2>1, RowStepKeeps
<1> QED BY <1>1, <1>2, <1>3, <1>4, <1>5, <1>6, <1>7, <1>8, <1>9, <1>10, <1>11,
           <1>12, <1>13, <1>14

-----------------------------------------------------------------------------
(***************************************************************************)
(* The theorems.                                                           *)
(***************************************************************************)
LEMMA InvStarts == ScaleUpInit => ScaleUpInv
<1> SUFFICES ASSUME ScaleUpInit PROVE ScaleUpInv
  OBVIOUS
<1>1. ScaleUpTypeOK
  <2>1. rows \in [Stages \X BOOLEAN -> Nat]
    BY DEF ScaleUpInit
  <2>2. AdmissionProbeSuccesses \in Nat
    BY ScaleUpConstants
  <2>3. streak \in 0 .. AdmissionProbeSuccesses
    BY <2>2 DEF ScaleUpInit
  <2>4. /\ statistics \in [assigned : Nat, idle : Nat]
        /\ round \in [asked : BOOLEAN, live : Nat, open : Nat]
        /\ astray \in Nat
        /\ limit \in Nat \cup {Unlimited}
        /\ limited \in BOOLEAN
    BY DEF ScaleUpInit, Unasked
  <2> QED BY <2>1, <2>3, <2>4 DEF ScaleUpTypeOK
<1> QED BY <1>1 DEF ScaleUpInit, ScaleUpInv, LimitLeavesAProbe, SeenOrOpen, Unasked

\* The parts of the invariant that a step which moves rows leaves to RowsKept.
LEMMA RestKept ==
  ASSUME ScaleUpInv, ScaleUpNext
  PROVE  /\ statistics' \in [assigned : Nat, idle : Nat]
         /\ round' \in [asked : BOOLEAN, live : Nat, open : Nat]
         /\ astray' \in Nat
         /\ limit' \in Nat \cup {Unlimited}
         /\ streak' \in 0 .. AdmissionProbeSuccesses
         /\ limited' \in BOOLEAN
         /\ LimitLeavesAProbe'
<1> USE DEF ScaleUpNext, Chain, Unnoticed, Unlearned, RowStep
<1>1. statistics' \in [assigned : Nat, idle : Nat]
  <2>1. statistics \in [assigned : Nat, idle : Nat] /\ Reports \subseteq [assigned : Nat, idle : Nat]
    BY ScaleUpConstants DEF ScaleUpInv, ScaleUpTypeOK
  <2>2. statistics' = statistics \/ statistics' \in Reports
    BY DEF Message, Acquires, Cancels, AskStatus, RoundGivesUp, Allocates,
           AllocatesNothing, Evaluates, Launch, LedgerGrants, LateRequest, ReplyArrives, StartAccepted, StartRecovered,
           StartRefused, Replaced, Fails, Withdraws, Throws, Evict, Probes, Releases,
           JobCompleted, LedgerFrees, Ages, ResetAdmission
  <2> QED BY <2>1, <2>2
<1>2. round' \in [asked : BOOLEAN, live : Nat, open : Nat]
  <2>1. /\ round \in [asked : BOOLEAN, live : Nat, open : Nat]
        /\ LiveReservations \in Nat /\ Coming \in Nat
    BY Counts, AheadIs DEF ScaleUpInv, ScaleUpTypeOK, Keys
  <2>2. \/ round' = round \/ round' = Unasked
        \/ round' = [asked |-> TRUE, live |-> LiveReservations, open |-> Coming]
    BY DEF Message, Acquires, Cancels, AskStatus, RoundGivesUp, Allocates,
           AllocatesNothing, Evaluates, Launch, LedgerGrants, LateRequest, ReplyArrives, StartAccepted, StartRecovered,
           StartRefused, Replaced, Fails, Withdraws, Throws, Evict, Probes, Releases,
           JobCompleted, LedgerFrees, Ages, ResetAdmission
  <2>3. Unasked \in [asked : BOOLEAN, live : Nat, open : Nat]
    BY DEF Unasked
  <2>4. [asked |-> TRUE, live |-> LiveReservations, open |-> Coming]
          \in [asked : BOOLEAN, live : Nat, open : Nat]
    BY <2>1
  <2> QED BY ONLY <2>1, <2>2, <2>3, <2>4, Zenon
<1>3. \/ TakesCensus \/ ObservesRefusal \/ ObservesDelivery
      \/ UNCHANGED admissionVars \/ (limit' = Unlimited /\ streak' = 0)
  <2>1. CASE Allocates \/ AllocatesNothing
    BY ONLY <2>1 DEF Allocates, AllocatesNothing, Evaluates
  <2>2. CASE StartRefused
    BY ONLY <2>2 DEF StartRefused
  <2>3. CASE JobCompleted
    BY ONLY <2>3 DEF JobCompleted
  <2>4. CASE ResetAdmission
    BY ONLY <2>4 DEF ResetAdmission
  <2>5. CASE \/ Message \/ Acquires \/ Cancels \/ AskStatus \/ RoundGivesUp
             \/ Launch \/ LedgerGrants \/ StartAccepted \/ StartRecovered \/ Throws
             \/ Probes \/ Releases \/ LedgerFrees \/ Ages
             \/ ReplyArrives \/ Replaced \/ Fails \/ Withdraws \/ LateRequest \/ Evict
    <3>1. limit' = limit /\ streak' = streak
      BY ONLY <2>5 DEF Message, Acquires, Cancels, AskStatus, RoundGivesUp, Launch, LedgerGrants,
           StartAccepted, StartRecovered, Throws, Probes, Releases, LedgerFrees, Ages,
           ReplyArrives, Replaced, Fails, Withdraws, LateRequest, Evict, Unnoticed,
           Unlearned, RowStep, admissionVars
    <3>2. UNCHANGED admissionVars
      BY ONLY <3>1 DEF admissionVars
    <3> QED BY ONLY <3>2
  <2> QED BY ONLY ScaleUpNext, <2>1, <2>2, <2>3, <2>4, <2>5, Zenon
        DEF ScaleUpNext, Chain
<1>4. /\ limit' \in Nat \cup {Unlimited}
      /\ streak' \in 0 .. AdmissionProbeSuccesses
      /\ LimitLeavesAProbe'
  BY <1>3, LimitKept DEF ScaleUpInv
<1>5. limited' \in BOOLEAN
  <2>1. \/ limited' = limited
        \/ limited' = (limit' # Unlimited /\ Headroom < Shortfall /\ Headroom <= Width)
        \/ limited' = FALSE
    BY DEF Message, Acquires, Cancels, AskStatus, RoundGivesUp, Allocates,
           AllocatesNothing, Evaluates, Launch, LedgerGrants, LateRequest, ReplyArrives, StartAccepted, StartRecovered,
           StartRefused, Replaced, Fails, Withdraws, Throws, Evict, Probes, Releases,
           JobCompleted, LedgerFrees, Ages, ResetAdmission
  <2>2. limited \in BOOLEAN
    BY DEF ScaleUpInv, ScaleUpTypeOK
  <2>3. (limit' # Unlimited /\ Headroom < Shortfall /\ Headroom <= Width) \in BOOLEAN
    OBVIOUS
  <2> QED BY <2>1, <2>2, <2>3
<1>6. astray' \in Nat
  <2>1. astray \in Nat /\ Count({"asking", "told", "cancelled"}, {FALSE}) \in Nat
    <3>1. rows \in [Keys -> Nat] /\ astray \in Nat
      BY DEF ScaleUpInv, ScaleUpTypeOK, Keys
    <3>2. {"asking", "told", "cancelled"} \in SUBSET Stages /\ {FALSE} \in SUBSET BOOLEAN
      BY DEF Stages
    <3> QED BY <3>1, <3>2, CountIsSize
  <2>2. ASSUME NEW n \in Nat, LeavesBehind(n) PROVE astray' \in Nat
    BY <2>1, <2>2 DEF LeavesBehind
  <2>3. CASE Fails
    <3>1. \E n \in {0, 1} : LeavesBehind(n)
      BY <2>3 DEF Fails
    <3> QED BY <2>2, <3>1
  <2>4. CASE Evict
    BY <2>1, <2>2, <2>4 DEF Evict
  <2>5. CASE LateRequest
    BY <2>1, <2>5 DEF LateRequest
  <2>6. CASE ~Fails /\ ~Evict /\ ~LateRequest
    <3>1. astray' = astray
      BY <2>6 DEF Message, Acquires, Cancels, AskStatus, RoundGivesUp, Allocates,
           AllocatesNothing, Evaluates, Launch, LedgerGrants, ReplyArrives,
           StartAccepted, StartRecovered, StartRefused, Replaced, Withdraws, Throws,
           Probes, Releases, JobCompleted, LedgerFrees, Ages, ResetAdmission
    <3> QED BY <2>1, <3>1
  <2> QED BY <2>3, <2>4, <2>5, <2>6
<1> QED BY <1>1, <1>2, <1>4, <1>5, <1>6

\* ... and what the steps that move no single row do to the rest.
LEMMA OthersKept ==
  ASSUME ScaleUpInv,
         \/ Message \/ Acquires \/ AskStatus \/ RoundGivesUp \/ Allocates
         \/ AllocatesNothing \/ LateRequest \/ Evict \/ ResetAdmission
  PROVE  rows' \in [Keys -> Nat] /\ SeenOrOpen'
<1>1. rows \in [Keys -> Nat] /\ astray \in Nat /\ SeenOrOpen
  BY DEF ScaleUpInv, ScaleUpTypeOK, Keys
<1>2. CASE Message \/ ResetAdmission
  <2>1. rows' = rows /\ round' = round /\ astray' = astray
    BY <1>2 DEF Message, ResetAdmission
  <2>2. Size(rows', Ahead) = Size(rows, Ahead)
    BY <2>1
  <2> QED BY <1>1, <2>1, <2>2 DEF SeenOrOpen
<1>3. CASE Acquires
  <2>1. <<"waiting", FALSE>> \in Keys
    BY DEF Keys, Stages
  <2>2. rows' = [rows EXCEPT ![<<"waiting", FALSE>>] = @ + 1]
    BY <1>3 DEF Acquires
  <2>3. rows[<<"waiting", FALSE>>] + 1 \in Nat
    BY <1>1, <2>1
  <2>4. rows' \in [Keys -> Nat]
    BY <1>1, <2>1, <2>2, <2>3
  <2> QED BY <1>3, <2>4 DEF Acquires, SeenOrOpen
<1>4. CASE AskStatus
  <2>1. /\ Coming = Size(rows, Owed) + astray
        /\ Size(rows, Ahead) = LiveReservations + Size(rows, Owed)
        /\ Size(rows, Owed) \in Nat /\ LiveReservations \in Nat
    BY <1>1, AheadIs, Counts
  <2>2. /\ rows' = rows /\ astray' = astray
        /\ round' = [asked |-> TRUE, live |-> LiveReservations, open |-> Coming]
    BY <1>4 DEF AskStatus
  <2>3. round'.live = LiveReservations /\ round'.open = Coming
    BY <2>2
  <2>4. Size(rows', Ahead) = Size(rows, Ahead)
    BY <2>2
  <2>5. Size(rows, Ahead) + astray <= LiveReservations + Coming
    BY <1>1, <2>1
  <2>6. SeenOrOpen'
    BY <2>2, <2>3, <2>4, <2>5 DEF SeenOrOpen
  <2> QED BY <1>1, <2>2, <2>6
<1>5. CASE RoundGivesUp \/ AllocatesNothing
  <2>1. rows' = rows /\ round' = Unasked
    BY <1>5 DEF RoundGivesUp, AllocatesNothing, Evaluates
  <2> QED BY <1>1, <2>1 DEF Unasked, SeenOrOpen
<1>6. CASE Allocates
  <2>1. Evaluates /\ rows' = [rows EXCEPT ![<<"waiting", FALSE>>] = @ + Admitted]
    BY <1>6 DEF Allocates
  <2>2. Admitted \in Nat
    BY <2>1, AdmittedFits DEF ScaleUpInv
  <2>3. <<"waiting", FALSE>> \in Keys
    BY DEF Keys, Stages
  <2>4. rows[<<"waiting", FALSE>>] + Admitted \in Nat
    BY <1>1, <2>2, <2>3
  <2>5. rows' \in [Keys -> Nat]
    BY <1>1, <2>1, <2>3, <2>4
  <2>6. round' = Unasked
    BY <2>1 DEF Evaluates
  <2> QED BY <2>5, <2>6 DEF Unasked, SeenOrOpen
<1>7. CASE Evict
  <2> DEFINE after(k) == CASE k[1] = "waiting" -> rows[k] + rows[<<"asking", k[2]>>]
                           [] k[1] = "parked" -> rows[k] + rows[<<"told", k[2]>>]
                                                         + rows[<<"refused", k[2]>>]
                           [] k = <<"gone", TRUE>> -> rows[k] + rows[<<"cancelled", TRUE>>]
                                                              + rows[<<"dropped", TRUE>>]
                           [] k[1] \in InFlight -> 0
                           [] OTHER -> rows[k]
  <2>1. rows' = [k \in Keys |-> after(k)]
    BY <1>1, <1>7 DEF Evict
  <2>2. ASSUME NEW k \in Keys PROVE after(k) \in Nat
    <3>1. /\ rows[k] \in Nat /\ rows[<<"asking", k[2]>>] \in Nat
          /\ rows[<<"told", k[2]>>] \in Nat /\ rows[<<"refused", k[2]>>] \in Nat
          /\ rows[<<"cancelled", TRUE>>] \in Nat /\ rows[<<"dropped", TRUE>>] \in Nat
      BY <1>1 DEF Keys, Stages
    <3>2. \A i, j \in Nat : i + j \in Nat
      OBVIOUS
    <3>3. /\ rows[k] + rows[<<"asking", k[2]>>] \in Nat
          /\ rows[k] + rows[<<"told", k[2]>>] + rows[<<"refused", k[2]>>] \in Nat
          /\ rows[k] + rows[<<"cancelled", TRUE>>] + rows[<<"dropped", TRUE>>] \in Nat
      BY <3>1, <3>2
    <3> QED BY <3>1, <3>3
  <2> HIDE DEF after
  <2>3. rows' \in [Keys -> Nat]
    BY <2>1, <2>2
  <2> QED BY <1>7, <2>3 DEF Evict, Unasked, SeenOrOpen
<1>8. CASE LateRequest
  <2>1. /\ astray > 0 /\ astray' = astray - 1 /\ astray' \in Nat /\ round' = round
    BY <1>1, <1>8 DEF LateRequest, Unlearned, RowStep
  <2>2. CASE UNCHANGED rows
    <3>1. Size(rows', Ahead) = Size(rows, Ahead) /\ Size(rows, Ahead) \in Nat
      BY <1>1, <2>2, HeldIsKeys, SizeIsNat
    <3>2. round \in [asked : BOOLEAN, live : Nat, open : Nat]
      BY DEF ScaleUpInv, ScaleUpTypeOK
    <3>3. round.asked => Size(rows', Ahead) + astray' <= round.live + round.open
      BY <1>1, <2>1, <3>1, <3>2 DEF SeenOrOpen
    <3> QED BY <1>1, <2>1, <2>2, <3>3 DEF SeenOrOpen
  <2>3. CASE \E s \in Untold \cup Trying \cup InFlight : Becomes(s, FALSE, s, TRUE)
    <3>1. PICK s \in Stages : Becomes(s, FALSE, s, TRUE)
      BY <2>3 DEF Untold, Trying, InFlight, Stages
    <3> QED BY <2>1, <3>1, RowStepKeeps
  <2>4. CASE rows' = [rows EXCEPT ![<<"gone", TRUE>>] = @ + 1]
    <3> DEFINE k == <<"gone", TRUE>>
    <3>1. k \in Keys
      BY DEF Keys, Stages
    <3> HIDE DEF k
    <3>2. rows' = [rows EXCEPT ![k] = @ + 1]
      BY <2>4 DEF k
    <3>3. /\ rows' \in [Keys -> Nat]
          /\ Size(rows', Ahead) <= Size(rows, Ahead) + 1
      <4>1. Size(rows', Ahead) = Size(rows, Ahead) + (IF k \in Ahead THEN 1 ELSE 0)
        BY <1>1, <3>1, <3>2, HeldIsKeys, KeysFinite, OneMore
      <4>2. Size(rows, Ahead) \in Nat
        BY <1>1, HeldIsKeys, SizeIsNat
      <4>3. rows[k] + 1 \in Nat
        BY <1>1, <3>1
      <4> QED BY <1>1, <3>1, <3>2, <4>1, <4>2, <4>3
    <3>4. Size(rows', Ahead) \in Nat /\ Size(rows, Ahead) \in Nat
      BY <1>1, <3>3, HeldIsKeys, SizeIsNat
    <3>5. round \in [asked : BOOLEAN, live : Nat, open : Nat]
      BY DEF ScaleUpInv, ScaleUpTypeOK
    <3>6. round.asked => Size(rows', Ahead) + astray' <= round.live + round.open
      BY <1>1, <2>1, <3>3, <3>4, <3>5 DEF SeenOrOpen
    <3> QED BY <2>1, <3>3, <3>6 DEF SeenOrOpen
  <2> QED BY <1>8, <2>2, <2>3, <2>4 DEF LateRequest
<1> QED BY <1>2, <1>3, <1>4, <1>5, <1>6, <1>7, <1>8

LEMMA InvKept == ScaleUpInv /\ [ScaleUpNext]_vars => ScaleUpInv'
<1> SUFFICES ASSUME ScaleUpInv, [ScaleUpNext]_vars PROVE ScaleUpInv'
  OBVIOUS
<1>1. CASE UNCHANGED vars
  <2>1. /\ rows' = rows /\ statistics' = statistics /\ round' = round
        /\ astray' = astray /\ limit' = limit /\ streak' = streak /\ limited' = limited
    BY <1>1 DEF vars
  <2>2. Size(rows', Ahead) = Size(rows, Ahead)
    BY <2>1
  <2> QED BY <2>1, <2>2 DEF ScaleUpInv, ScaleUpTypeOK, LimitLeavesAProbe, SeenOrOpen
<1>2. CASE ScaleUpNext
  <2>1. rows' \in [Keys -> Nat] /\ SeenOrOpen'
    BY <1>2, RowsKept, OthersKept, Zenon DEF ScaleUpNext, Chain
  <2>2. rows' \in [Stages \X BOOLEAN -> Nat]
    BY <2>1 DEF Keys
  <2> QED BY <1>2, <2>1, <2>2, RestKept DEF ScaleUpInv, ScaleUpTypeOK
<1> QED BY <1>1, <1>2

\* The variables of the scale-up keep their types.
THEOREM ScaleUpTypes == ScaleUpSpec => []ScaleUpTypeOK
<1>1. ScaleUpInv => ScaleUpTypeOK
  BY DEF ScaleUpInv
<1> QED BY <1>1, InvStarts, InvKept, PTL DEF ScaleUpSpec

\* However many refusals, censuses and deliveries the listener learns from, and
\* in whichever order, its limit never falls below the one delivery probe.
THEOREM LimitHasAFloor == ScaleUpSpec => []LimitLeavesAProbe
<1>1. ScaleUpInv => LimitLeavesAProbe
  BY DEF ScaleUpInv
<1> QED BY <1>1, InvStarts, InvKept, PTL DEF ScaleUpSpec

\* A round that uses an old view of the supply adds no more than is missing, but
\* for the requests that the ledger has answered since, whatever became of the
\* rows and chains that sent them.
THEOREM RoundsFit == ScaleUpSpec => RoundsOvershootNothing
<1>1. ScaleUpInv /\ [ScaleUpNext]_vars
        => [ Allocates /\ Supply' > Supply
               => /\ Supply' <= Desired(LiveSupply) + Answered
                  /\ limit' # Unlimited => Supply' <= limit' + Answered ]_vars
  BY AllocationFits
<1> QED BY <1>1, InvStarts, InvKept, PTL DEF ScaleUpSpec, RoundsOvershootNothing
=============================================================================
