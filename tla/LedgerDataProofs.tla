-------------------------- MODULE LedgerDataProofs --------------------------
(***************************************************************************)
(* Facts about StreamUpTo, the transactions of the first n confirmed       *)
(* blocks in the order the pipeline must apply them: how it unfolds, that  *)
(* it is a sequence of transactions, that lazy blocks leave it unchanged   *)
(* and that a shorter ledger prefix gives a prefix of it.                  *)
(***************************************************************************)
EXTENDS LedgerData, NaturalsInduction, WellFoundedInduction, SequenceTheorems, TLAPS

(* The number of confirmed blocks. *)
N == Len(LedgerOrder)

(* The step of StreamUpTo's recursion. *)
StreamStep(v, i) == v \o Contribution(LedgerOrder[i])

LEMMA LedgerLen == N \in Nat
BY LedgerDataAssumption DEF LedgerDataAssumption, N

(* Every confirmed block is a block. *)
LEMMA LedgerBlocks == \A i \in 1..N : LedgerOrder[i] \in Blocks
BY LedgerDataAssumption DEF LedgerDataAssumption, N

(* What the sequencer forwards for a block is a list of transactions. *)
LEMMA ContributionType ==
  ASSUME NEW b \in Blocks
  PROVE  Contribution(b) \in Seq(Txs)
BY LedgerDataAssumption DEF LedgerDataAssumption, Contribution

(* StreamUpTo unfolds as its definition says, on the whole of its domain. *)
LEMMA StreamDef ==
  /\ StreamUpTo[0] = <<>>
  /\ \A n \in 1..N : StreamUpTo[n] = StreamUpTo[n - 1] \o Contribution(LedgerOrder[n])
<1>1. FiniteNatInductiveDefHypothesis(StreamUpTo, <<>>, StreamStep, 0, N)
  BY DEF FiniteNatInductiveDefHypothesis, StreamUpTo, StreamStep, N
<1>2. FiniteNatInductiveDefConclusion(StreamUpTo, <<>>, StreamStep, 0, N)
  BY <1>1, LedgerLen, FiniteNatInductiveDef
<1> QED
  BY <1>2, LedgerLen DEF FiniteNatInductiveDefConclusion, StreamStep

(* The less-than relation on the naturals, as a set of pairs. *)
NatLess == OpToRel(<, Nat)

(* Induction over Nat for a set of naturals: a set that holds 0 and is    *)
(* closed under successor holds every natural.  Stated on sets so that the *)
(* provers need no higher-order instantiation.                            *)
LEMMA NatSetInduction ==
  ASSUME NEW S \in SUBSET Nat, 0 \in S,
         \A k \in S : k + 1 \in S
  PROVE  Nat \subseteq S
<1> DEFINE T == Nat \ S
<1> SUFFICES ASSUME T # {} PROVE FALSE
  OBVIOUS
<1>0. IsWellFoundedOn(NatLess, Nat)
  BY Zenon, NatLessThanWellFounded DEF NatLess
<1>1. PICK x \in T : \A y \in T : ~(<<y, x>> \in NatLess)
  BY Zenon, <1>0, WFMin
<1>2. x # 0 /\ x - 1 \in Nat
  OBVIOUS
<1>3. <<x - 1, x>> \in NatLess
  BY <1>2 DEF NatLess, OpToRel
<1>4. x - 1 \in S
  BY <1>1, <1>2, <1>3
<1> QED  BY <1>4

(* The induction hypothesis of StreamType. *)
StreamTypeAt(k) == k \in 0..N => StreamUpTo[k] \in Seq(Txs)

(* Every stream prefix is a sequence of transactions. *)
LEMMA StreamType == \A n \in 0..N : StreamUpTo[n] \in Seq(Txs)
<1>1. StreamTypeAt(0)
  BY StreamDef DEF StreamTypeAt
<1>2. \A k \in Nat : StreamTypeAt(k) => StreamTypeAt(k + 1)
  <2> SUFFICES ASSUME NEW k \in Nat, StreamTypeAt(k), k + 1 \in 0..N
               PROVE  StreamUpTo[k + 1] \in Seq(Txs)
    BY DEF StreamTypeAt
  <2>0. k \in 0..N /\ k + 1 \in 1..N /\ (k + 1) - 1 = k
    BY LedgerLen
  <2>1. StreamUpTo[k] \in Seq(Txs)
    BY <2>0 DEF StreamTypeAt
  <2>2. Contribution(LedgerOrder[k + 1]) \in Seq(Txs)
    BY <2>0, LedgerBlocks, ContributionType
  <2>3. StreamUpTo[k + 1] = StreamUpTo[k] \o Contribution(LedgerOrder[k + 1])
    BY <2>0, StreamDef
  <2> QED  BY <2>1, <2>2, <2>3
<1>3. \A k \in Nat : StreamTypeAt(k)
  <2> DEFINE S == {k \in Nat : StreamTypeAt(k)}
  <2>1. 0 \in S /\ \A k \in S : k + 1 \in S
    BY <1>1, <1>2
  <2>2. Nat \subseteq S
    BY <2>1, NatSetInduction
  <2> QED  BY <2>2
<1> QED  BY <1>3, LedgerLen DEF StreamTypeAt

(* The induction hypothesis of LazyGap: k lazy blocks after the m-th one  *)
(* leave the stream as it was.                                            *)
LazyGapAt(k) ==
  \A i \in 0..N :
    (i + k \in 0..N /\ \A p \in (i + 1)..(i + k) : LedgerOrder[p] \in Lazy)
      => StreamUpTo[i + k] = StreamUpTo[i]

(* Lazy blocks contribute nothing: across a run of them the stream stays   *)
(* the same.                                                              *)
LEMMA LazyGap ==
  ASSUME NEW m \in 0..N, NEW n \in m..N,
         \A p \in (m + 1)..n : LedgerOrder[p] \in Lazy
  PROVE  StreamUpTo[n] = StreamUpTo[m]
<1>1. LazyGapAt(0)
  BY LedgerLen DEF LazyGapAt
<1>2. \A k \in Nat : LazyGapAt(k) => LazyGapAt(k + 1)
  <2> SUFFICES ASSUME NEW k \in Nat, LazyGapAt(k), NEW j \in 0..N,
                      j + k + 1 \in 0..N,
                      \A p \in (j + 1)..(j + k + 1) : LedgerOrder[p] \in Lazy
               PROVE  StreamUpTo[j + k + 1] = StreamUpTo[j]
    BY DEF LazyGapAt
  <2>0. j + k \in 0..N /\ j + k + 1 \in 1..N /\ (j + k + 1) - 1 = j + k
    BY LedgerLen
  <2>1. \A p \in (j + 1)..(j + k) : LedgerOrder[p] \in Lazy
    BY LedgerLen
  <2>2. StreamUpTo[j + k] = StreamUpTo[j]
    BY <2>0, <2>1 DEF LazyGapAt
  <2>3. LedgerOrder[j + k + 1] \in Lazy
    BY LedgerLen
  <2>4. Contribution(LedgerOrder[j + k + 1]) = <<>>
    BY <2>3 DEF Contribution
  <2>5. StreamUpTo[j + k + 1] = StreamUpTo[j + k] \o <<>>
    BY <2>0, <2>4, StreamDef
  <2>6. StreamUpTo[j + k] \in Seq(Txs)
    BY <2>0, StreamType
  <2> QED  BY <2>2, <2>5, <2>6
<1>3. \A k \in Nat : LazyGapAt(k)
  <2> DEFINE S == {k \in Nat : LazyGapAt(k)}
  <2>1. 0 \in S /\ \A k \in S : k + 1 \in S
    BY <1>1, <1>2
  <2>2. Nat \subseteq S
    BY <2>1, NatSetInduction
  <2> QED  BY <2>2
<1>4. n - m \in Nat /\ m + (n - m) = n
  BY LedgerLen
<1>5. LazyGapAt(n - m)
  BY <1>3, <1>4
<1>6. m + (n - m) \in 0..N /\ \A p \in (m + 1)..(m + (n - m)) : LedgerOrder[p] \in Lazy
  BY <1>4
<1> QED  BY <1>4, <1>5, <1>6 DEF LazyGapAt

(* Concatenation of transaction lists is associative. *)
LEMMA TxsConcatAssoc ==
  ASSUME NEW a \in Seq(Txs), NEW b \in Seq(Txs), NEW c \in Seq(Txs)
  PROVE  (a \o b) \o c = a \o (b \o c)
BY ConcatAssociative

(* The induction hypothesis of StreamGrows. *)
StreamGrowsAt(k) ==
  \A i \in 0..N :
    i + k \in 0..N => \E u \in Seq(Txs) : StreamUpTo[i] \o u = StreamUpTo[i + k]

(* The stream of a shorter ledger prefix is a prefix of the stream of a   *)
(* longer one.                                                            *)
LEMMA StreamGrows ==
  ASSUME NEW m \in 0..N, NEW n \in m..N
  PROVE  \E t \in Seq(Txs) : StreamUpTo[m] \o t = StreamUpTo[n]
<1>1. StreamGrowsAt(0)
  <2> SUFFICES ASSUME NEW j \in 0..N
               PROVE  \E t \in Seq(Txs) : StreamUpTo[j] \o t = StreamUpTo[j + 0]
    BY DEF StreamGrowsAt
  <2>1. StreamUpTo[j] \in Seq(Txs)
    BY StreamType
  <2>2. <<>> \in Seq(Txs) /\ StreamUpTo[j] \o <<>> = StreamUpTo[j + 0]
    BY <2>1
  <2> QED  BY <2>2
<1>2. \A k \in Nat : StreamGrowsAt(k) => StreamGrowsAt(k + 1)
  <2> SUFFICES ASSUME NEW k \in Nat, StreamGrowsAt(k)
               PROVE  StreamGrowsAt(k + 1)
    OBVIOUS
  <2> SUFFICES ASSUME NEW j \in 0..N, j + (k + 1) \in 0..N
               PROVE  \E u \in Seq(Txs) : StreamUpTo[j] \o u = StreamUpTo[j + (k + 1)]
    BY DEF StreamGrowsAt
  <2>0. /\ j + k \in 0..N
        /\ j + (k + 1) \in 1..N
        /\ (j + (k + 1)) - 1 = j + k
    BY LedgerLen
  <2>1. PICK t \in Seq(Txs) : StreamUpTo[j] \o t = StreamUpTo[j + k]
    BY <2>0 DEF StreamGrowsAt
  <2> DEFINE c == Contribution(LedgerOrder[j + (k + 1)])
  <2>2. c \in Seq(Txs)
    BY <2>0, LedgerBlocks, ContributionType
  <2>3. StreamUpTo[j + (k + 1)] = StreamUpTo[j + k] \o c
    BY <2>0, StreamDef
  <2>4. StreamUpTo[j] \in Seq(Txs)
    BY StreamType
  <2>5. (StreamUpTo[j] \o t) \o c = StreamUpTo[j] \o (t \o c)
    <3> DEFINE a == StreamUpTo[j]
    <3>1. a \in Seq(Txs) /\ c \in Seq(Txs)
      BY <2>2, <2>4
    <3> HIDE DEF a, c
    <3>2. (a \o t) \o c = a \o (t \o c)
      BY <3>1, TxsConcatAssoc
    <3> QED  BY <3>2 DEF a
  <2>6. t \o c \in Seq(Txs)
    BY <2>2
  <2> QED  BY <2>1, <2>3, <2>5, <2>6
<1>3. \A k \in Nat : StreamGrowsAt(k)
  <2> DEFINE S == {k \in Nat : StreamGrowsAt(k)}
  <2>1. 0 \in S /\ \A k \in S : k + 1 \in S
    BY <1>1, <1>2
  <2>2. Nat \subseteq S
    BY <2>1, NatSetInduction
  <2> QED  BY <2>2
<1>4. n - m \in Nat /\ m + (n - m) = n
  BY LedgerLen
<1>5. StreamGrowsAt(n - m)
  BY <1>3, <1>4
<1>6. m + (n - m) \in 0..N
  BY <1>4
<1> QED  BY <1>4, <1>5, <1>6 DEF StreamGrowsAt

====
