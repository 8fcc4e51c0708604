------------------------- MODULE LedgerManagerProofs -------------------------
(***************************************************************************)
(* Proofs about the ledger pipeline of LedgerManager, for every ledger,    *)
(* every channel capacity and with or without collaborator faults: the     *)
(* state stays well typed, transactions are applied in ledger order, the   *)
(* committed state always ends at a block boundary, and every step of the  *)
(* two threads is a step of LedgerSpec or leaves its variables alone.      *)
(*                                                                         *)
(* The argument follows each confirmed block through the pipeline.  Handled*)
(* blocks are those the sequencer has taken off its diff; the non-lazy     *)
(* ones after the last block the applier has received sit in the channel,  *)
(* in ledger order; everything up to that block is applied or still in     *)
(* the applier's hands.                                                    *)
(***************************************************************************)
EXTENDS LedgerManager, LedgerDataProofs, TLAPS

(* How many blocks of LedgerOrder the sequencer has handled: skipped as    *)
(* lazy or sent.                                                           *)
Handled == pulled - Len(pending)

(* What is in the channel, given ra, the ledger position of the last     *)
(* block the applier has received (0 before the first), and idx, the      *)
(* ledger position of each list in the channel: handled non-lazy blocks   *)
(* after ra, their transaction lists, oldest first.                       *)
InFlight(ra, idx) ==
  \A i \in 1..Len(queue) :
     /\ ra < idx[i]
     /\ idx[i] <= Handled
     /\ LedgerOrder[idx[i]] \notin Lazy
     /\ queue[i] = BlockTxs[LedgerOrder[idx[i]]]

(* The channel keeps ledger order. *)
Ordered(idx) == \A i, j \in 1..Len(queue) : i < j => idx[i] < idx[j]

(* No handled non-lazy block after ra is missing from the channel. *)
Covered(ra, idx) ==
  \A p \in (ra + 1)..Handled :
     LedgerOrder[p] \notin Lazy => \E i \in 1..Len(queue) : idx[i] = p

(* The applier has applied, or holds, exactly the stream up to block ra;  *)
(* it has committed that stream when waiting on the channel, the stream   *)
(* before block ra while applying it, and some block-aligned stream once  *)
(* dead.                                                                  *)
ApplierAt(ra) ==
  /\ applied \o current = StreamUpTo[ra]
  /\ applier = "recv" => current = <<>> /\ committed = applied
  /\ applier = "apply" => ra \in 1..N /\ committed = StreamUpTo[ra - 1]
  /\ applier = "dead" => \E n \in 0..ra : committed = StreamUpTo[n]

Pipe(ra, idx) ==
  /\ InFlight(ra, idx)
  /\ Ordered(idx)
  /\ Covered(ra, idx)
  /\ ApplierAt(ra)

(* The inductive invariant: the sequencer's diff is the unhandled rest of  *)
(* the blocks pulled so far, and the channel and the applier are as Pipe   *)
(* says for some ra and idx.                                               *)
IInv ==
  /\ TypeOK
  /\ Len(pending) <= pulled
  /\ pending = SubSeq(LedgerOrder, Handled + 1, pulled)
  /\ \E ra \in 0..Handled, idx \in [1..Len(queue) -> 1..N] : Pipe(ra, idx)

-----------------------------------------------------------------------------
LEMMA BufferPositive == BufferSize \in Nat \ {0}
BY LedgerManagerAssumption DEF LedgerManagerAssumption

(* The ledger is a sequence of blocks. *)
LEMMA LedgerSeq == LedgerOrder \in Seq(Blocks)
BY LedgerDataAssumption DEF LedgerDataAssumption

(* Under the invariant, the diff's head is the next unhandled block and   *)
(* its tail is the rest of the diff.                                       *)
LEMMA PendingHead ==
  ASSUME IInv, pending # <<>>
  PROVE  /\ Handled \in 0..(pulled - 1)
         /\ Handled + 1 \in 1..N
         /\ Head(pending) = LedgerOrder[Handled + 1]
         /\ Tail(pending) = SubSeq(LedgerOrder, Handled + 2, pulled)
         /\ Head(pending) \in Blocks
<1>1. /\ pulled \in 0..N
      /\ pending = SubSeq(LedgerOrder, Handled + 1, pulled)
      /\ Len(pending) \in 1..pulled
  BY DEF IInv, TypeOK, N
<1>2. Handled \in 0..(pulled - 1) /\ Handled + 1 \in 1..N
  BY <1>1, LedgerLen DEF Handled
<1>3. Head(pending) = LedgerOrder[Handled + 1]
  BY <1>1, <1>2, LedgerSeq DEF N
<1>4. Tail(pending) = SubSeq(LedgerOrder, Handled + 2, pulled)
  BY <1>1, <1>2, LedgerSeq DEF N
<1> QED  BY <1>2, <1>3, <1>4, LedgerBlocks

LEMMA InitIInv == Init => IInv
<1> SUFFICES ASSUME Init PROVE IInv
  OBVIOUS
<1>1. TypeOK
  BY BufferPositive, LedgerLen DEF Init, TypeOK, N
<1>2. pulled = 0
  BY DEF Init
<1>3. Len(pending) = 0 /\ Len(queue) = 0
  BY DEF Init
<1>4. Handled = 0 /\ Len(pending) <= pulled
  BY <1>2, <1>3 DEF Handled
<1>5. pending = SubSeq(LedgerOrder, Handled + 1, pulled)
  <2>1. SubSeq(LedgerOrder, 1, 0) = <<>>
    BY SubSeqEmpty
  <2> QED  BY <1>2, <1>4, <2>1 DEF Init
<1>6. Pipe(0, [i \in 1..0 |-> 1])
  BY <1>3, <1>4, StreamDef
  DEF Init, Pipe, InFlight, Ordered, Covered, ApplierAt
<1>7. \E ra \in 0..Handled, idx \in [1..Len(queue) -> 1..N] : Pipe(ra, idx)
  <2>1. 0 \in 0..Handled
    BY <1>4
  <2>2. [i \in 1..0 |-> 1] \in [1..Len(queue) -> 1..N]
    BY <1>3
  <2> QED  BY Zenon, <1>6, <2>1, <2>2
<1> QED  BY Zenon, <1>1, <1>4, <1>5, <1>7 DEF IInv

-----------------------------------------------------------------------------
(* The sequencer's steps.  None of them touches the applier, and the      *)
(* channel changes only by SeqSend's append.                               *)

(* The conjuncts of the invariant other than Pipe, for citing alone. *)
LEMMA IInvParts ==
  ASSUME IInv
  PROVE  /\ TypeOK
         /\ Len(pending) <= pulled
         /\ pending = SubSeq(LedgerOrder, Handled + 1, pulled)
BY Zenon DEF IInv

(* A step that leaves the applier's variables alone leaves ApplierAt as  *)
(* it was.                                                                 *)
LEMMA ApplierFrame ==
  ASSUME NEW ra, UNCHANGED appVars
  PROVE  ApplierAt(ra)' = ApplierAt(ra)
BY DEF appVars, ApplierAt

(* A step that leaves the channel and the handled count alone leaves the   *)
(* channel's part of Pipe as it was.                                       *)
LEMMA ChannelFrame ==
  ASSUME NEW ra, NEW idx, queue' = queue, Handled' = Handled
  PROVE  /\ InFlight(ra, idx)' = InFlight(ra, idx)
         /\ Ordered(idx)' = Ordered(idx)
         /\ Covered(ra, idx)' = Covered(ra, idx)
BY DEF InFlight, Ordered, Covered

LEMMA SeqPullIInv ==
  ASSUME IInv, SeqPull
  PROVE  IInv'
<1>0. /\ pending = <<>>
      /\ sequencer' = sequencer /\ queue' = queue
      /\ UNCHANGED appVars
  BY DEF SeqPull
<1>1. PICK ra \in 0..Handled, idx \in [1..Len(queue) -> 1..N] : Pipe(ra, idx)
  BY DEF IInv
<1>1a. InFlight(ra, idx) /\ Ordered(idx) /\ Covered(ra, idx) /\ ApplierAt(ra)
  BY <1>1 DEF Pipe
<1>2. PICK n \in pulled..N :
        pulled' = n /\ pending' = SubSeq(LedgerOrder, pulled + 1, n)
  BY DEF SeqPull, N
<1>3. pulled \in 0..N /\ Len(pending) = 0
  BY <1>0, IInvParts DEF TypeOK, N
<1>4. Handled = pulled
  BY <1>3 DEF Handled
<1>5. pending' \in Seq(Blocks) /\ Len(pending') = n - pulled
  BY <1>2, <1>3, LedgerSeq, LedgerLen DEF N
<1>6. Handled' = Handled
  <2>1. pulled' = n
    BY <1>2
  <2> QED  BY <2>1, <1>3, <1>4, <1>5 DEF Handled
<1>7. TypeOK'
  BY <1>0, <1>2, <1>5, IInvParts DEF TypeOK, N, appVars
<1>8. Pipe(ra, idx)'
  BY <1>0, <1>1, <1>6, ApplierFrame, ChannelFrame DEF Pipe
<1>9. /\ Len(pending') <= pulled'
      /\ pending' = SubSeq(LedgerOrder, Handled' + 1, pulled')
  BY <1>2, <1>3, <1>4, <1>5, <1>6, LedgerLen DEF N
<1>10. ra \in 0..Handled' /\ idx \in [1..Len(queue') -> 1..N]
  BY <1>0, <1>1, <1>6
<1> QED  BY Zenon, <1>7, <1>8, <1>9, <1>10 DEF IInv

LEMMA SeqSkipLazyIInv ==
  ASSUME IInv, SeqSkipLazy
  PROVE  IInv'
<1>0. /\ pending # <<>>
      /\ Head(pending) \in Lazy
      /\ pending' = Tail(pending)
      /\ pulled' = pulled /\ sequencer' = sequencer /\ queue' = queue
      /\ UNCHANGED appVars
  BY DEF SeqSkipLazy
<1>1. PICK ra \in 0..Handled, idx \in [1..Len(queue) -> 1..N] : Pipe(ra, idx)
  BY DEF IInv
<1>1a. InFlight(ra, idx) /\ Ordered(idx) /\ Covered(ra, idx) /\ ApplierAt(ra)
  BY <1>1 DEF Pipe
<1>2. /\ Handled \in 0..(pulled - 1)
      /\ Head(pending) = LedgerOrder[Handled + 1]
      /\ Tail(pending) = SubSeq(LedgerOrder, Handled + 2, pulled)
  BY <1>0, PendingHead
<1>3. pending \in Seq(Blocks) /\ Len(pending) \in 1..pulled /\ pulled \in 0..N
  BY <1>0, IInvParts DEF TypeOK, N
<1>4. Len(pending') = Len(pending) - 1 /\ pending' \in Seq(Blocks)
  BY <1>0, <1>3
<1>5. Handled' = Handled + 1
  BY <1>0, <1>3, <1>4 DEF Handled
<1>6. LedgerOrder[Handled + 1] \in Lazy
  BY <1>0, <1>2
<1>7. TypeOK'
  BY <1>0, <1>4, IInvParts DEF TypeOK, appVars
<1>8. /\ InFlight(ra, idx)'
      /\ Ordered(idx)'
      /\ Covered(ra, idx)'
  <2>0. queue' = queue
    BY <1>0
  <2>1. InFlight(ra, idx)'
    BY <2>0, <1>1a, <1>2, <1>5 DEF InFlight
  <2>2. Ordered(idx)'
    BY <2>0, <1>1a DEF Ordered
  <2>3. Covered(ra, idx)'
    BY <2>0, <1>1a, <1>2, <1>5, <1>6 DEF Covered
  <2> QED  BY <2>1, <2>2, <2>3
<1>9. ApplierAt(ra)'
  BY <1>0, <1>1a, ApplierFrame
<1>10. /\ Len(pending') <= pulled'
       /\ pending' = SubSeq(LedgerOrder, Handled' + 1, pulled')
  BY <1>0, <1>2, <1>3, <1>4, <1>5
<1>11. ra \in 0..Handled' /\ idx \in [1..Len(queue') -> 1..N]
  BY <1>0, <1>1, <1>2, <1>5
<1> QED  BY Zenon, <1>7, <1>8, <1>9, <1>10, <1>11 DEF IInv, Pipe

LEMMA SeqSendIInv ==
  ASSUME IInv, SeqSend
  PROVE  IInv'
<1>0. /\ pending # <<>>
      /\ Head(pending) \notin Lazy
      /\ Len(queue) < BufferSize
      /\ queue' = Append(queue, BlockTxs[Head(pending)])
      /\ pending' = Tail(pending)
      /\ pulled' = pulled /\ sequencer' = sequencer
      /\ UNCHANGED appVars
  BY DEF SeqSend
<1>1. PICK ra \in 0..Handled, idx \in [1..Len(queue) -> 1..N] : Pipe(ra, idx)
  BY DEF IInv
<1>1a. InFlight(ra, idx) /\ Ordered(idx) /\ Covered(ra, idx) /\ ApplierAt(ra)
  BY <1>1 DEF Pipe
<1>2. /\ Handled \in 0..(pulled - 1)
      /\ Handled + 1 \in 1..N
      /\ Head(pending) = LedgerOrder[Handled + 1]
      /\ Tail(pending) = SubSeq(LedgerOrder, Handled + 2, pulled)
      /\ Head(pending) \in Blocks
  BY <1>0, PendingHead
<1>3. pending \in Seq(Blocks) /\ Len(pending) \in 1..pulled /\ pulled \in 0..N
      /\ queue \in Seq(Seq(Txs))
  BY <1>0, IInvParts DEF TypeOK, N
<1>4. Len(pending') = Len(pending) - 1 /\ pending' \in Seq(Blocks)
  BY <1>0, <1>3
<1>5. Handled' = Handled + 1
  BY <1>0, <1>3, <1>4 DEF Handled
<1> DEFINE h == Handled + 1
           L == Len(queue)
<1>5a. PICK idx2 : idx2 = [i \in 1..L + 1 |-> IF i <= L THEN idx[i] ELSE h]
  OBVIOUS
<1>6. BlockTxs[LedgerOrder[h]] \in Seq(Txs) /\ LedgerOrder[h] \notin Lazy
  BY <1>0, <1>2, LedgerDataAssumption DEF LedgerDataAssumption
<1>7. /\ queue' = Append(queue, BlockTxs[LedgerOrder[h]])
      /\ Len(queue') = L + 1
      /\ queue' \in Seq(Seq(Txs))
      /\ \A i \in 1..L : queue'[i] = queue[i]
      /\ queue'[L + 1] = BlockTxs[LedgerOrder[h]]
  BY <1>0, <1>2, <1>3, <1>6
<1>8. TypeOK'
  BY <1>0, <1>4, <1>7, BufferPositive, IInvParts DEF TypeOK, appVars
<1>9. InFlight(ra, idx2)'
  <2> SUFFICES ASSUME NEW i \in 1..L + 1
               PROVE  /\ ra < idx2[i]
                      /\ idx2[i] <= h
                      /\ LedgerOrder[idx2[i]] \notin Lazy
                      /\ queue'[i] = BlockTxs[LedgerOrder[idx2[i]]]
    BY <1>2, <1>5, <1>7 DEF InFlight
  <2>1. CASE i <= L
    <3>1. idx2[i] = idx[i]
      BY <1>5a, <2>1
    <3>2. queue'[i] = queue[i]
      BY <1>7, <2>1
    <3>3. /\ ra < idx[i]
          /\ idx[i] <= Handled
          /\ LedgerOrder[idx[i]] \notin Lazy
          /\ queue[i] = BlockTxs[LedgerOrder[idx[i]]]
      BY <1>1a, <2>1 DEF InFlight
    <3>4. idx[i] <= h
      <4>1. i \in 1..Len(queue)
        BY <1>3, <2>1
      <4>2. idx[i] \in 1..N
        BY <4>1
      <4>3. Handled \in Nat
        BY <1>2, <1>3, LedgerLen
      <4> QED  BY <3>3, <4>2, <4>3, LedgerLen
    <3> QED  BY Zenon, <3>1, <3>2, <3>3, <3>4
  <2>2. CASE i = L + 1
    BY <1>1, <1>2, <1>3, <1>5a, <1>6, <1>7, <2>2
  <2> QED  BY <2>1, <2>2
<1>10. Ordered(idx2)'
  <2> SUFFICES ASSUME NEW i \in 1..L + 1, NEW j \in 1..L + 1, i < j
               PROVE  idx2[i] < idx2[j]
    BY <1>7 DEF Ordered
  <2>1. CASE j <= L
    BY <1>1a, <1>2, <1>5a, <2>1 DEF Ordered
  <2>2. CASE j = L + 1
    <3>1. i \in 1..L /\ idx2[i] = idx[i] /\ idx2[j] = h
      BY <1>5a, <2>2
    <3>2. idx[i] <= Handled /\ idx[i] \in 1..N
      BY <1>1a, <3>1 DEF InFlight
    <3> QED  BY <1>2, <3>1, <3>2, LedgerLen
  <2> QED  BY <2>1, <2>2
<1>11. Covered(ra, idx2)'
  <2> SUFFICES ASSUME NEW p \in (ra + 1)..h, LedgerOrder[p] \notin Lazy
               PROVE  \E i \in 1..L + 1 : idx2[i] = p
    BY <1>2, <1>5, <1>7 DEF Covered
  <2>1. CASE p <= Handled
    BY <1>1a, <1>2, <1>5a, <2>1 DEF Covered
  <2>2. CASE p = h
    BY <1>2, <1>5a, <2>2
  <2> QED  BY <1>1, <1>2, <2>1, <2>2
<1>12. ApplierAt(ra)'
  BY <1>0, <1>1a, ApplierFrame
<1>13. /\ Len(pending') <= pulled'
       /\ pending' = SubSeq(LedgerOrder, Handled' + 1, pulled')
  BY <1>0, <1>2, <1>3, <1>4, <1>5
<1>14. ra \in 0..Handled' /\ idx2 \in [1..Len(queue') -> 1..N]
  BY <1>1, <1>2, <1>5, <1>5a, <1>7
<1> QED  BY Zenon, <1>8, <1>9, <1>10, <1>11, <1>12, <1>13, <1>14 DEF IInv, Pipe

LEMMA SeqPanicIInv ==
  ASSUME IInv, SeqPanic
  PROVE  IInv'
<1>0. /\ pulled' = pulled /\ pending' = pending /\ queue' = queue
      /\ sequencer' = "dead"
      /\ UNCHANGED appVars
  BY DEF SeqPanic
<1>1. PICK ra \in 0..Handled, idx \in [1..Len(queue) -> 1..N] : Pipe(ra, idx)
  BY DEF IInv
<1>1a. InFlight(ra, idx) /\ Ordered(idx) /\ Covered(ra, idx) /\ ApplierAt(ra)
  BY <1>1 DEF Pipe
<1>2. Handled' = Handled
  BY <1>0 DEF Handled
<1>3. Pipe(ra, idx)'
  BY <1>0, <1>1, <1>2, ApplierFrame, ChannelFrame DEF Pipe
<1>4. TypeOK'
  BY <1>0, IInvParts DEF TypeOK, appVars
<1> QED
  BY <1>0, <1>1, <1>2, <1>3, <1>4 DEF IInv

-----------------------------------------------------------------------------
(* The applier's steps.  None of them touches the sequencer's variables,  *)
(* so the handled count stays put.                                         *)

(* Applying the head of a list moves it from the list to the applied      *)
(* sequence and leaves their concatenation alone.                          *)
LEMMA ApplyHeadKeeps ==
  ASSUME NEW a \in Seq(Txs), NEW c \in Seq(Txs), c # <<>>
  PROVE  Append(a, Head(c)) \o Tail(c) = a \o c
<1>1. Len(Append(a, Head(c)) \o Tail(c)) = Len(a \o c)
  OBVIOUS
<1>2. \A k \in 1..Len(a \o c) : (Append(a, Head(c)) \o Tail(c))[k] = (a \o c)[k]
  OBVIOUS
<1>3. Append(a, Head(c)) \o Tail(c) \in Seq(Txs) /\ a \o c \in Seq(Txs)
  OBVIOUS
<1> QED  BY <1>1, <1>2, <1>3, SeqEqual

(* Under the invariant, an applier waiting on the channel has committed    *)
(* and applied exactly the stream up to ra.                                *)
LEMMA RecvState ==
  ASSUME TypeOK, NEW ra, ApplierAt(ra), applier = "recv"
  PROVE  applied = StreamUpTo[ra] /\ committed = applied /\ current = <<>>
<1>1. current = <<>> /\ committed = applied
  BY DEF ApplierAt
<1>2. applied \o current = StreamUpTo[ra] /\ applied \in Seq(Txs)
  BY DEF ApplierAt, TypeOK
<1>3. applied \o <<>> = applied
  BY <1>2
<1> QED  BY <1>1, <1>2, <1>3

LEMMA AppRecvIInv ==
  ASSUME IInv, AppRecv
  PROVE  IInv'
<1>0. /\ applier = "recv" /\ queue # <<>>
      /\ current' = Head(queue) /\ queue' = Tail(queue)
      /\ applier' = "apply"
      /\ applied' = applied /\ committed' = committed
      /\ UNCHANGED seqVars
  BY DEF AppRecv
<1>1. PICK ra \in 0..Handled, idx \in [1..Len(queue) -> 1..N] : Pipe(ra, idx)
  BY DEF IInv
<1>1a. InFlight(ra, idx) /\ Ordered(idx) /\ Covered(ra, idx) /\ ApplierAt(ra)
  BY <1>1 DEF Pipe
<1> DEFINE L == Len(queue)
<1>2. /\ queue \in Seq(Seq(Txs)) /\ L \in 1..BufferSize
      /\ pulled \in 0..N /\ Len(pending) \in 0..pulled
      /\ Handled \in 0..N
  <2>1. /\ queue \in Seq(Seq(Txs)) /\ Len(queue) <= BufferSize
        /\ pulled \in 0..N /\ pending \in Seq(Blocks)
        /\ Len(pending) <= pulled
    BY IInvParts DEF TypeOK, N
  <2>2. L \in 1..BufferSize
    BY <1>0, <2>1, BufferPositive
  <2>3. Len(pending) \in 0..pulled /\ Handled \in 0..N
    BY <2>1, LedgerLen DEF Handled
  <2> QED  BY <2>1, <2>2, <2>3
<1>3. Handled' = Handled
  BY <1>0 DEF seqVars, Handled
<1>4. applied = StreamUpTo[ra] /\ committed = applied
  BY <1>0, <1>1a, IInvParts, RecvState
<1> DEFINE r == idx[1]
<1>5. /\ r \in 1..N
      /\ ra < r /\ r <= Handled
      /\ LedgerOrder[r] \notin Lazy
      /\ queue[1] = BlockTxs[LedgerOrder[r]]
  <2>1. 1 \in 1..L
    BY <1>2
  <2> QED  BY <1>1a, <2>1 DEF InFlight
<1>6. \A p \in (ra + 1)..(r - 1) : LedgerOrder[p] \in Lazy
  <2> SUFFICES ASSUME NEW p \in (ra + 1)..(r - 1), LedgerOrder[p] \notin Lazy
               PROVE  FALSE
    OBVIOUS
  <2>1. p \in (ra + 1)..Handled
    BY <1>2, <1>5
  <2>2. PICK i \in 1..L : idx[i] = p
    BY <1>1a, <2>1 DEF Covered
  <2>3. CASE i = 1
    BY <2>2, <2>3, <1>5
  <2>4. CASE i # 1
    <3>1. 1 \in 1..L /\ 1 < i
      BY <2>4
    <3>2. r < idx[i]
      BY <1>1a, <3>1 DEF Ordered
    <3> QED  BY <1>5, <2>2, <3>2
  <2> QED  BY <2>3, <2>4
<1>7. StreamUpTo[r - 1] = StreamUpTo[ra]
  <2>1. ra \in 0..N /\ r - 1 \in ra..N
    BY <1>2, <1>5, LedgerLen
  <2> QED  BY <1>6, <2>1, LazyGap
<1>8. StreamUpTo[r] = StreamUpTo[ra] \o BlockTxs[LedgerOrder[r]]
  <2>1. StreamUpTo[r] = StreamUpTo[r - 1] \o Contribution(LedgerOrder[r])
    BY <1>5, StreamDef
  <2>2. Contribution(LedgerOrder[r]) = BlockTxs[LedgerOrder[r]]
    BY <1>5 DEF Contribution
  <2> QED  BY <1>7, <2>1, <2>2
<1>9. ApplierAt(r)'
  <2>1. applied' \o current' = StreamUpTo[r]
    <3>1. Head(queue) = queue[1]
      BY <1>0, <1>2
    <3> QED  BY <1>0, <1>4, <1>5, <1>8, <3>1
  <2>2. r \in 1..N /\ committed' = StreamUpTo[r - 1]
    BY <1>0, <1>4, <1>5, <1>7
  <2> QED  BY <1>0, <2>1, <2>2 DEF ApplierAt
<1>10. PICK idx2 : idx2 = [i \in 1..L - 1 |-> idx[i + 1]]
  OBVIOUS
<1>11. /\ Len(queue') = L - 1
       /\ queue' \in Seq(Seq(Txs))
       /\ \A i \in 1..L - 1 : queue'[i] = queue[i + 1]
  BY <1>0, <1>2
<1>12. InFlight(r, idx2)'
  <2> SUFFICES ASSUME NEW i \in 1..L - 1
               PROVE  /\ r < idx2[i]
                      /\ idx2[i] <= Handled
                      /\ LedgerOrder[idx2[i]] \notin Lazy
                      /\ queue'[i] = BlockTxs[LedgerOrder[idx2[i]]]
    BY <1>3, <1>11 DEF InFlight
  <2>1. i + 1 \in 1..L /\ 1 \in 1..L /\ 1 < i + 1
    BY <1>2
  <2>2. idx2[i] = idx[i + 1] /\ queue'[i] = queue[i + 1]
    BY <1>10, <1>11
  <2>3. r < idx[i + 1]
    BY <1>1a, <2>1 DEF Ordered
  <2>4. /\ idx[i + 1] <= Handled
        /\ LedgerOrder[idx[i + 1]] \notin Lazy
        /\ queue[i + 1] = BlockTxs[LedgerOrder[idx[i + 1]]]
    BY <1>1a, <2>1 DEF InFlight
  <2> QED  BY Zenon, <2>2, <2>3, <2>4
<1>13. Ordered(idx2)'
  <2> SUFFICES ASSUME NEW i \in 1..L - 1, NEW j \in 1..L - 1, i < j
               PROVE  idx2[i] < idx2[j]
    BY <1>11 DEF Ordered
  <2>1. i + 1 \in 1..L /\ j + 1 \in 1..L /\ i + 1 < j + 1
    BY <1>2
  <2>2. idx2[i] = idx[i + 1] /\ idx2[j] = idx[j + 1]
    BY <1>10
  <2> QED  BY <1>1a, <2>1, <2>2 DEF Ordered
<1>14. Covered(r, idx2)'
  <2> SUFFICES ASSUME NEW p \in (r + 1)..Handled, LedgerOrder[p] \notin Lazy
               PROVE  \E i \in 1..L - 1 : idx2[i] = p
    BY <1>3, <1>11 DEF Covered
  <2>1. p \in (ra + 1)..Handled
    BY <1>2, <1>5
  <2>2. PICK k \in 1..L : idx[k] = p
    BY <1>1a, <2>1 DEF Covered
  <2>3. k # 1
    BY <1>5, <2>2
  <2>4. k - 1 \in 1..L - 1 /\ idx2[k - 1] = p
    BY <1>10, <2>2, <2>3
  <2> QED  BY <2>4
<1>15. TypeOK'
  <2>1. current' \in Seq(Txs)
    BY <1>0, <1>2
  <2>2. Len(queue') <= BufferSize
    BY <1>2, <1>11, BufferPositive
  <2> QED  BY <1>0, <1>11, <2>1, <2>2, IInvParts DEF TypeOK, seqVars
<1>16. /\ Len(pending') <= pulled'
       /\ pending' = SubSeq(LedgerOrder, Handled' + 1, pulled')
  BY <1>0, <1>3, IInvParts DEF seqVars
<1>17. r \in 0..Handled' /\ idx2 \in [1..Len(queue') -> 1..N]
  <2>1. \A i \in 1..L - 1 : idx2[i] \in 1..N
    <3> SUFFICES ASSUME NEW i \in 1..L - 1 PROVE idx2[i] \in 1..N
      OBVIOUS
    <3>1. i + 1 \in 1..Len(queue)
      BY <1>2
    <3>2. idx[i + 1] \in 1..N
      BY <3>1
    <3> QED  BY <1>10, <3>2
  <2> QED  BY <1>3, <1>5, <1>10, <1>11, <2>1
<1> QED  BY Zenon, <1>9, <1>12, <1>13, <1>14, <1>15, <1>16, <1>17 DEF IInv, Pipe

LEMMA AppApplyIInv ==
  ASSUME IInv, AppApply
  PROVE  IInv'
<1>0. /\ applier = "apply" /\ current # <<>>
      /\ applied' = Append(applied, Head(current))
      /\ current' = Tail(current)
      /\ applier' = applier /\ committed' = committed /\ queue' = queue
      /\ UNCHANGED seqVars
  BY DEF AppApply
<1>1. PICK ra \in 0..Handled, idx \in [1..Len(queue) -> 1..N] : Pipe(ra, idx)
  BY DEF IInv
<1>1a. InFlight(ra, idx) /\ Ordered(idx) /\ Covered(ra, idx) /\ ApplierAt(ra)
  BY <1>1 DEF Pipe
<1>2. applied \in Seq(Txs) /\ current \in Seq(Txs)
  BY IInvParts DEF TypeOK
<1>3. Handled' = Handled
  BY <1>0 DEF seqVars, Handled
<1>4. applied' \o current' = applied \o current
  BY <1>0, <1>2, ApplyHeadKeeps
<1>5. ApplierAt(ra)'
  BY <1>0, <1>1a, <1>4 DEF ApplierAt
<1>6. TypeOK'
  <2>1. applied' \in Seq(Txs) /\ current' \in Seq(Txs)
    BY <1>0, <1>2
  <2> QED  BY <1>0, <2>1, IInvParts DEF TypeOK, seqVars
<1>7. InFlight(ra, idx)' /\ Ordered(idx)' /\ Covered(ra, idx)'
  BY <1>0, <1>1a, <1>3, ChannelFrame
<1>8. /\ Len(pending') <= pulled'
      /\ pending' = SubSeq(LedgerOrder, Handled' + 1, pulled')
      /\ ra \in 0..Handled' /\ idx \in [1..Len(queue') -> 1..N]
  BY <1>0, <1>1, <1>3, IInvParts DEF seqVars
<1> QED  BY Zenon, <1>5, <1>6, <1>7, <1>8 DEF IInv, Pipe

LEMMA AppCommitIInv ==
  ASSUME IInv, AppCommit
  PROVE  IInv'
<1>0. /\ applier = "apply" /\ current = <<>>
      /\ committed' = applied /\ applier' = "recv"
      /\ current' = current /\ applied' = applied /\ queue' = queue
      /\ UNCHANGED seqVars
  BY DEF AppCommit
<1>1. PICK ra \in 0..Handled, idx \in [1..Len(queue) -> 1..N] : Pipe(ra, idx)
  BY DEF IInv
<1>1a. InFlight(ra, idx) /\ Ordered(idx) /\ Covered(ra, idx) /\ ApplierAt(ra)
  BY <1>1 DEF Pipe
<1>2. applied \in Seq(Txs)
  BY IInvParts DEF TypeOK
<1>3. Handled' = Handled
  BY <1>0 DEF seqVars, Handled
<1>4. ApplierAt(ra)'
  <2>1. applied' \o current' = StreamUpTo[ra]
    BY <1>0, <1>1a DEF ApplierAt
  <2>2. current' = <<>> /\ committed' = applied'
    BY <1>0
  <2> QED  BY <1>0, <2>1, <2>2 DEF ApplierAt
<1>5. TypeOK'
  BY <1>0, <1>2, IInvParts DEF TypeOK, seqVars
<1>6. InFlight(ra, idx)' /\ Ordered(idx)' /\ Covered(ra, idx)'
  BY <1>0, <1>1a, <1>3, ChannelFrame
<1>7. /\ Len(pending') <= pulled'
      /\ pending' = SubSeq(LedgerOrder, Handled' + 1, pulled')
      /\ ra \in 0..Handled' /\ idx \in [1..Len(queue') -> 1..N]
  BY <1>0, <1>1, <1>3, IInvParts DEF seqVars
<1> QED  BY Zenon, <1>4, <1>5, <1>6, <1>7 DEF IInv, Pipe

LEMMA AppPanicIInv ==
  ASSUME IInv, AppPanic
  PROVE  IInv'
<1>0. /\ applier \in {"recv", "apply"}
      /\ applier' = "dead"
      /\ current' = current /\ applied' = applied /\ committed' = committed
      /\ queue' = queue
      /\ UNCHANGED seqVars
  BY DEF AppPanic
<1>1. PICK ra \in 0..Handled, idx \in [1..Len(queue) -> 1..N] : Pipe(ra, idx)
  BY DEF IInv
<1>1a. InFlight(ra, idx) /\ Ordered(idx) /\ Covered(ra, idx) /\ ApplierAt(ra)
  BY <1>1 DEF Pipe
<1>2. Handled' = Handled
  BY <1>0 DEF seqVars, Handled
<1>3. \E n \in 0..ra : committed = StreamUpTo[n]
  <2>1. CASE applier = "recv"
    <3>1. ra \in 0..ra
      BY <1>1, <1>2, IInvParts, LedgerLen DEF TypeOK, Handled
    <3> QED  BY <2>1, <3>1, <1>1a, IInvParts, RecvState
  <2>2. CASE applier = "apply"
    <3>1. ra \in 1..N /\ committed = StreamUpTo[ra - 1]
      BY <2>2, <1>1a DEF ApplierAt
    <3>2. ra - 1 \in 0..ra
      BY <3>1, LedgerLen
    <3> QED  BY <3>1, <3>2
  <2> QED  BY <1>0, <2>1, <2>2
<1>4. ApplierAt(ra)'
  BY <1>0, <1>1a, <1>3 DEF ApplierAt
<1>5. TypeOK'
  BY <1>0, IInvParts DEF TypeOK, seqVars
<1>6. InFlight(ra, idx)' /\ Ordered(idx)' /\ Covered(ra, idx)'
  BY <1>0, <1>1a, <1>2, ChannelFrame
<1>7. /\ Len(pending') <= pulled'
      /\ pending' = SubSeq(LedgerOrder, Handled' + 1, pulled')
      /\ ra \in 0..Handled' /\ idx \in [1..Len(queue') -> 1..N]
  BY <1>0, <1>1, <1>2, IInvParts DEF seqVars
<1> QED  BY Zenon, <1>4, <1>5, <1>6, <1>7 DEF IInv, Pipe

(* A stuttering step keeps the invariant. *)
LEMMA StutterIInv ==
  ASSUME IInv, UNCHANGED vars
  PROVE  IInv'
<1>0. /\ UNCHANGED appVars /\ UNCHANGED seqVars /\ queue' = queue
  BY DEF vars, appVars, seqVars
<1>1. PICK ra \in 0..Handled, idx \in [1..Len(queue) -> 1..N] : Pipe(ra, idx)
  BY DEF IInv
<1>2. Handled' = Handled
  BY <1>0 DEF seqVars, Handled
<1>3. Pipe(ra, idx)'
  BY <1>0, <1>1, <1>2, ApplierFrame, ChannelFrame DEF Pipe
<1>4. TypeOK'
  BY <1>0, IInvParts DEF TypeOK, appVars, seqVars
<1>5. /\ Len(pending') <= pulled'
      /\ pending' = SubSeq(LedgerOrder, Handled' + 1, pulled')
      /\ ra \in 0..Handled' /\ idx \in [1..Len(queue') -> 1..N]
  BY <1>0, <1>1, <1>2, IInvParts DEF seqVars
<1> QED  BY Zenon, <1>3, <1>4, <1>5 DEF IInv

(* Every step of the two threads keeps the invariant. *)
LEMMA NextIInv == IInv /\ [Next]_vars => IInv'
<1> SUFFICES ASSUME IInv, [Next]_vars PROVE IInv'
  OBVIOUS
<1>1. CASE SeqPull       BY <1>1, SeqPullIInv
<1>2. CASE SeqSkipLazy   BY <1>2, SeqSkipLazyIInv
<1>3. CASE SeqSend       BY <1>3, SeqSendIInv
<1>4. CASE SeqPanic      BY <1>4, SeqPanicIInv
<1>5. CASE AppRecv       BY <1>5, AppRecvIInv
<1>6. CASE AppApply      BY <1>6, AppApplyIInv
<1>7. CASE AppCommit     BY <1>7, AppCommitIInv
<1>8. CASE AppPanic      BY <1>8, AppPanicIInv
<1>9. CASE UNCHANGED vars  BY <1>9, StutterIInv
<1> QED  BY <1>1, <1>2, <1>3, <1>4, <1>5, <1>6, <1>7, <1>8, <1>9
         DEF Next, Sequencer, Applier

-----------------------------------------------------------------------------
(* The invariant holds in every reachable state. *)
LEMMA IInvHolds == Spec => []IInv
BY InitIInv, NextIInv, PTL DEF Spec

(* For every ledger, channel capacity and fault setting, every variable of *)
(* the two threads keeps its type and the channel never holds more than    *)
(* buffer_size transaction lists.                                          *)
THEOREM TypeCorrect == Spec => []TypeOK
<1>1. IInv => TypeOK
  BY IInvParts
<1> QED  BY <1>1, IInvHolds, PTL

(* A sequence is a prefix of itself followed by anything. *)
LEMMA PrefixOfConcat ==
  ASSUME NEW s \in Seq(Txs), NEW u \in Seq(Txs)
  PROVE  IsPrefixOf(s, s \o u)
<1>1. Len(s) <= Len(s \o u)
  OBVIOUS
<1>2. SubSeq(s \o u, 1, Len(s)) = s
  <2>1. SubSeq(s \o u, 1, Len(s)) \in Seq(Txs)
        /\ Len(SubSeq(s \o u, 1, Len(s))) = Len(s)
    OBVIOUS
  <2>2. \A k \in 1..Len(s) : SubSeq(s \o u, 1, Len(s))[k] = s[k]
    OBVIOUS
  <2> QED  BY <2>1, <2>2, SeqEqual
<1> QED  BY <1>1, <1>2 DEF IsPrefixOf

(* ApplyInLedgerOrder follows from the invariant: what is applied, and    *)
(* what the applier still holds, is the stream up to block ra, and that is *)
(* a prefix of the stream up to the last block pulled.                     *)
LEMMA IInvApplyOrder == IInv => ApplyInLedgerOrder
<1> SUFFICES ASSUME IInv PROVE ApplyInLedgerOrder
  OBVIOUS
<1>1. PICK ra \in 0..Handled, idx \in [1..Len(queue) -> 1..N] : Pipe(ra, idx)
  BY DEF IInv
<1>2. applied \o current = StreamUpTo[ra]
  BY <1>1 DEF Pipe, ApplierAt
<1>3. /\ applied \in Seq(Txs) /\ current \in Seq(Txs)
      /\ pulled \in 0..N /\ ra \in 0..pulled
  <2>1. applied \in Seq(Txs) /\ current \in Seq(Txs) /\ pulled \in 0..N
        /\ pending \in Seq(Blocks) /\ Len(pending) <= pulled
    BY IInvParts DEF TypeOK, N
  <2>2. Handled \in 0..pulled
    BY <2>1 DEF Handled
  <2> QED  BY <1>1, <2>1, <2>2, LedgerLen
<1>4. PICK t \in Seq(Txs) : StreamUpTo[ra] \o t = StreamUpTo[pulled]
  <2>1. ra \in 0..N /\ pulled \in ra..N
    BY <1>3, LedgerLen
  <2> QED  BY <2>1, StreamGrows
<1>5. applied \o (current \o t) = StreamUpTo[pulled]
  <2>1. (applied \o current) \o t = applied \o (current \o t)
    BY <1>3, TxsConcatAssoc
  <2> QED  BY <1>2, <1>4, <2>1
<1>6. current \o t \in Seq(Txs)
  BY <1>3
<1> QED  BY <1>3, <1>5, <1>6, PrefixOfConcat DEF ApplyInLedgerOrder

(* For every ledger, channel capacity and fault setting, and under every   *)
(* interleaving of the sequencer and applier threads and every panic of     *)
(* either, the transactions applied so far are a prefix of the ledger's    *)
(* transaction stream: block order of the chain's diffs, list order within *)
(* a block, lazy blocks contributing nothing.                              *)
THEOREM ApplyInOrder == Spec => []ApplyInLedgerOrder
BY IInvHolds, IInvApplyOrder, PTL

(* CommitAtBlockBoundary follows from the invariant. *)
LEMMA IInvBoundary == IInv => CommitAtBlockBoundary
<1> SUFFICES ASSUME IInv PROVE CommitAtBlockBoundary
  OBVIOUS
<1>1. PICK ra \in 0..Handled, idx \in [1..Len(queue) -> 1..N] : Pipe(ra, idx)
  BY DEF IInv
<1>2. ApplierAt(ra) /\ TypeOK
  BY <1>1, IInvParts DEF Pipe
<1>3. ra \in 0..pulled /\ pulled \in Nat
  <2>1. pulled \in 0..N /\ pending \in Seq(Blocks) /\ Len(pending) <= pulled
    BY IInvParts DEF TypeOK, N
  <2> QED  BY <1>1, <2>1, LedgerLen DEF Handled
<1>4. \E n \in 0..ra : committed = StreamUpTo[n]
  <2>1. CASE applier = "recv"
    <3>1. committed = StreamUpTo[ra] /\ ra \in 0..ra
      BY <1>2, <1>3, <2>1, RecvState
    <3> QED  BY <3>1
  <2>2. CASE applier = "apply"
    <3>1. ra \in 1..N /\ committed = StreamUpTo[ra - 1]
      BY <1>2, <2>2 DEF ApplierAt
    <3>2. ra - 1 \in 0..ra
      BY <3>1, LedgerLen
    <3> QED  BY <3>1, <3>2
  <2>3. CASE applier = "dead"
    BY <1>2, <2>3 DEF ApplierAt
  <2> QED  BY <1>2, <2>1, <2>2, <2>3 DEF TypeOK
<1>5. 0..ra \subseteq 0..pulled
  BY <1>3
<1> QED  BY <1>4, <1>5 DEF CommitAtBlockBoundary

(* For every ledger, channel capacity and fault setting, the committed     *)
(* state, which /utxo/snapshot reads, always ends at a block boundary:     *)
(* no interleaving and no panic of either thread exposes half a block.    *)
THEOREM CommitAtBoundary == Spec => []CommitAtBlockBoundary
BY IInvHolds, IInvBoundary, PTL

-----------------------------------------------------------------------------
(* Refinement: pulled is the abstract count of confirmed blocks. *)

(* The initial state is the abstract initial state. *)
LEMMA InitRefines == Init => Abstract!Init
BY DEF Init, Abstract!Init

(* A commit of the applier is a CommitBlock of the block it received. *)
LEMMA AppCommitRefines ==
  ASSUME IInv, AppCommit
  PROVE  Abstract!CommitBlock
<1>1. PICK ra \in 0..Handled, idx \in [1..Len(queue) -> 1..N] : Pipe(ra, idx)
  BY DEF IInv
<1>2. TypeOK /\ Len(pending) <= pulled
  BY IInvParts
<1>3. /\ ra \in 1..N
      /\ committed = StreamUpTo[ra - 1]
      /\ applied \o current = StreamUpTo[ra]
  BY <1>1, AppCommit DEF Pipe, ApplierAt, AppCommit
<1>4. ra \in 1..pulled
  <2>1. pulled \in 0..N /\ pending \in Seq(Blocks)
    BY <1>2 DEF TypeOK, N
  <2>2. Handled \in Int /\ ra <= Handled /\ Handled <= pulled
    BY <1>1, <1>2, <2>1 DEF Handled
  <2> QED  BY <1>3, <2>1, <2>2, LedgerLen
<1>5. applied = StreamUpTo[ra]
  <2>1. current = <<>> /\ applied \in Seq(Txs)
    BY <1>2 DEF AppCommit, TypeOK
  <2> QED  BY <1>3, <2>1
<1>6. committed' = StreamUpTo[ra] /\ pulled' = pulled
  BY <1>5 DEF AppCommit, seqVars
<1>7. Abstract!StreamUpTo = StreamUpTo
  BY DEF Abstract!StreamUpTo, StreamUpTo, Abstract!Contribution, Contribution
<1> QED  BY <1>3, <1>4, <1>6, <1>7 DEF Abstract!CommitBlock

(* Every step of the pipeline is a step of LedgerSpec or leaves both       *)
(* pulled and committed alone.                                            *)
LEMMA NextRefines ==
  IInv /\ [Next]_vars => [Abstract!Next]_<<pulled, committed>>
<1> SUFFICES ASSUME IInv, [Next]_vars
             PROVE  [Abstract!Next]_<<pulled, committed>>
  OBVIOUS
<1>1. CASE SeqPull
  <2>1. PICK n \in pulled..Len(LedgerOrder) : pulled' = n
    BY <1>1 DEF SeqPull
  <2>2. committed' = committed
    BY <1>1 DEF SeqPull, appVars
  <2>3. pulled \in Nat
    BY IInvParts DEF TypeOK
  <2>4. CASE n = pulled
    BY <2>1, <2>2, <2>4
  <2>5. CASE n # pulled
    <3>1. n \in pulled + 1..Len(LedgerOrder)
      BY <2>1, <2>3, <2>5, LedgerLen DEF N
    <3> QED  BY <2>1, <2>2, <3>1 DEF Abstract!Next, Abstract!Confirm
  <2> QED  BY <2>4, <2>5
<1>2. CASE SeqSkipLazy  BY <1>2 DEF SeqSkipLazy, appVars
<1>3. CASE SeqSend      BY <1>3 DEF SeqSend, appVars
<1>4. CASE SeqPanic     BY <1>4 DEF SeqPanic, appVars
<1>5. CASE AppRecv      BY <1>5 DEF AppRecv, seqVars
<1>6. CASE AppApply     BY <1>6 DEF AppApply, seqVars
<1>7. CASE AppCommit    BY <1>7, AppCommitRefines DEF Abstract!Next
<1>8. CASE AppPanic     BY <1>8 DEF AppPanic, seqVars
<1>9. CASE UNCHANGED vars  BY <1>9 DEF vars
<1> QED  BY <1>1, <1>2, <1>3, <1>4, <1>5, <1>6, <1>7, <1>8, <1>9
         DEF Next, Sequencer, Applier

(* For every ledger, channel capacity and fault setting, the two-thread    *)
(* pipeline with its bounded channel implements LedgerSpec: seen through   *)
(* pulled and committed, every step of update_ledger, of the sequencer    *)
(* loop and of the applier loop either confirms more blocks or commits     *)
(* exactly the next confirmed block's transactions, or changes neither.    *)
THEOREM Refinement == Spec => ImplementsLedgerSpec
<1>1. Init => Abstract!Init
  BY InitRefines
<1>2. IInv /\ [Next]_vars => [Abstract!Next]_<<pulled, committed>>
  BY NextRefines
<1> QED  BY <1>1, <1>2, IInvHolds, PTL DEF Spec, ImplementsLedgerSpec, Abstract!Spec

=============================================================================
