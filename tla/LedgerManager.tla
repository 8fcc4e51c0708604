---------------------------- MODULE LedgerManager ----------------------------
(***************************************************************************)
(* LedgerManager::start of src/src/ledger_manager/mod.rs: two threads      *)
(* joined by channel::bounded(buffer_size).                                *)
(*   - the sequencer loops on update_transaction_sequence: it asks the     *)
(*     Chain for a diff, then for each confirmed hash in order fetches the *)
(*     block, skips it if lazy, else sends its transaction list;           *)
(*   - the applier loops: recv one list, statedb.apply each transaction in *)
(*     order, then statedb.commit once.                                    *)
(* Every fallible call ends in unwrap(): an error panics the thread that   *)
(* met it, which drops its end of the channel. Faults says whether the     *)
(* collaborators (Chain, BlockDatabase, StateDatabase) may return errors.  *)
(* The outcome status of apply only chooses a log line and is left out.    *)
(***************************************************************************)
EXTENDS LedgerData

CONSTANTS
  BufferSize,  \* buffer_size of start(), the channel's capacity
  Faults       \* whether collaborator calls may fail

ASSUME LedgerManagerAssumption ==
  /\ BufferSize \in Nat \ {0}
  /\ Faults \in BOOLEAN

VARIABLES
  pulled,     \* how many blocks of LedgerOrder update_ledger has returned
  pending,    \* confirmed hashes of the current diff not yet handled
  sequencer,  \* "running" or "dead" (panicked)
  queue,      \* the channel's buffer: transaction lists, oldest first
  applier,    \* "recv", "apply" (inside the for loop) or "dead"
  current,    \* the rest of the list being applied
  applied,    \* transactions applied to the state cache, in order
  committed   \* transactions committed to the backing db, in order

vars == <<pulled, pending, sequencer, queue, applier, current, applied,
          committed>>
seqVars == <<pulled, pending, sequencer>>
appVars == <<applier, current, applied, committed>>

-----------------------------------------------------------------------------
(* The sequencer thread. *)

(* A plausible bug: the diff taken from one past the last block returned. *)
SeqPullSkipping ==
  /\ sequencer = "running"
  /\ pending = <<>>
  /\ \E n \in pulled..Len(LedgerOrder) :
        /\ pulled' = n
        /\ pending' = SubSeq(LedgerOrder, pulled + 2, n)
  /\ UNCHANGED <<sequencer, queue>>
  /\ UNCHANGED appVars

(* chain.update_ledger().unwrap(): the next confirmed hashes, possibly     *)
(* none, are returned once. Only asked for when the last diff is drained.  *)
(* The deconfirmed half is logged and otherwise ignored.                   *)
SeqPull ==
  /\ sequencer = "running"
  /\ pending = <<>>
  /\ \E n \in pulled..Len(LedgerOrder) :
        /\ pulled' = n
        /\ pending' = SubSeq(LedgerOrder, pulled + 1, n)
  /\ UNCHANGED <<sequencer, queue>>
  /\ UNCHANGED appVars

(* blockdb.get(&hash).unwrap().unwrap() on a lazy block: continue. *)
SeqSkipLazy ==
  /\ sequencer = "running"
  /\ pending # <<>>
  /\ Head(pending) \in Lazy
  /\ pending' = Tail(pending)
  /\ UNCHANGED <<pulled, sequencer, queue>>
  /\ UNCHANGED appVars

(* A plausible bug: the lazy check lost, lazy blocks forwarded too. *)
SeqSendIgnoringLazy ==
  /\ sequencer = "running"
  /\ pending # <<>>
  /\ applier # "dead"
  /\ Len(queue) < BufferSize
  /\ queue' = Append(queue, BlockTxs[Head(pending)])
  /\ pending' = Tail(pending)
  /\ UNCHANGED <<pulled, sequencer>>
  /\ UNCHANGED appVars

(* A plausible bug: a channel that admits one list beyond its capacity. *)
SeqSendOverCapacity ==
  /\ sequencer = "running"
  /\ pending # <<>>
  /\ Head(pending) \notin Lazy
  /\ applier # "dead"
  /\ Len(queue) <= BufferSize
  /\ queue' = Append(queue, BlockTxs[Head(pending)])
  /\ pending' = Tail(pending)
  /\ UNCHANGED <<pulled, sequencer>>
  /\ UNCHANGED appVars

(* sender.send(content.transactions): blocks while the buffer is full and  *)
(* the applier is alive.                                                   *)
SeqSend ==
  /\ sequencer = "running"
  /\ pending # <<>>
  /\ Head(pending) \notin Lazy
  /\ applier # "dead"
  /\ Len(queue) < BufferSize
  /\ queue' = Append(queue, BlockTxs[Head(pending)])
  /\ pending' = Tail(pending)
  /\ UNCHANGED <<pulled, sequencer>>
  /\ UNCHANGED appVars

(* The sequencer panics: update_ledger or blockdb.get returns an error    *)
(* (when Faults), or send() fails because the receiver is gone.           *)
SeqPanic ==
  /\ sequencer = "running"
  /\ \/ Faults
     \/ /\ pending # <<>>
        /\ Head(pending) \notin Lazy
        /\ applier = "dead"
  /\ sequencer' = "dead"
  /\ UNCHANGED <<pulled, pending, queue>>
  /\ UNCHANGED appVars

-----------------------------------------------------------------------------
(* The applier thread. *)

(* tx_diff_rx.recv().unwrap(): take the oldest list. *)
AppRecv ==
  /\ applier = "recv"
  /\ queue # <<>>
  /\ current' = Head(queue)
  /\ queue' = Tail(queue)
  /\ applier' = "apply"
  /\ UNCHANGED <<applied, committed>>
  /\ UNCHANGED seqVars

(* A plausible bug: a commit after every transaction. *)
AppApplyAndCommit ==
  /\ applier = "apply"
  /\ current # <<>>
  /\ applied' = Append(applied, Head(current))
  /\ committed' = applied'
  /\ current' = Tail(current)
  /\ UNCHANGED <<applier, queue>>
  /\ UNCHANGED seqVars

(* statedb.apply(&tx).unwrap() for the next transaction of the list. *)
AppApply ==
  /\ applier = "apply"
  /\ current # <<>>
  /\ applied' = Append(applied, Head(current))
  /\ current' = Tail(current)
  /\ UNCHANGED <<applier, committed, queue>>
  /\ UNCHANGED seqVars

(* A plausible bug: the thread does not go back to recv after a commit. *)
AppCommitNoReturn ==
  /\ applier = "apply"
  /\ current = <<>>
  /\ committed' = applied
  /\ UNCHANGED <<applier, current, applied, queue>>
  /\ UNCHANGED seqVars

(* statedb.commit().unwrap() once the whole list is applied. *)
AppCommit ==
  /\ applier = "apply"
  /\ current = <<>>
  /\ committed' = applied
  /\ applier' = "recv"
  /\ UNCHANGED <<current, applied, queue>>
  /\ UNCHANGED seqVars

(* A plausible bug: a panic hook or drop guard that commits what the     *)
(* dying applier has applied.                                             *)
AppPanicCommitting ==
  /\ \/ /\ applier = "recv"
        /\ queue = <<>>
        /\ sequencer = "dead"
     \/ /\ applier = "apply"
        /\ Faults
  /\ applier' = "dead"
  /\ committed' = applied
  /\ UNCHANGED <<current, applied, queue>>
  /\ UNCHANGED seqVars

(* The applier panics: recv() on an empty channel whose sender is gone,   *)
(* or apply/commit returns an error (when Faults).                        *)
AppPanic ==
  /\ \/ /\ applier = "recv"
        /\ queue = <<>>
        /\ sequencer = "dead"
     \/ /\ applier = "apply"
        /\ Faults
  /\ applier' = "dead"
  /\ UNCHANGED <<current, applied, committed, queue>>
  /\ UNCHANGED seqVars

-----------------------------------------------------------------------------
Init ==
  /\ pulled = 0
  /\ pending = <<>>
  /\ sequencer = "running"
  /\ queue = <<>>
  /\ applier = "recv"
  /\ current = <<>>
  /\ applied = <<>>
  /\ committed = <<>>

Sequencer == SeqPull \/ SeqSkipLazy \/ SeqSend \/ SeqPanic
Applier == AppRecv \/ AppApply \/ AppCommit \/ AppPanic

Next == Sequencer \/ Applier

(* Both threads are OS threads that loop forever; the scheduler runs each *)
(* one that can move.                                                      *)
Spec == Init /\ [][Next]_vars /\ WF_vars(Sequencer) /\ WF_vars(Applier)

-----------------------------------------------------------------------------
(* Every variable holds a value of the type the code gives it, and the    *)
(* channel never holds more than buffer_size lists.                       *)
TypeOK ==
  /\ pulled \in 0..Len(LedgerOrder)
  /\ pending \in Seq(Blocks)
  /\ sequencer \in {"running", "dead"}
  /\ queue \in Seq(Seq(Txs))
  /\ Len(queue) <= BufferSize
  /\ applier \in {"recv", "apply", "dead"}
  /\ current \in Seq(Txs)
  /\ applied \in Seq(Txs)
  /\ committed \in Seq(Txs)

-----------------------------------------------------------------------------
(* The abstract specification, with the chain's progress as the number of *)
(* confirmed blocks.                                                      *)
Abstract == INSTANCE LedgerSpec WITH confirmed <- pulled

(* s is an initial segment of t. *)
IsPrefixOf(s, t) == Len(s) <= Len(t) /\ s = SubSeq(t, 1, Len(s))

(* Every transaction applied so far was applied in ledger order: block    *)
(* order of the Chain's diffs, list order within a block, lazy blocks      *)
(* contributing nothing, and none applied twice or skipped. This rests on  *)
(* the two threads, the FIFO channel between them and the per-diff loop    *)
(* handing blocks on in the same order in every interleaving.              *)
ApplyInLedgerOrder == IsPrefixOf(applied, StreamUpTo[pulled])

(* The committed state always ends at a block boundary: commit is issued  *)
(* only after the whole list of a block is applied, so neither an         *)
(* interleaving nor a panic of either thread, between two applies or      *)
(* between the last apply and the commit, exposes half a block to the     *)
(* committed state (which /utxo/snapshot reads through statedb.root()).   *)
CommitAtBlockBoundary == \E n \in 0..pulled : committed = StreamUpTo[n]

(* The pipeline implements LedgerSpec: every step commits nothing, or     *)
(* exactly the next confirmed block, or confirms more blocks.              *)
ImplementsLedgerSpec == Abstract!Spec

(* With no collaborator errors, every block update_ledger has returned is *)
(* eventually applied and committed: the bounded channel's backpressure   *)
(* never wedges the two threads.                                          *)
ConfirmedEventuallyCommitted ==
  \A n \in 0..Len(LedgerOrder) :
     (pulled >= n) ~> (Len(committed) >= Len(StreamUpTo[n]))

=============================================================================
