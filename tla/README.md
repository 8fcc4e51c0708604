# TLA+ models of the Prism smart-contract node core

This directory holds TLA+ models of the node's three core components and of the threads around them:

- the Merkle tree;
- the transaction memory pool and the threads that share it;
- the two-thread ledger pipeline that turns confirmed blocks into committed state;
- the transaction generator's control state machine;
- per-address nonce order from the wallet, through the pool and the block producer, to the applier.

It also holds the TLC configurations that check the models on small instances, and TLAPS proofs, for every value of the constants, of the pool's invariants, the generator's invariants and the ledger pipeline's invariants and refinement. The module names and source paths below refer to `src/`.

## The system and how its parts interact

| Part | Source | Interacts with |
|---|---|---|
| MerkleTree | `src/src/crypto/merkle.rs` | Owned by one structure. No concurrency. |
| MemoryPool | `src/src/miner/memory_pool.rs` | Sits behind one `Mutex`, shared by the API request threads, the transaction generator and the block producer. |
| new_transaction handler | `src/src/handler/new_transaction.rs` | Runs `contains` then `insert` while holding the pool lock once. |
| Transaction generator | `src/src/experiment/transaction_generator.rs` | Checks `len() >= throttle` under the lock. It then drops the lock and later calls new_transaction. |
| API server | `src/src/api/mod.rs` | `/wallet/call` and `/wallet/create` call new_transaction from a thread per request. `/utxo/snapshot` reads `statedb.root()`. |
| LedgerManager | `src/src/ledger_manager/mod.rs` | Has a sequencer thread and an applier thread joined by `channel::bounded(buffer_size)`. The sequencer calls Chain and BlockDatabase; the applier calls StateDatabase. |
| StateDatabase | `src/src/statedb/mod.rs` | `apply` writes the state cache. `commit` writes the cache to the backing database. `root` reflects committed state only. |
| Wallet | `src/src/wallet/mod.rs` | Allocates nonces under its own lock, before the pool insert. |

The block producer and the network's block handler are not under `src/`. Their use of the pool is modelled from the spec (§6): `get_transactions(n)`, then one `remove_by_hash` per transaction included. These definitions are marked `spec_modelled` in PROJECT.json.

## Modules

### `MemoryPool` (+ `MCMemoryPool`, `MemoryPoolProofs`)

The state mirrors the struct fields:

| Variable | Meaning |
|---|---|
| `num_transactions` | the struct field |
| `counter` | the struct field |
| `by_hash` | hash ↦ storage index |
| `by_storage_index` | index ↦ hash |
| `gen_pc` | the generator's position: before or after its throttle check |
| `miner_batch` | transactions the producer took and has not removed yet |
| `calls` | number of new_transaction calls, capped by `CallBound` |

A transaction is identified with its hash, as a model value.

The operations are helpers used by the actions, not actions of their own:

- `Insert` keeps the `>` capacity test and stores the transaction with no duplicate check.
- `RemoveByHash` returns early if the hash is absent, then drops it from both maps and decrements.
- `GetTransactions` returns the `n` smallest storage indices.

Each action is one critical section of one caller:

- `ApiSubmit` and `GenSubmit` go through `NewTransaction`, the handler.
- `GenCheck` is the generator's throttle check, a separate critical section.
- `MinerGet` and `MinerRemove` are the block producer.
- `BlockReceived` is a block mined elsewhere.

### `LedgerData`, `LedgerSpec`, `LedgerManager` (+ `MCLedgerManager`, `LedgerDataProofs`, `LedgerManagerProofs`)

`LedgerData` holds the ledger the Chain collaborator reveals:

- a fixed order of distinct blocks;
- each block's transaction list;
- the set of lazy blocks.

It also holds `StreamUpTo[n]`, the transactions the first `n` blocks contribute (nothing for a lazy block). This is a recursive function, so proofs can use it.

`LedgerSpec` is the abstract promise of the pipeline. Its state is the number of confirmed blocks and the committed sequence. Confirmation grows; commit appends exactly the next confirmed block's contribution.

`LedgerManager` models both threads:

- **Sequencer** (`update_transaction_sequence`):
  - `SeqPull` is `update_ledger` returning the next diff.
  - `SeqSkipLazy` is the `continue` on a lazy block.
  - `SeqSend` is `send`, which blocks while the buffer is full.
  - `SeqPanic` is an error from `update_ledger` or `blockdb.get`, when `Faults` is set, or a `send` to a dropped receiver.
- **Applier**:
  - `AppRecv` takes the oldest list.
  - `AppApply` applies one transaction.
  - `AppCommit` commits once the list is exhausted.
  - `AppPanic` is `recv` on an empty channel whose sender is gone, or, when `Faults` is set, an error from `apply` or `commit`.

`committed` is what `statedb.root()`, and so `/utxo/snapshot`, exposes. `applied` is the state cache. A refinement mapping (`Abstract == INSTANCE LedgerSpec WITH confirmed <- pulled`) states that the pipeline implements `LedgerSpec`.

### `Merkle` (+ `MCMerkle`)

The tree is a record `[data_size, nodes]` with `nodes` a function on `0..TreeSize-1`, exactly the code's flattened array: root at 0 and layers top-down.

- `keccak` is abstracted to an injective pairing: `Hash2(l, r) = <<l, r>>` and `LeafHash(x) = <<x>>`. The zero hash is `<<>>`, which no real node can equal.
- `New`, `Proof`, `Leaf`, `Update` and `Verify` transcribe the code's offset arithmetic:
  - `layer_start`;
  - the odd-size test that adds the padding slot;
  - the parity test on absolute positions;
  - the copy into the padding slot.
- The loops become recursive functions over the layer number.
- The state is a tree and the leaf sequence it should hold. The only action, `UpdateLeaf`, calls `update` with any index, including out of range, and any value.

### `TxGenerator` (+ `MCTxGenerator`, `TxGeneratorProofs`)

The generator thread's loop and control state machine, and the six API endpoints that drive it through the unbounded control channel.

The state:

| Variable | Meaning |
|---|---|
| `state` | `Paused`, `Continuous(throttle)` or `Step(count)` |
| `txType` | `transaction_type`, known (one the match builds) or unknown (one it panics on) |
| `valueDist` | `value_distribution`, a `[min, max]` record, initially `[50, 100]` |
| `chan` | the control channel |
| `alive` | whether the thread is alive |
| `phase` | `"poll"` at the top of the loop, `"make"` once `try_recv` found the channel empty |
| `poolLen` | the pool length the throttle check reads |

Three ghosts record the last step request: `stepping`, `budget` and `made`. Two more count the control requests: `acked` counts those the API answered ok, and `handled` those the generator handled.

The actions:

- `ApiStart`, `ApiStop`, `ApiStep`, `ApiSetArrival`, `ApiSetValue` and `ApiSetType` are the six endpoints. Each goes through `Send`, which answers ok only when the send succeeds; a send fails once the thread is gone. `ApiSetValue` refuses `min > max` (`api/mod.rs:496`), and `ApiSetType` accepts any string.
- `GenControl` is `try_recv` or `recv` followed by `handle_control_signal`.
- `GenPoll` is `try_recv` finding the channel empty in Continuous or Step.
- `GenThrottled` is the Continuous throttle check that sleeps and restarts the loop.
- `GenMake` is the rest of the round. It covers:
  - sampling the value: `gen_range(min, max)` panics unless `min < max`, and the code takes `min` when the two are equal (`SampleOK`);
  - the panic on an unknown type;
  - `new_transaction`;
  - the `Step` count-down.

  Splitting the round into three steps lets API requests land between the poll and the make.
- `PoolDrain` is the block producer emptying the pool.

`step_count` is computed modulo `2^Width`. `step_count - 1` on 0 panics when `OverflowChecks` (a debug build) and wraps otherwise, which are the two outcomes the build can produce.

### `NonceOrder` (+ `MCNonceOrder`)

This module composes:

- the wallet's nonce allocation (`nonces`);
- the submitter threads (`pc`, `held`). `CreateTransaction` takes the nonce under `nonce_balances`; `NewTransaction` is a separate step under the pool lock;
- the pool as its FIFO sequence (MemoryPoolProofs shows the two indices agree with it);
- the block producer (`MineBlock`: the oldest `BatchSize` entries, removed by hash);
- the applier's `statedb.apply(&tx).unwrap()`.

The model assumes the applier refuses any nonce other than the account's next one. This is the external execution engine's rule, and the applier's unwrap makes it fatal. The ledger is the concatenation of the blocks: LedgerManager's `ApplyInLedgerOrder` shows the pipeline applies exactly that order.

## Runs

| Run | Config | Checks | Shows |
|---|---|---|---|
| memorypool | `MCMemoryPool.cfg` | TypeOK, IndexesAgree, PoolWithinCap | Every interleaving of API threads, the generator, the producer and received blocks keeps the two indices mutually inverse, the count exact, and the size ≤ max+1. |
| ledger | `MCLedgerManager.cfg` | TypeOK, ApplyInLedgerOrder, CommitAtBlockBoundary, ImplementsLedgerSpec, ConfirmedEventuallyCommitted | With no collaborator errors: transactions are applied in ledger order, commits land only at block boundaries, the pipeline refines LedgerSpec, and every confirmed block is eventually committed, despite the bounded channel. |
| ledger_faults | `MCLedgerManagerFaults.cfg` | TypeOK, ApplyInLedgerOrder, CommitAtBlockBoundary, ImplementsLedgerSpec | With panics at every `unwrap` and a one-slot channel, no half block is ever committed and order is never broken. |
| merkle | `MCMerkle.cfg` | TypeOK, UpdateAgreesWithNew, ProofsVerify, VerifyBindsLeaf | For all trees of 0..6 leaves over 2 values and all update sequences: the tree equals a rebuild from the leaves, every proof verifies, and verify accepts no other leaf value at an index, whatever proof of tree nodes it is given. |
| txgen | `MCTxGenerator.cfg` | TypeOK, StepMakesAtMostCount, StepEventuallyPauses | Control requests, unknown types included, interleave with the generator's poll, throttle and make steps in a debug build, with step counts ≥ 1. A step request makes at most `count` transactions and the generator then pauses, unless a new signal arrives first or the thread dies. |
| txgen_step_zero | `MCTxGeneratorStepZero.cfg` | StepMakesAtMostCount (expected violation) | `step?count=0` still makes a transaction, and in release it wraps. |
| txgen_known | `MCTxGeneratorKnown.cfg` | GeneratorNeverPanics, OkMeansHandled | With only buildable types requested and step counts of 1 or 2, the generator never panics, equal `min` and `max` included. A `step?count=0` in this debug build would panic it at `step_count - 1`; the run leaves that out, as the hypothesis of `NeverPanics` does (`txgen_step_zero` shows what count 0 does in a release build). Every request answered ok is eventually handled. |
| txgen_unknown_type | `MCTxGeneratorUnknownType.cfg` | OkMeansHandled (expected violation) | A request answered ok after the generator took an unknown type is never handled. |
| nonce_order | `MCNonceOrder.cfg` | TypeOK, NonceOrderPreserved, ApplierNeverFails | With one submitting thread per address, every address's confirmed-then-pooled nonces are 0, 1, 2, … in order. The applier never meets a refused nonce. |
| nonce_shared | `MCNonceOrderShared.cfg` | ApplierNeverFails (expected violation) | Two threads on one address: nonce 1 is mined before nonce 0 and the applier panics. |
| nonce_full | `MCNonceOrderFull.cfg` | ApplierNeverFails (expected violation) | Nonce 1 is dropped by a full pool. Nonce 2 is mined after nonce 0 and the applier panics. |
| merkle_root | `MCMerkleRoot.cfg` | RootBindsLeaves (expected violation) | `[a,a,a]` and `[a,a,a,a]` have the same root. |

### Bounds, and why they are enough

**memorypool:**

- `MaxTransactions = 1`, so the cap is 2 and both the `<=` and the `>` branch of `insert` are taken.
- 3 transactions, so the pool can be full and a third submission is dropped.
- `Throttle = 2` and `BatchSize = 2`.
- 6 calls, enough to fill the pool, remove from it, refill it and resubmit a duplicate.
- Symmetry over the transactions is sound: no definition depends on their identity.

**ledger:**

- 6 blocks with lists of length 0, 1 and 2.
- One lazy block and one repeated transaction.
- A 2-slot channel.
- Diffs of any length, so the channel fills and both threads block.

**ledger_faults** uses a 1-slot channel and allows a panic at every point.

**txgen:**

- Throttles 1 and 2 against a pool capped at 2.
- Counts 1 and 2 with two-bit counters.
- Two queued signals, so a signal can overtake a running step.
- 3 transactions counted per step request.
- Values 50 and 100, so both `min = max` and `min < max` distributions are accepted, and `100, 50` is refused.
- Up to 4 acknowledged requests (3 in txgen_known), enough for a type or value change to be followed by a start or step that must still be handled.

**nonce_order:**

- Two threads, two addresses and three nonces each.
- A pool of 5, so only the sixth and last transaction can find it full.
- Blocks of 2, so blocks mix addresses.

The violation runs use the smallest instances that show their trace.

**merkle** covers sizes 0..6. These cover:

- the empty and single-leaf special cases;
- odd layers at the bottom (3, 5) and in the middle (6 → 3);
- the root special case of `update`.

### Fairness

Both ledger threads are OS threads that loop forever and block only on the channel (`thread::spawn(move || loop ...)`). `WF` on each thread's next-state relation is therefore what the scheduler provides. Liveness is checked only in the fault-free run, where no thread dies.

The ledger_faults run has `CHECK_DEADLOCK FALSE`, because in it both threads really can have panicked.

The generator is also an OS thread looping forever (`thread::spawn(move || { ... loop { ... } })`), so it gets `WF` on its next-state relation (`GenControl \/ GenPoll \/ GenThrottled \/ GenMake`). `OkMeansHandled` rests on it: whenever a signal is queued, some generator step is enabled until the signal is taken. The API threads get no fairness: a client need never send anything.

The txgen runs have `CHECK_DEADLOCK FALSE`. In txgen_known the behaviour ends because `AckBound` and `MadeBound` are spent, where the code's threads would go on. A generator that panicked on an unknown type is gone for good, and every later send fails. Once the pool drains, nothing moves.

The nonce runs have `CHECK_DEADLOCK FALSE` too. Two reasons apply:

- their instances end when the nonce bound is spent, where the code's threads would go on;
- the violation runs end with the applier dead.

The memory pool, Merkle and nonce runs check safety only.

## Findings

**Root/leaf-count ambiguity (spec gap).** `new` pads an odd layer with a copy of its last node (`merkle.rs:55`, `:71`). As a result, the root of `[a,b,c]` is the root of `[a,b,c,c]`.

The spec presents the root as authenticating the ordered leaf sequence, but it binds the sequence only together with the `leaf_size` that `verify` receives from its caller. This is the ambiguity of CVE-2012-2459. The run `merkle_root` exhibits it.

**Out-of-order nonces kill the applier (code bug).** `create_transaction_*` bumps the address's nonce under `nonce_balances` and drops the lock (`wallet/mod.rs:207`) before `new_transaction` locks the pool. `/wallet/call` sends from the wallet's first address, and the generator draws from all addresses. So two threads can insert nonce `n+1` before `n`.

The block producer mines in pool order, and the execution engine refuses the early nonce. `statedb.apply(&tx).unwrap()` (`ledger_manager/mod.rs:55`) then panics the applier. The spec says semantic failures are logged and the pipeline proceeds (§7), and that nonce tracking is one lock-guarded resource (§9). Run `nonce_shared` shows the trace.

**A full pool leaves a nonce gap (code bug).** `insert` returns silently at the cap (`memory_pool.rs:43`) after the nonce is spent. The next transaction of that address then has a gap before it, with the same panic. Run `nonce_full` shows the trace.

**`step?count=0` (code bug).** The API accepts a count of 0 (`api/mod.rs:367`). The generator makes a transaction before testing `step_count - 1 == 0` (`transaction_generator.rs:229`), and that subtraction underflows:

- a debug build panics the generator thread;
- a release build keeps generating for about 2^64 rounds.

Run `txgen_step_zero` shows it.

**An acknowledged control request is lost (code bug).** `set-transaction-type` sends any string and answers ok (`api/mod.rs:546`). The generator stores it, and its next round panics in the match on `transaction_type` (`transaction_generator.rs:221`). Every request the API acknowledged after that round's `try_recv` is still in the channel and is never handled, although the caller was told ok. Run `txgen_unknown_type` shows a `start` lost this way.

## What is proved

`MemoryPoolProofs` proves three theorems for every value of the constants, assuming only `PoolAssumption` (finite `Txs`, natural-number limits):

- `TypeCorrect`: `Spec => []TypeOK`.
- `IndexesAlwaysAgree`: `Spec => []IndexesAgree`.
- `PoolAlwaysWithinCap`: `Spec => []PoolWithinCap`.

**The inductive invariant** `IInv` is the conjunction of the three properties and `IndicesBelowCounter`, which says every storage index in use is below `counter`.

The strengthening is needed because a fresh `insert` stores under `counter`. Only knowing that this index is free in `by_storage_index` shows that the two maps stay mutually inverse.

**The argument.** The pieces are:

- `InitIInv`: `Init => IInv`.
- `InsertFresh`: inserting a hash the pool does not hold keeps `IInv`. Cardinality grows by one, so the cap holds because `num_transactions <= max` was the guard.
- `RemoveKeeps`: removing a hash, present or not, keeps `IInv`. Mutual inverseness shows that the removed index was the only one pointing at the hash.
- `NewTransactionKeeps`: the handler's `contains` check means `Insert` is only reached with a fresh hash.
- `NextIInv`: one step per action.

Each theorem then follows by `PTL`.

`TxGeneratorProofs` proves three theorems about the generator for every step_count width, queue bound, throttle and count set and either build. They assume `TxGeneratorAssumption`. That assumption includes `2^Width \in Nat \ {0}`, an arithmetic fact the provers do not derive and TLC evaluates on every run.

- `TypeCorrect`: `Spec => []TypeOK`. It holds even when `Step(0)` wraps to the largest count.
- `StepBounded`: under the hypothesis `0 \notin Counts`, `Spec => []StepMakesAtMostCount`.
- `NeverPanics`: under the hypotheses `ApiTypes = {"known"}` and `0 \notin Counts \/ ~OverflowChecks`, `Spec => []GeneratorNeverPanics`.

`StepBounded` has an inductive invariant, `TypeOK /\ StepBookkeeping`. `StepBookkeeping` says that while the last start, stop or step signal handled was a step:

- the generator is not Continuous;
- `made <= budget`;
- in `Step(n)`, `n` is between 1 and the count, and `made + n` equals the count.

The strengthening is needed because `made <= budget` alone does not survive a count-down step. The proof then splits on the remaining count:

- if it is 1, the generator pauses with `made = budget`;
- otherwise it stays in `Step(n - 1)` with the sum unchanged.

The hypothesis `0 \notin Counts` is exactly what the `txgen_step_zero` violation shows to be necessary.

`NeverPanics` has the inductive invariant `NoPanicInv`. It says:

- the type is known and `valueDist.min <= valueDist.max`;
- every queued signal is safe: a type signal carries a known type, and a value signal has `min <= max`;
- a debug build is never in `Step(0)`.

The invariant must cover the queue, because a signal is checked when the API sends it but takes effect only when the generator handles it. Given the invariant, `SampleOK` holds, because `min <= max` means either `min = max` or `min < max`. The count-down leaves `Step(n)` only with `n = Decrement(c) # 0`.

`LedgerManagerProofs` proves four theorems about the ledger pipeline for every ledger (any block order, transaction lists and lazy set allowed by `LedgerDataAssumption`), every `BufferSize >= 1` and either fault setting:

- `TypeCorrect`: `Spec => []TypeOK`, including that the channel never holds more than `buffer_size` lists.
- `ApplyInOrder`: `Spec => []ApplyInLedgerOrder`.
- `CommitAtBoundary`: `Spec => []CommitAtBlockBoundary`.
- `Refinement`: `Spec => ImplementsLedgerSpec`, that is, `Abstract!Spec` under `confirmed <- pulled`.

**The inductive invariant** `IInv` relates the state of the two threads to the stream. `Handled = pulled - Len(pending)` counts the blocks the sequencer has dealt with. `IInv` says:

- `TypeOK` holds, and `pending` is exactly the blocks `Handled + 1 .. pulled` of the ledger;
- there is an `ra <= Handled` (the last block the applier received) and a map `idx` from channel slots to block numbers such that:
  - `InFlight`: every queued list is the list of a non-lazy block numbered in `ra + 1 .. Handled`;
  - `Ordered`: those block numbers increase along the channel;
  - `Covered`: every non-lazy block in `ra + 1 .. Handled` is in the channel;
  - `ApplierAt`: `applied \o current = StreamUpTo[ra]`; in `recv`, `current` is empty and `committed = applied`; in `apply`, `committed = StreamUpTo[ra - 1]`; once dead, `committed` is `StreamUpTo[n]` for some `n <= ra`.

The properties themselves are not inductive. `ApplyInLedgerOrder` says nothing about what is in the channel, so it cannot show that the next `recv` brings the next block. `Covered` and `Ordered` give that: the blocks between `ra` and the head of the channel are all lazy. TLC checked `IInv` as an invariant on both ledger configurations before the proof.

**The argument.** `NextIInv` has one lemma per action:

- `SeqPull` leaves `Handled` alone.
- `SeqSkipLazy` handles one lazy block.
- `SeqSend` extends `idx` with the block just handled.
- `AppRecv` moves `ra` to the head's block and shifts `idx`. Across the lazy gap the stream is unchanged (`LazyGap`).
- `AppApply` moves one transaction from `current` to `applied`.
- `AppCommit` sets `committed` to `StreamUpTo[ra]`.
- The panics only change the thread states.

The properties then follow from `IInv`:

- `ApplyInLedgerOrder` follows from `StreamGrows`, which says `StreamUpTo[ra]` is a prefix of `StreamUpTo[pulled]`.
- For the refinement, `AppCommit` is `CommitBlock` with `n = ra`, a `SeqPull` that returns new blocks is `Confirm`, and every other step is a stutter of `<<pulled, committed>>`.

`LedgerDataProofs` holds the lemmas about `StreamUpTo`:

- `StreamDef` unfolds it, from `FiniteNatInductiveDef`.
- `StreamType` says it is a sequence of transactions.
- `LazyGap` says lazy blocks add nothing.
- `StreamGrows` gives the prefix property.

The inductions rest on `NatSetInduction`. This is induction over `Nat` stated for a set, proved from the well-foundedness of `<`. It avoids the operator-parameter induction theorems, which the installed provers cannot instantiate.

## What is only model-checked

These properties are checked by TLC only:

- **Liveness** (`ConfirmedEventuallyCommitted`, `StepEventuallyPauses`, `OkMeansHandled`). TLAPS does not reason about fairness and `ENABLED`.
- **The Merkle properties.** They quantify over what recursive functions compute for every leaf count. This would need induction over data, which the installed provers cannot instantiate.

## What is not modelled, and why

- **EVM execution** inside `statedb.apply`. It is out of a model checker's reach, and only the success/error outcome matters to the pipeline.
- **Wallet key management** (`generate_keypair`, the key database, `balance`). It holds key material, not ordering.
- **The generator's address sampling, the values it draws and its pacing sleeps.** They choose data and timing only; the nondeterministic interleaving covers every timing. Whether `gen_range` may be called is modelled (`SampleOK`). The wallet's `MissingKeyPair` error arm is unreachable from the generator, which only samples addresses from `wallet.addresses()`.
- **Reorgs.** Deconfirmed blocks are only logged (`ledger_manager/mod.rs:115`), and the spec lists reorg as a non-goal. The model's Chain is monotone.
- **`channel::bounded(0)`** (rendezvous). `buffer_size` comes from `main.rs`, outside `src/src/`, and the model assumes at least 1.
- **Pure I/O:**
  - HTTP parsing and responses;
  - the visualization dump;
  - the transaction and validation types;
  - the ico experiment;
  - the `vm_executor_only` example.
