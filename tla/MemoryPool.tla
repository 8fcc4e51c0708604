----------------------------- MODULE MemoryPool -----------------------------
(***************************************************************************)
(* The transaction memory pool of src/src/miner/memory_pool.rs together    *)
(* with the three call sites that share it behind one Mutex:               *)
(*   - the new_transaction handler (src/src/handler/new_transaction.rs),   *)
(*     called by every API request thread and by the generator;            *)
(*   - the transaction generator's throttle check                          *)
(*     (src/src/experiment/transaction_generator.rs), taken in a critical  *)
(*     section of its own before the handler's;                            *)
(*   - the block producer, which is not in src/ and is modelled from the   *)
(*     spec: get_transactions(n), then one remove_by_hash per included tx. *)
(*                                                                         *)
(* A transaction is identified with its hash: Txs is a set of model        *)
(* values and the pool's Entry.transaction is the key it is stored under.  *)
(***************************************************************************)
EXTENDS Naturals, FiniteSets

CONSTANTS
  Txs,              \* the transactions (= their hashes) that can be submitted
  MaxTransactions,  \* MemoryPool.max_transactions, the size_limit of new()
  Throttle,         \* the generator's State::Continuous(throttle)
  BatchSize,        \* n of the block producer's get_transactions(n)
  CallBound         \* bound on the number of new_transaction calls of a run

ASSUME PoolAssumption ==
  /\ IsFiniteSet(Txs)
  /\ MaxTransactions \in Nat
  /\ Throttle \in Nat
  /\ BatchSize \in Nat
  /\ CallBound \in Nat

VARIABLES
  num_transactions,   \* MemoryPool.num_transactions
  counter,            \* MemoryPool.counter, the next storage_index
  by_hash,            \* MemoryPool.by_hash: hash -> Entry.storage_index
  by_storage_index,   \* MemoryPool.by_storage_index: storage_index -> hash
  gen_pc,             \* where the generator thread is in its loop
  miner_batch,        \* txs the producer took and has not yet removed
  calls               \* number of new_transaction calls so far

pool == <<num_transactions, counter, by_hash, by_storage_index>>
vars == <<num_transactions, counter, by_hash, by_storage_index,
          gen_pc, miner_batch, calls>>

(* The map f extended (or overwritten) at key k with value v. *)
SetAt(f, k, v) == [x \in DOMAIN f \cup {k} |-> IF x = k THEN v ELSE f[x]]

(* The map f without key k. *)
DropAt(f, k) == [x \in DOMAIN f \ {k} |-> f[x]]

-----------------------------------------------------------------------------
(* The operations of MemoryPool. Each is called with the pool's Mutex held *)
(* and so is one atomic step of the caller.                                *)

(* A plausible bug: the capacity test off by one more. *)
InsertLateCap(tx) ==
  \/ /\ num_transactions > MaxTransactions + 1
     /\ UNCHANGED pool
  \/ /\ num_transactions <= MaxTransactions + 1
     /\ by_storage_index' = SetAt(by_storage_index, counter, tx)
     /\ by_hash' = SetAt(by_hash, tx, counter)
     /\ counter' = counter + 1
     /\ num_transactions' = num_transactions + 1

(* insert: a no-op once num_transactions exceeds max_transactions; it     *)
(* stores under both indices and does not look for a duplicate hash.      *)
Insert(tx) ==
  \/ /\ num_transactions > MaxTransactions
     /\ UNCHANGED pool
  \/ /\ num_transactions <= MaxTransactions
     /\ by_storage_index' = SetAt(by_storage_index, counter, tx)
     /\ by_hash' = SetAt(by_hash, tx, counter)
     /\ counter' = counter + 1
     /\ num_transactions' = num_transactions + 1

(* A plausible bug: the early return of remove_and_get (the ? on          *)
(* by_hash.remove) dropped, so an absent hash still decrements the count. *)
RemoveByHashNoEarlyReturn(h) ==
  /\ by_hash' = DropAt(by_hash, h)
  /\ by_storage_index' = IF h \in DOMAIN by_hash
                           THEN DropAt(by_storage_index, by_hash[h])
                           ELSE by_storage_index
  /\ num_transactions' = num_transactions - 1
  /\ UNCHANGED counter

(* remove_by_hash, through remove_and_get: a no-op if the hash is absent. *)
RemoveByHash(h) ==
  \/ /\ h \notin DOMAIN by_hash
     /\ UNCHANGED pool
  \/ /\ h \in DOMAIN by_hash
     /\ by_hash' = DropAt(by_hash, h)
     /\ by_storage_index' = DropAt(by_storage_index, by_hash[h])
     /\ num_transactions' = num_transactions - 1
     /\ UNCHANGED counter

(* len(): the size of by_hash. *)
PoolLen == Cardinality(DOMAIN by_hash)

(* The storage indices of the n oldest entries: those with fewer than n   *)
(* smaller indices, i.e. the first n of the BTreeMap's ascending values(). *)
OldestIndices(n) ==
  {k \in DOMAIN by_storage_index :
     Cardinality({j \in DOMAIN by_storage_index : j < k}) < n}

(* get_transactions(n): the transactions under the n oldest indices, each *)
(* looked up in by_hash (the unwrap panics if one is missing there).      *)
GetTransactions(n) == {by_storage_index[k] : k \in OldestIndices(n)}

-----------------------------------------------------------------------------
(* The callers. *)

(* A plausible bug: a caller that inserts without asking contains() first. *)
NewTransactionUnchecked(tx) ==
  /\ calls < CallBound
  /\ calls' = calls + 1
  /\ Insert(tx)

(* new_transaction: under one lock, insert only if contains() is false.   *)
(* Every call counts against CallBound.                                    *)
NewTransaction(tx) ==
  /\ calls < CallBound
  /\ calls' = calls + 1
  /\ \/ /\ tx \in DOMAIN by_hash
        /\ UNCHANGED pool
     \/ /\ tx \notin DOMAIN by_hash
        /\ Insert(tx)

(* An API request thread (/wallet/call, /wallet/create) submits a tx.     *)
ApiSubmit(tx) ==
  /\ NewTransaction(tx)
  /\ UNCHANGED <<gen_pc, miner_batch>>

(* The generator, in Continuous(throttle) mode, checks len() under the     *)
(* lock and drops the lock. When len() >= throttle it sleeps and loops,    *)
(* a step that changes nothing; otherwise it goes on to create a tx.       *)
GenCheck ==
  /\ gen_pc = "check"
  /\ PoolLen < Throttle
  /\ gen_pc' = "submit"
  /\ UNCHANGED <<pool, miner_batch, calls>>

(* ... and then submits it through new_transaction, re-taking the lock.   *)
GenSubmit(tx) ==
  /\ gen_pc = "submit"
  /\ NewTransaction(tx)
  /\ gen_pc' = "check"
  /\ UNCHANGED miner_batch

(* The block producer takes the BatchSize oldest transactions ...         *)
MinerGet ==
  /\ miner_batch = {}
  /\ miner_batch' = GetTransactions(BatchSize)
  /\ UNCHANGED <<pool, gen_pc, calls>>

(* ... and removes each one it included by hash.                          *)
MinerRemove(h) ==
  /\ h \in miner_batch
  /\ RemoveByHash(h)
  /\ miner_batch' = miner_batch \ {h}
  /\ UNCHANGED <<gen_pc, calls>>

(* A block mined elsewhere arrives and each of its transactions is removed *)
(* from this pool by hash, whether or not this pool holds it (the network  *)
(* handler is not in src/; modelled from the spec).                        *)
BlockReceived(h) ==
  /\ RemoveByHash(h)
  /\ UNCHANGED <<gen_pc, miner_batch, calls>>

-----------------------------------------------------------------------------
(* MemoryPool::new(size_limit), before any thread runs. *)
Init ==
  /\ num_transactions = 0
  /\ counter = 0
  /\ by_hash = [h \in {} |-> 0]
  /\ by_storage_index = [k \in {} |-> CHOOSE t \in Txs : TRUE]
  /\ gen_pc = "check"
  /\ miner_batch = {}
  /\ calls = 0

Next ==
  \/ \E tx \in Txs : ApiSubmit(tx)
  \/ GenCheck
  \/ \E tx \in Txs : GenSubmit(tx)
  \/ MinerGet
  \/ \E h \in Txs : MinerRemove(h)
  \/ \E h \in Txs : BlockReceived(h)

Spec == Init /\ [][Next]_vars

-----------------------------------------------------------------------------
(* Every variable holds a value of the type the code gives it. *)
TypeOK ==
  /\ num_transactions \in Nat
  /\ counter \in Nat
  /\ DOMAIN by_hash \subseteq Txs
  /\ by_hash \in [DOMAIN by_hash -> Nat]
  /\ DOMAIN by_storage_index \subseteq Nat
  /\ by_storage_index \in [DOMAIN by_storage_index -> Txs]
  /\ gen_pc \in {"check", "submit"}
  /\ miner_batch \subseteq Txs
  /\ calls \in Nat

(* The hash index and the order index hold exactly the same entries, and  *)
(* num_transactions counts them. insert does not check for duplicates: it *)
(* is the callers' contains-then-insert under one lock that keeps this    *)
(* true. If it fails, get_transactions' unwrap panics on a hash missing   *)
(* from by_hash, remove_by_hash leaves a stale order entry behind, and    *)
(* the capacity check reads a wrong count.                                *)
IndexesAgree ==
  /\ \A h \in DOMAIN by_hash :
        /\ by_hash[h] \in DOMAIN by_storage_index
        /\ by_storage_index[by_hash[h]] = h
  /\ \A k \in DOMAIN by_storage_index :
        /\ by_storage_index[k] \in DOMAIN by_hash
        /\ by_hash[by_storage_index[k]] = k
  /\ num_transactions = PoolLen

(* The pool never holds more than max_transactions + 1 entries: insert    *)
(* lets one more in while num_transactions equals max_transactions, and   *)
(* never another, whatever the callers interleave.                        *)
PoolWithinCap == PoolLen <= MaxTransactions + 1

=============================================================================
