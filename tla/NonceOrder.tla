----------------------------- MODULE NonceOrder -----------------------------
(***************************************************************************)
(* Per-address nonce order from the wallet to the state database.          *)
(*                                                                         *)
(* Submitter threads (API request threads, the transaction generator)      *)
(* build a transaction with Wallet::create_transaction_*: the nonce is     *)
(* read and incremented under the nonce_balances lock, the lock is         *)
(* dropped, and new_transaction later inserts the transaction into the     *)
(* pool under the pool's lock. The block producer takes the oldest         *)
(* transactions in pool order and removes them; blocks reach the applier   *)
(* in ledger order (LedgerManager's ApplyInLedgerOrder), so the ledger is  *)
(* modelled directly as the concatenation of the blocks. The applier       *)
(* unwraps statedb.apply, which fails on a transaction whose nonce is not  *)
(* the account's current nonce.                                            *)
(*                                                                         *)
(* The pool is its by_storage_index order as a sequence; MemoryPoolProofs *)
(* shows by_hash always agrees with it.                                    *)
(***************************************************************************)
EXTENDS Naturals, Sequences, SequencesExt

CONSTANTS
  Submitters,       \* the threads that create and submit transactions
  Addrs,            \* the wallet's addresses
  Uses,             \* Uses[s]: the addresses submitter s may send from
  NonceBound,       \* bound on the nonces the wallet hands out per address
  MaxTransactions,  \* the pool's max_transactions
  BatchSize         \* transactions per block

ASSUME NonceOrderAssumption ==
  /\ Uses \in [Submitters -> SUBSET Addrs]
  /\ NonceBound \in Nat
  /\ MaxTransactions \in Nat
  /\ BatchSize \in Nat \ {0}

Txs == [addr : Addrs, nonce : 0..NonceBound]
NoTx == [addr |-> "none", nonce |-> 0]

VARIABLES
  nonces,      \* Wallet.nonce_balances: address -> next nonce
  pc,          \* submitter -> "idle" or "hold" (has a transaction built)
  held,        \* submitter -> the transaction it built and not yet submitted
  pool,        \* the pool's transactions, oldest first
  ledger,      \* the confirmed transactions, block after block
  applied,     \* how many of them the applier has applied
  stateNonce,  \* the state database's nonce per address
  applier      \* "running" or "dead" (statedb.apply(..).unwrap() panicked)

vars == <<nonces, pc, held, pool, ledger, applied, stateNonce, applier>>

-----------------------------------------------------------------------------
(* create_transaction_call (and _payment, _create): with nonce_balances   *)
(* locked, read the address's nonce and store it plus one; then drop the  *)
(* lock and sign.                                                          *)
CreateTransaction(s, a) ==
  /\ pc[s] = "idle"
  /\ a \in Uses[s]
  /\ nonces[a] < NonceBound
  /\ held' = [held EXCEPT ![s] = [addr |-> a, nonce |-> nonces[a]]]
  /\ nonces' = [nonces EXCEPT ![a] = @ + 1]
  /\ pc' = [pc EXCEPT ![s] = "hold"]
  /\ UNCHANGED <<pool, ledger, applied, stateNonce, applier>>

(* A plausible bug: an insert that ignores max_transactions. *)
InsertUncapped(tx) == pool' = Append(pool, tx)

(* MemoryPool::insert: a no-op once it holds more than max_transactions. *)
Insert(tx) ==
  pool' = IF Len(pool) > MaxTransactions THEN pool ELSE Append(pool, tx)

(* new_transaction: under the pool's lock, insert unless contains(). *)
NewTransaction(s) ==
  /\ pc[s] = "hold"
  /\ IF held[s] \in ToSet(pool) THEN UNCHANGED pool ELSE Insert(held[s])
  /\ pc' = [pc EXCEPT ![s] = "idle"]
  /\ held' = [held EXCEPT ![s] = NoTx]
  /\ UNCHANGED <<nonces, ledger, applied, stateNonce, applier>>

(* A plausible bug: get_transactions taking the newest entries first. *)
OldestNewestFirst(k) == Reverse(SubSeq(pool, Len(pool) - k + 1, Len(pool)))

(* get_transactions(k): the k entries with the smallest storage indices. *)
Oldest(k) == SubSeq(pool, 1, k)

(* The block producer (not in src/): take up to BatchSize oldest entries, *)
(* remove each by hash, and the block is confirmed after the ones before. *)
MineBlock ==
  /\ pool # <<>>
  /\ LET k == IF Len(pool) < BatchSize THEN Len(pool) ELSE BatchSize
         block == Oldest(k)
     IN /\ pool' = SelectSeq(pool, LAMBDA t : t \notin ToSet(block))
        /\ ledger' = ledger \o block
  /\ UNCHANGED <<nonces, pc, held, applied, stateNonce, applier>>

(* A plausible bug: the applier loop that does not move past a tx. *)
ApplyNoAdvance ==
  /\ applier = "running"
  /\ applied < Len(ledger)
  /\ LET tx == ledger[applied + 1] IN
       IF tx.nonce = stateNonce[tx.addr]
         THEN /\ stateNonce' = [stateNonce EXCEPT ![tx.addr] = @ + 1]
              /\ UNCHANGED <<applied, applier>>
         ELSE /\ applier' = "dead"
              /\ UNCHANGED <<applied, stateNonce>>
  /\ UNCHANGED <<nonces, pc, held, pool, ledger>>

(* statedb.apply(&tx).unwrap() on the next confirmed transaction: the     *)
(* execution engine accepts only the account's current nonce and bumps it;*)
(* any other nonce is an Err, and the unwrap panics the applier.          *)
Apply ==
  /\ applier = "running"
  /\ applied < Len(ledger)
  /\ LET tx == ledger[applied + 1] IN
       IF tx.nonce = stateNonce[tx.addr]
         THEN /\ stateNonce' = [stateNonce EXCEPT ![tx.addr] = @ + 1]
              /\ applied' = applied + 1
              /\ UNCHANGED applier
         ELSE /\ applier' = "dead"
              /\ UNCHANGED <<applied, stateNonce>>
  /\ UNCHANGED <<nonces, pc, held, pool, ledger>>

-----------------------------------------------------------------------------
(* Wallet::load_keypair starts every address at nonce 0, as does the     *)
(* state database for a fresh account.                                    *)
Init ==
  /\ nonces = [a \in Addrs |-> 0]
  /\ pc = [s \in Submitters |-> "idle"]
  /\ held = [s \in Submitters |-> NoTx]
  /\ pool = <<>>
  /\ ledger = <<>>
  /\ applied = 0
  /\ stateNonce = [a \in Addrs |-> 0]
  /\ applier = "running"

Next ==
  \/ \E s \in Submitters, a \in Addrs : CreateTransaction(s, a)
  \/ \E s \in Submitters : NewTransaction(s)
  \/ MineBlock
  \/ Apply

Spec == Init /\ [][Next]_vars

-----------------------------------------------------------------------------
(* Every variable holds a value of the type the code gives it, and the    *)
(* pool never holds more than max_transactions + 1 entries.               *)
TypeOK ==
  /\ nonces \in [Addrs -> 0..NonceBound]
  /\ pc \in [Submitters -> {"idle", "hold"}]
  /\ held \in [Submitters -> Txs \cup {NoTx}]
  /\ pool \in Seq(Txs)
  /\ Len(pool) <= MaxTransactions + 1
  /\ ledger \in Seq(Txs)
  /\ applied \in 0..Len(ledger)
  /\ stateNonce \in [Addrs -> 0..NonceBound]
  /\ applier \in {"running", "dead"}

(* The nonces of address a in a sequence of transactions, in order. *)
NoncesOf(seq, a) ==
  LET mine == SelectSeq(seq, LAMBDA t : t.addr = a)
  IN [i \in 1..Len(mine) |-> mine[i].nonce]

(* For every address, the transactions confirmed and then waiting in the  *)
(* pool carry the nonces 0, 1, 2, ... in that order: nothing skipped,     *)
(* repeated or swapped anywhere between the wallet's counter, the pool's  *)
(* FIFO order, the block producer and the ledger.                         *)
NonceOrderPreserved ==
  \A a \in Addrs :
     NoncesOf(ledger \o pool, a) = [i \in 1..Len(NoncesOf(ledger \o pool, a)) |-> i - 1]

(* The applier never panics on a nonce the state database refuses: every *)
(* confirmed transaction it reaches carries its account's next nonce.     *)
ApplierNeverFails == applier = "running"

=============================================================================
