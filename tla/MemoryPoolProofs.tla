-------------------------- MODULE MemoryPoolProofs --------------------------
(***************************************************************************)
(* Proofs that the memory pool's two indices agree, that its count is     *)
(* right and that it never exceeds max_transactions + 1 entries, for every *)
(* value of the constants, and under every interleaving of the API         *)
(* threads, the generator, the block producer and received blocks.         *)
(***************************************************************************)
EXTENDS MemoryPool, FiniteSetTheorems, TLAPS

(* Every storage index in use was handed out by the counter already. This *)
(* is what makes the index a fresh insert takes free in by_storage_index. *)
IndicesBelowCounter == \A k \in DOMAIN by_storage_index : k < counter

(* The inductive invariant. *)
IInv ==
  /\ TypeOK
  /\ IndexesAgree
  /\ IndicesBelowCounter
  /\ PoolWithinCap

-----------------------------------------------------------------------------
(* The hash index is a finite set, so its cardinality means something. *)
LEMMA DomainFinite ==
  ASSUME TypeOK
  PROVE  IsFiniteSet(DOMAIN by_hash)
BY PoolAssumption, FS_Subset DEF TypeOK

LEMMA InitIInv == Init => IInv
<1> SUFFICES ASSUME Init PROVE IInv
  OBVIOUS
<1>1. DOMAIN by_hash = {} /\ DOMAIN by_storage_index = {}
  BY DEF Init
<1>2. PoolLen = 0
  BY <1>1, FS_EmptySet DEF PoolLen
<1>3. TypeOK
  BY <1>1 DEF Init, TypeOK
<1>4. IndexesAgree
  BY <1>1, <1>2 DEF Init, IndexesAgree
<1>5. IndicesBelowCounter
  BY <1>1 DEF IndicesBelowCounter
<1>6. PoolWithinCap
  BY <1>2, PoolAssumption DEF PoolWithinCap
<1> QED
  BY <1>3, <1>4, <1>5, <1>6 DEF IInv

(* A fresh insert of a hash the pool does not hold keeps the invariant. *)
LEMMA InsertFresh ==
  ASSUME IInv, NEW tx \in Txs, tx \notin DOMAIN by_hash, Insert(tx),
         gen_pc' \in {"check", "submit"}, miner_batch' \subseteq Txs,
         calls' \in Nat
  PROVE  IInv'
<1> USE DEF IInv
<1>1. CASE num_transactions > MaxTransactions
  BY <1>1, PoolAssumption DEF Insert, pool, TypeOK, IndexesAgree,
                               IndicesBelowCounter, PoolWithinCap, PoolLen
<1>2. CASE num_transactions <= MaxTransactions
  <2>1. /\ by_hash' = SetAt(by_hash, tx, counter)
        /\ by_storage_index' = SetAt(by_storage_index, counter, tx)
        /\ counter' = counter + 1
        /\ num_transactions' = num_transactions + 1
    BY <1>2, PoolAssumption DEF Insert, TypeOK
  <2>2. DOMAIN by_hash' = DOMAIN by_hash \cup {tx}
        /\ DOMAIN by_storage_index' = DOMAIN by_storage_index \cup {counter}
    BY <2>1 DEF SetAt
  <2>3. counter \notin DOMAIN by_storage_index
    BY DEF IndicesBelowCounter, TypeOK
  <2>4. PoolLen' = PoolLen + 1
    BY <2>2, DomainFinite, FS_AddElement DEF PoolLen
  <2>5. TypeOK'
    BY <2>1, <2>2 DEF TypeOK, SetAt
  <2>6. IndexesAgree'
    BY <2>1, <2>2, <2>3, <2>4 DEF IndexesAgree, SetAt, TypeOK
  <2>7. IndicesBelowCounter'
    BY <2>1, <2>2 DEF IndicesBelowCounter, TypeOK
  <2>8. PoolWithinCap'
    BY <1>2, <2>4, PoolAssumption DEF PoolWithinCap, IndexesAgree, TypeOK
  <2> QED
    BY <2>5, <2>6, <2>7, <2>8
<1> QED
  BY <1>1, <1>2, PoolAssumption DEF TypeOK

(* Removing a hash, held or not, keeps the invariant. *)
LEMMA RemoveKeeps ==
  ASSUME IInv, NEW h \in Txs, RemoveByHash(h),
         gen_pc' \in {"check", "submit"}, miner_batch' \subseteq Txs,
         calls' \in Nat
  PROVE  IInv'
<1> USE DEF IInv
<1>1. CASE h \notin DOMAIN by_hash
  BY <1>1 DEF RemoveByHash, pool, TypeOK, IndexesAgree, IndicesBelowCounter,
               PoolWithinCap, PoolLen
<1>2. CASE h \in DOMAIN by_hash
  <2> DEFINE k0 == by_hash[h]
  <2>1. /\ by_hash' = DropAt(by_hash, h)
        /\ by_storage_index' = DropAt(by_storage_index, k0)
        /\ num_transactions' = num_transactions - 1
        /\ counter' = counter
    BY <1>2 DEF RemoveByHash
  <2>2. DOMAIN by_hash' = DOMAIN by_hash \ {h}
        /\ DOMAIN by_storage_index' = DOMAIN by_storage_index \ {k0}
    BY <2>1 DEF DropAt
  <2>3. PoolLen' = PoolLen - 1 /\ PoolLen >= 1
    <3>1. PoolLen' = PoolLen - 1
      BY <1>2, <2>2, DomainFinite, FS_RemoveElement DEF PoolLen
    <3>2. PoolLen # 0
      BY <1>2, DomainFinite, FS_EmptySet DEF PoolLen
    <3> QED
      BY <3>1, <3>2, DomainFinite, FS_CardinalityType DEF PoolLen
  <2>4. \A h2 \in DOMAIN by_hash \ {h} : by_hash[h2] # k0
    BY <1>2 DEF IndexesAgree
  <2>5. \A k \in DOMAIN by_storage_index \ {k0} : by_storage_index[k] # h
    BY <1>2 DEF IndexesAgree
  <2>6. TypeOK'
    BY <2>1, <2>2, <2>3 DEF TypeOK, DropAt, IndexesAgree
  <2>7. IndexesAgree'
    BY <2>1, <2>2, <2>3, <2>4, <2>5 DEF IndexesAgree, DropAt
  <2>8. IndicesBelowCounter'
    BY <2>1, <2>2 DEF IndicesBelowCounter, DropAt
  <2>9. PoolWithinCap'
    <3>1. PoolLen \in Nat
      BY DomainFinite, FS_CardinalityType DEF PoolLen
    <3> QED
      BY <2>3, <3>1, PoolAssumption DEF PoolWithinCap
  <2> QED
    BY <2>6, <2>7, <2>8, <2>9
<1> QED
  BY <1>1, <1>2

(* A new_transaction call keeps the invariant, whichever branch it takes. *)
LEMMA NewTransactionKeeps ==
  ASSUME IInv, NEW tx \in Txs, NewTransaction(tx),
         gen_pc' \in {"check", "submit"}, miner_batch' \subseteq Txs
  PROVE  IInv'
<1>1. calls' \in Nat
  BY DEF NewTransaction, IInv, TypeOK
<1>2. CASE tx \in DOMAIN by_hash
  BY <1>1, <1>2 DEF NewTransaction, pool, IInv, TypeOK, IndexesAgree,
                     IndicesBelowCounter, PoolWithinCap, PoolLen
<1>3. CASE tx \notin DOMAIN by_hash
  BY <1>1, <1>3, InsertFresh DEF NewTransaction
<1> QED
  BY <1>2, <1>3

(* Every step of every thread keeps the invariant. *)
LEMMA NextIInv == IInv /\ [Next]_vars => IInv'
<1> SUFFICES ASSUME IInv, [Next]_vars PROVE IInv'
  OBVIOUS
<1>1. ASSUME NEW tx \in Txs, ApiSubmit(tx) PROVE IInv'
  BY <1>1, NewTransactionKeeps DEF ApiSubmit, IInv, TypeOK
<1>2. CASE GenCheck
  BY <1>2 DEF GenCheck, pool, IInv, TypeOK, IndexesAgree,
               IndicesBelowCounter, PoolWithinCap, PoolLen
<1>3. ASSUME NEW tx \in Txs, GenSubmit(tx) PROVE IInv'
  BY <1>3, NewTransactionKeeps DEF GenSubmit, IInv, TypeOK
<1>4. CASE MinerGet
  <2>1. GetTransactions(BatchSize) \subseteq Txs
    BY DEF GetTransactions, OldestIndices, IInv, TypeOK
  <2> QED
    BY <1>4, <2>1 DEF MinerGet, pool, IInv, TypeOK, IndexesAgree,
                      IndicesBelowCounter, PoolWithinCap, PoolLen
<1>5. ASSUME NEW h \in Txs, MinerRemove(h) PROVE IInv'
  BY <1>5, RemoveKeeps DEF MinerRemove, IInv, TypeOK
<1>6. ASSUME NEW h \in Txs, BlockReceived(h) PROVE IInv'
  BY <1>6, RemoveKeeps DEF BlockReceived, IInv, TypeOK
<1>7. CASE UNCHANGED vars
  BY <1>7 DEF vars, IInv, TypeOK, IndexesAgree, IndicesBelowCounter,
               PoolWithinCap, PoolLen
<1> QED
  BY <1>1, <1>2, <1>3, <1>4, <1>5, <1>6, <1>7 DEF Next

-----------------------------------------------------------------------------
(* The pool's variables always have the types the code gives them; in     *)
(* particular num_transactions never underflows in remove_and_get.        *)
THEOREM TypeCorrect == Spec => []TypeOK
BY InitIInv, NextIInv, PTL DEF Spec, IInv

(* by_hash and by_storage_index always hold the same entries and           *)
(* num_transactions counts them, under every interleaving of the callers, *)
(* because each caller checks contains() and inserts under one lock.      *)
THEOREM IndexesAlwaysAgree == Spec => []IndexesAgree
BY InitIInv, NextIInv, PTL DEF Spec, IInv

(* The pool never holds more than max_transactions + 1 entries. *)
THEOREM PoolAlwaysWithinCap == Spec => []PoolWithinCap
BY InitIInv, NextIInv, PTL DEF Spec, IInv
=============================================================================
