----------------------------- MODULE LedgerSpec -----------------------------
(***************************************************************************)
(* What the ledger manager promises, with its two threads and the channel *)
(* between them abstracted away: the chain confirms blocks, and the        *)
(* committed state grows by the whole transaction list of one confirmed    *)
(* block at a time, in ledger order (commit granularity is per block).     *)
(***************************************************************************)
EXTENDS LedgerData

VARIABLES
  confirmed,   \* how many blocks of LedgerOrder the chain has confirmed
  committed    \* the transactions whose effects are committed to the state db

Init ==
  /\ confirmed = 0
  /\ committed = <<>>

(* The chain confirms some more blocks. *)
Confirm ==
  /\ \E n \in confirmed + 1..Len(LedgerOrder) : confirmed' = n
  /\ UNCHANGED committed

(* The committed state moves from the end of confirmed block n - 1 to the  *)
(* end of confirmed block n.                                               *)
CommitBlock ==
  /\ \E n \in 1..confirmed :
        /\ committed = StreamUpTo[n - 1]
        /\ committed' = StreamUpTo[n]
  /\ UNCHANGED confirmed

Next == Confirm \/ CommitBlock

Spec == Init /\ [][Next]_<<confirmed, committed>>
=============================================================================
