---------------------------- MODULE MCNonceOrder ----------------------------
(* NonceOrder instantiated for TLC: an API thread and the generator. *)
EXTENDS NonceOrder, TLC

CONSTANTS api, gen, a1, a2

MCSubmitters == {api, gen}
MCAddrs == {a1, a2}

(* Each thread sends from an address of its own. *)
UsesOwn == (api :> {a1}) @@ (gen :> {a2})

(* /wallet/call sends from the wallet's first address, which the         *)
(* generator may also draw.                                               *)
UsesShared == [s \in MCSubmitters |-> {a1}]

(* The generator alone. *)
GenOnly == {gen}
UsesGen == gen :> {a1}
=============================================================================
