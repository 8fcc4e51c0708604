----------------------------- MODULE TxGenerator -----------------------------
(***************************************************************************)
(* The transaction generator thread of                                     *)
(* src/src/experiment/transaction_generator.rs and the API endpoints that  *)
(* drive it (/transaction-generator/start, stop, step,                     *)
(* set-arrival-distribution, set-value-distribution, set-transaction-type  *)
(* in src/src/api/mod.rs) through an unbounded crossbeam control channel.  *)
(*                                                                         *)
(* One round of the generator's loop is three steps, because API threads  *)
(* run between them: take a control signal if there is one (blocking on   *)
(* recv when Paused, try_recv otherwise); in Continuous(throttle) sleep    *)
(* and start over while the pool holds throttle or more; then sample a     *)
(* value, build one transaction of the configured type (a type the match   *)
(* cannot build panics), submit it through new_transaction, and in         *)
(* Step(count) mode count it down.                                         *)
(*                                                                         *)
(* step_count is a u64: step_count - 1 on 0 panics when overflow checks    *)
(* are compiled in (debug) and wraps modulo 2^64 otherwise (release).      *)
(* The model keeps the wrap with a width of Width bits.                    *)
(***************************************************************************)
EXTENDS Naturals, Sequences

CONSTANTS
  Throttles,       \* throttle values the API may send with start
  Counts,          \* count values the API may send with step
  Width,           \* bits of step_count (64 in the code)
  MaxQueued,       \* bound on the control channel's length (unbounded in code)
  MaxTransactions, \* the pool's max_transactions
  MadeBound,       \* bound on the transactions counted by the ghost made
  OverflowChecks,  \* TRUE for a debug build, FALSE for a release build
  ApiTypes,        \* the types set-transaction-type requests carry
  Values,          \* the u64 values min and max of set-value-distribution
  AckBound         \* bound on the control requests answered ok in a run

ASSUME TxGeneratorAssumption ==
  /\ Throttles \subseteq Nat
  /\ Counts \subseteq Nat
  /\ Width \in Nat \ {0}
  /\ 2^Width \in Nat \ {0}   \* arithmetic the provers do not derive
  /\ \A c \in Counts : c < 2^Width
  /\ MaxQueued \in Nat \ {0}
  /\ MaxTransactions \in Nat
  /\ MadeBound \in Nat
  /\ OverflowChecks \in BOOLEAN
  /\ ApiTypes \subseteq {"known", "unknown"}
  /\ Values \subseteq Nat
  /\ {50, 100} \subseteq Values
  /\ AckBound \in Nat

(* A transaction type is one the match on transaction_type builds, or one *)
(* it panics on ("simpleballot" and every string it does not list).       *)
TxTypes == {"known", "unknown"}

(* ValueDistribution::Uniform { min, max }. *)
ValueDists == [min : Values, max : Values]

(* ControlSignal. The arrival distribution only paces the loop and is one *)
(* "setarrival" signal that changes nothing the model tells apart.        *)
Signals ==
       [kind : {"start"}, n : Throttles]
  \cup [kind : {"step"}, n : Counts]
  \cup [kind : {"stop"}, n : {0}]
  \cup [kind : {"settype"}, n : TxTypes]
  \cup [kind : {"setarrival"}, n : {0}]
  \cup [kind : {"setvalue"}, n : ValueDists]

(* State: Continuous(throttle), Paused, Step(count). *)
States ==
       [kind : {"continuous"}, n : Throttles]
  \cup [kind : {"paused"}, n : {0}]
  \cup [kind : {"step"}, n : 0..(2^Width - 1)]

VARIABLES
  state,      \* TransactionGenerator.state
  txType,     \* TransactionGenerator.transaction_type
  valueDist,  \* TransactionGenerator.value_distribution
  chan,       \* the control channel's buffer, oldest first
  alive,      \* the generator thread has not panicked
  phase,      \* "poll" at the top of the loop, "make" once try_recv was empty
  poolLen,    \* mempool.len() as the throttle check reads it
  stepping,   \* the last start/stop/step signal handled was a step
  budget,     \* the count of the last step signal handled
  made,       \* transactions made since the last step signal was handled
  acked,      \* control requests the API answered ok
  handled     \* control signals the generator has handled

vars == <<state, txType, valueDist, chan, alive, phase, poolLen, stepping,
          budget, made, acked, handled>>
genVars == <<state, txType, valueDist, phase, stepping, budget, made>>

-----------------------------------------------------------------------------
(* The API's request threads. A request with a missing or unparsable     *)
(* parameter, or a send() that fails because the generator thread is     *)
(* gone, is answered false and changes nothing: a stutter.               *)

(* transaction_generator_handle.send(signal) answered ok. *)
Send(sig) ==
  /\ alive
  /\ Len(chan) < MaxQueued
  /\ acked < AckBound
  /\ chan' = Append(chan, sig)
  /\ acked' = acked + 1
  /\ UNCHANGED <<alive, poolLen, handled>>
  /\ UNCHANGED genVars

(* /transaction-generator/start?throttle=t *)
ApiStart(t) == Send([kind |-> "start", n |-> t])

(* /transaction-generator/stop *)
ApiStop == Send([kind |-> "stop", n |-> 0])

(* /transaction-generator/step?count=c: any u64, 0 included. *)
ApiStep(c) == Send([kind |-> "step", n |-> c])

(* /transaction-generator/set-arrival-distribution?distribution=uniform   *)
(* &interval=i; any other distribution is refused.                        *)
ApiSetArrival == Send([kind |-> "setarrival", n |-> 0])

(* /transaction-generator/set-value-distribution?distribution=uniform     *)
(* &min=lo&max=hi: refused when min is bigger than max.                    *)
ApiSetValue(lo, hi) ==
  /\ lo <= hi
  /\ Send([kind |-> "setvalue", n |-> [min |-> lo, max |-> hi]])

(* /transaction-generator/set-transaction-type?type=t: any string. *)
ApiSetType(t) == Send([kind |-> "settype", n |-> t])

-----------------------------------------------------------------------------
(* The generator thread. *)

(* handle_control_signal: the new state for a signal. *)
HandleState(sig) ==
  CASE sig.kind = "start" -> [kind |-> "continuous", n |-> sig.n]
    [] sig.kind = "stop"  -> [kind |-> "paused", n |-> 0]
    [] sig.kind = "step"  -> [kind |-> "step", n |-> sig.n]
    [] OTHER              -> state

(* A plausible bug: control signals received only in the Paused arm. *)
GenControlPausedOnly ==
  /\ alive
  /\ phase = "poll"
  /\ state.kind = "paused"
  /\ chan # <<>>
  /\ LET sig == Head(chan) IN
       /\ state' = HandleState(sig)
       /\ txType' = IF sig.kind = "settype" THEN sig.n ELSE txType
       /\ valueDist' = IF sig.kind = "setvalue" THEN sig.n ELSE valueDist
       /\ stepping' = IF sig.kind \in {"start", "stop", "step"}
                         THEN sig.kind = "step" ELSE stepping
       /\ budget' = IF sig.kind = "step" THEN sig.n ELSE budget
       /\ made' = IF sig.kind = "step" THEN 0 ELSE made
  /\ chan' = Tail(chan)
  /\ handled' = handled + 1
  /\ UNCHANGED <<alive, phase, poolLen, acked>>

(* The loop's first match: recv when Paused, try_recv otherwise; a signal *)
(* is handled and the loop continues.                                     *)
GenControl ==
  /\ alive
  /\ phase = "poll"
  /\ chan # <<>>
  /\ LET sig == Head(chan) IN
       /\ state' = HandleState(sig)
       /\ txType' = IF sig.kind = "settype" THEN sig.n ELSE txType
       /\ valueDist' = IF sig.kind = "setvalue" THEN sig.n ELSE valueDist
       /\ stepping' = IF sig.kind \in {"start", "stop", "step"}
                         THEN sig.kind = "step" ELSE stepping
       /\ budget' = IF sig.kind = "step" THEN sig.n ELSE budget
       /\ made' = IF sig.kind = "step" THEN 0 ELSE made
  /\ chan' = Tail(chan)
  /\ handled' = handled + 1
  /\ UNCHANGED <<alive, phase, poolLen, acked>>

(* try_recv found the channel empty in Continuous or Step: go on with    *)
(* this round.                                                           *)
GenPoll ==
  /\ alive
  /\ phase = "poll"
  /\ chan = <<>>
  /\ state.kind \in {"continuous", "step"}
  /\ made < MadeBound
  /\ phase' = "make"
  /\ UNCHANGED <<state, txType, valueDist, stepping, budget, made>>
  /\ UNCHANGED <<chan, alive, poolLen, acked, handled>>

(* Continuous(throttle) and len() >= throttle under the pool's lock:     *)
(* sleep and continue.                                                   *)
GenThrottled ==
  /\ alive
  /\ phase = "make"
  /\ state.kind = "continuous"
  /\ poolLen >= state.n
  /\ phase' = "poll"
  /\ UNCHANGED <<state, txType, valueDist, stepping, budget, made>>
  /\ UNCHANGED <<chan, alive, poolLen, acked, handled>>

(* A plausible bug: gen_range(min, max) called even when min = max. *)
SampleAlwaysRange == valueDist.min < valueDist.max

(* The value: min when min = max, else rng.gen_range(min, max), which     *)
(* panics unless min < max.                                               *)
SampleOK == valueDist.min = valueDist.max \/ valueDist.min < valueDist.max

(* A plausible bug: an insert that ignores max_transactions. *)
SubmittedNoCap == poolLen + 1

(* new_transaction on a fresh transaction: insert is a no-op once the     *)
(* pool holds more than max_transactions.                                 *)
Submitted == IF poolLen > MaxTransactions THEN poolLen ELSE poolLen + 1

(* step_count - 1 as the build computes it without overflow checks: 0    *)
(* wraps to the largest value.                                            *)
Decrement(c) == IF c = 0 THEN 2^Width - 1 ELSE c - 1

(* The decrement written as a check of the old count, a plausible bug. *)
AfterStepLate(c) ==
  IF c = 0 THEN [kind |-> "paused", n |-> 0]
           ELSE [kind |-> "step", n |-> Decrement(c)]

(* The Step bookkeeping after a transaction was submitted. *)
AfterStep(c) ==
  IF Decrement(c) = 0 THEN [kind |-> "paused", n |-> 0]
                      ELSE [kind |-> "step", n |-> Decrement(c)]

(* A plausible bug: Step mode that never counts down. *)
GenMakeNoDecrement ==
  /\ alive
  /\ phase = "make"
  /\ state.kind = "continuous" => poolLen < state.n
  /\ made < MadeBound
  /\ phase' = "poll"
  /\ \/ /\ ~SampleOK \/ txType = "unknown"
        /\ alive' = FALSE
        /\ UNCHANGED <<state, poolLen, made>>
     \/ /\ SampleOK
        /\ txType = "known"
        /\ poolLen' = Submitted
        /\ made' = made + 1
        /\ UNCHANGED <<state, alive>>
  /\ UNCHANGED <<txType, valueDist, stepping, budget>>
  /\ UNCHANGED <<chan, acked, handled>>

(* The rest of the round: the throttle check passed (Continuous only),    *)
(* the value was sampled and the match on transaction_type built a        *)
(* transaction, or either panicked; new_transaction submitted it, and     *)
(* Step counted down, panicking on 0 under overflow checks. The wallet's  *)
(* Err (MissingKeyPair) arm is not reachable: both addresses are drawn    *)
(* from wallet.addresses(), and no key pair is ever removed.              *)
GenMake ==
  /\ alive
  /\ phase = "make"
  /\ state.kind = "continuous" => poolLen < state.n
  /\ made < MadeBound
  /\ phase' = "poll"
  /\ \/ /\ ~SampleOK \/ txType = "unknown"
        /\ alive' = FALSE
        /\ UNCHANGED <<state, poolLen, made>>
     \/ /\ SampleOK
        /\ txType = "known"
        /\ poolLen' = Submitted
        /\ made' = made + 1
        /\ \/ /\ state.kind = "continuous"
              /\ UNCHANGED <<state, alive>>
           \/ /\ state.kind = "step"
              /\ state.n = 0
              /\ OverflowChecks
              /\ alive' = FALSE
              /\ UNCHANGED state
           \/ /\ state.kind = "step"
              /\ state.n = 0 => ~OverflowChecks
              /\ state' = AfterStep(state.n)
              /\ UNCHANGED alive
  /\ UNCHANGED <<txType, valueDist, stepping, budget>>
  /\ UNCHANGED <<chan, acked, handled>>

(* The block producer or a received block removes a transaction. *)
PoolDrain ==
  /\ poolLen > 0
  /\ poolLen' = poolLen - 1
  /\ UNCHANGED <<chan, alive, acked, handled>>
  /\ UNCHANGED genVars

-----------------------------------------------------------------------------
(* TransactionGenerator::new: Paused, type "donothing", values uniform in *)
(* 50..100, empty channel.                                                *)
Init ==
  /\ state = [kind |-> "paused", n |-> 0]
  /\ txType = "known"
  /\ valueDist = [min |-> 50, max |-> 100]
  /\ chan = <<>>
  /\ alive = TRUE
  /\ phase = "poll"
  /\ poolLen = 0
  /\ stepping = FALSE
  /\ budget = 0
  /\ made = 0
  /\ acked = 0
  /\ handled = 0

Api ==
  \/ \E t \in Throttles : ApiStart(t)
  \/ ApiStop
  \/ \E c \in Counts : ApiStep(c)
  \/ ApiSetArrival
  \/ \E lo, hi \in Values : ApiSetValue(lo, hi)
  \/ \E t \in ApiTypes : ApiSetType(t)

Generator == GenControl \/ GenPoll \/ GenThrottled \/ GenMake

Next ==
  \/ Api
  \/ Generator
  \/ PoolDrain

(* The generator is an OS thread looping forever; it sleeps between       *)
(* rounds but is always scheduled again.                                  *)
Spec == Init /\ [][Next]_vars /\ WF_vars(Generator)

-----------------------------------------------------------------------------
(* Every variable holds a value of the type the code gives it. *)
TypeOK ==
  /\ state \in States
  /\ txType \in TxTypes
  /\ valueDist \in ValueDists
  /\ chan \in Seq(Signals)
  /\ Len(chan) <= MaxQueued
  /\ alive \in BOOLEAN
  /\ phase \in {"poll", "make"}
  /\ poolLen \in 0..(MaxTransactions + 1)
  /\ stepping \in BOOLEAN
  /\ budget \in Counts \cup {0}
  /\ made \in 0..MadeBound
  /\ acked \in 0..AckBound
  /\ handled \in Nat

(* /transaction-generator/step?count=c makes at most c transactions       *)
(* before another signal is handled: the count-down after each submitted  *)
(* transaction, and the switch to Paused when it reaches zero, never let  *)
(* one more through.                                                      *)
StepMakesAtMostCount == stepping => made <= budget

(* With only types the match can build requested, and no step?count=0    *)
(* sent to a build with overflow checks, the generator thread never       *)
(* panics: set-value's min <= max check and the generator's min = max     *)
(* branch keep gen_range from panicking. A step of 0 in a debug build     *)
(* does panic at step_count - 1; runs of this property exclude it.        *)
GeneratorNeverPanics == alive

(* Once a Step is being worked off, the generator eventually pauses       *)
(* having made exactly the count, unless a new signal arrives first or    *)
(* the thread dies.                                                       *)
StepEventuallyPauses ==
  (state.kind = "step") ~>
     \/ state.kind = "paused" /\ made = budget
     \/ chan # <<>>
     \/ ~alive

(* A control request the API answered ok is eventually handled by the     *)
(* generator: the k-th acknowledged signal is the k-th one handled.       *)
OkMeansHandled ==
  \A k \in 1..AckBound : (acked >= k) ~> (handled >= k)

=============================================================================
