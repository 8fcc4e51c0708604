------------------------- MODULE TxGeneratorProofs -------------------------
(***************************************************************************)
(* Proofs about the transaction generator for every value of the          *)
(* constants: its variables keep their types (whatever the build and even *)
(* when step count 0 wraps); when the API never sends step with a count of *)
(* 0, a Step(c) never makes more than c transactions; and when only types  *)
(* the generator builds are requested, the thread never panics.            *)
(***************************************************************************)
EXTENDS TxGenerator, TLAPS

(* The Step bookkeeping the count-down maintains: while the last start,   *)
(* stop or step signal was a step, the generator is Paused or in Step(n)  *)
(* with n >= 1, and the transactions made plus those still to make are    *)
(* the count the signal carried.                                          *)
StepBookkeeping ==
  stepping =>
    /\ state.kind # "continuous"
    /\ made <= budget
    /\ state.kind = "step" => /\ state.n \in 1..budget
                              /\ made + state.n = budget

(* The inductive invariant of StepBounded. *)
IInv == TypeOK /\ StepBookkeeping

(* A signal the generator can handle and then work with without a panic. *)
SafeSignal(sig) ==
  /\ sig.kind = "settype" => sig.n = "known"
  /\ sig.kind = "setvalue" => sig.n.min <= sig.n.max

(* The inductive invariant of NeverPanics: the configured type and value  *)
(* distribution, and every queued signal, are safe, and a debug build is  *)
(* never in Step(0).                                                      *)
NoPanicInv ==
  /\ TypeOK
  /\ alive
  /\ txType = "known"
  /\ valueDist.min <= valueDist.max
  /\ \A i \in 1..Len(chan) : SafeSignal(chan[i])
  /\ (state.kind = "step" /\ OverflowChecks) => state.n # 0

-----------------------------------------------------------------------------
(* The range of step_count is a set of naturals with a largest element. *)
LEMMA WidthPositive == 2^Width \in Nat \ {0}
BY TxGeneratorAssumption DEF TxGeneratorAssumption

(* Every count the API may send fits in step_count. *)
LEMMA CountsInRange == Counts \subseteq 0..(2^Width - 1)
BY TxGeneratorAssumption DEF TxGeneratorAssumption

(* handle_control_signal's new state, one signal kind at a time. *)
LEMMA HandleStateCases ==
  ASSUME NEW sig
  PROVE  /\ sig.kind = "start" =>
              HandleState(sig) = [kind |-> "continuous", n |-> sig.n]
         /\ sig.kind = "stop" => HandleState(sig) = [kind |-> "paused", n |-> 0]
         /\ sig.kind = "step" => HandleState(sig) = [kind |-> "step", n |-> sig.n]
         /\ sig.kind \notin {"start", "stop", "step"} => HandleState(sig) = state
<1>1. sig.kind = "start" => HandleState(sig) = [kind |-> "continuous", n |-> sig.n]
  BY Zenon DEF HandleState
<1>2. sig.kind = "stop" => HandleState(sig) = [kind |-> "paused", n |-> 0]
  BY Zenon DEF HandleState
<1>3. sig.kind = "step" => HandleState(sig) = [kind |-> "step", n |-> sig.n]
  BY Zenon DEF HandleState
<1>4. sig.kind \notin {"start", "stop", "step"} => HandleState(sig) = state
  BY Zenon DEF HandleState
<1> QED  BY <1>1, <1>2, <1>3, <1>4

(* Every request an API endpoint sends is a control signal. *)
LEMMA ApiSignals ==
  Api => \E sig \in Signals : Send(sig)
<1> SUFFICES ASSUME Api PROVE \E sig \in Signals : Send(sig)
  OBVIOUS
<1>1. CASE \E t \in Throttles : ApiStart(t)
  BY <1>1 DEF ApiStart, Signals
<1>2. CASE ApiStop
  BY <1>2 DEF ApiStop, Signals
<1>3. CASE \E c \in Counts : ApiStep(c)
  BY <1>3 DEF ApiStep, Signals
<1>4. CASE ApiSetArrival
  BY <1>4 DEF ApiSetArrival, Signals
<1>5. CASE \E lo, hi \in Values : ApiSetValue(lo, hi)
  BY <1>5 DEF ApiSetValue, Signals, ValueDists
<1>6. CASE \E t \in ApiTypes : ApiSetType(t)
  BY <1>6, TxGeneratorAssumption DEF TxGeneratorAssumption, ApiSetType,
     Signals, TxTypes
<1> QED  BY <1>1, <1>2, <1>3, <1>4, <1>5, <1>6 DEF Api

LEMMA InitTypeOK == Init => TypeOK
<1> SUFFICES ASSUME Init PROVE TypeOK
  OBVIOUS
<1>1. state \in States /\ valueDist \in ValueDists
  BY TxGeneratorAssumption DEF TxGeneratorAssumption, Init, States, ValueDists
<1>2. chan \in Seq(Signals) /\ Len(chan) <= MaxQueued
  BY TxGeneratorAssumption DEF TxGeneratorAssumption, Init
<1>3. alive \in BOOLEAN /\ stepping \in BOOLEAN
  BY Zenon DEF Init
<1>4. poolLen \in 0..(MaxTransactions + 1) /\ budget \in Counts \cup {0}
      /\ made \in 0..MadeBound /\ acked \in 0..AckBound /\ handled \in Nat
  BY TxGeneratorAssumption DEF TxGeneratorAssumption, Init
<1> QED
  BY <1>1, <1>2, <1>3, <1>4 DEF Init, TypeOK, TxTypes

(* One step of Next keeps every variable in its type. *)
LEMMA NextTypeOK == TypeOK /\ [Next]_vars => TypeOK'
<1> SUFFICES ASSUME TypeOK, [Next]_vars PROVE TypeOK'
  OBVIOUS
<1> USE TxGeneratorAssumption, WidthPositive DEF TxGeneratorAssumption
<1>1. ASSUME NEW sig \in Signals, Send(sig) PROVE TypeOK'
  BY <1>1 DEF Send, genVars, TypeOK
<1>2. ASSUME GenControl PROVE TypeOK'
  <2> DEFINE sig == Head(chan)
  <2>1. sig \in Signals /\ chan # <<>>
    BY <1>2 DEF GenControl, TypeOK
  <2>2. HandleState(sig) \in States
    <3>1. CASE sig.kind = "start"
      BY <2>1, <3>1, HandleStateCases DEF Signals, States
    <3>2. CASE sig.kind = "stop"
      BY <3>2, HandleStateCases DEF States
    <3>3. CASE sig.kind = "step"
      <4>1. sig.n \in 0..(2^Width - 1)
        BY <2>1, <3>3, CountsInRange DEF Signals
      <4> QED  BY <3>3, <4>1, HandleStateCases DEF States
    <3>4. CASE sig.kind \notin {"start", "stop", "step"}
      BY <3>4, HandleStateCases DEF TypeOK
    <3> QED
      BY <3>1, <3>2, <3>3, <3>4
  <2>3. /\ (IF sig.kind = "settype" THEN sig.n ELSE txType) \in TxTypes
        /\ (IF sig.kind = "setvalue" THEN sig.n ELSE valueDist) \in ValueDists
        /\ (IF sig.kind = "step" THEN sig.n ELSE budget) \in Counts \cup {0}
    BY <2>1 DEF Signals, TypeOK
  <2>4. /\ state' = HandleState(sig)
        /\ txType' = IF sig.kind = "settype" THEN sig.n ELSE txType
        /\ valueDist' = IF sig.kind = "setvalue" THEN sig.n ELSE valueDist
        /\ budget' = IF sig.kind = "step" THEN sig.n ELSE budget
        /\ made' \in 0..MadeBound
        /\ chan' = Tail(chan)
        /\ handled' = handled + 1
        /\ UNCHANGED <<phase, poolLen, acked>>
    BY <1>2 DEF GenControl, TypeOK
  <2>5. stepping' \in BOOLEAN /\ alive' \in BOOLEAN
    BY <1>2, Zenon DEF GenControl, TypeOK
  <2>6. Tail(chan) \in Seq(Signals) /\ Len(Tail(chan)) <= MaxQueued
    BY <2>1 DEF TypeOK
  <2> QED
    BY <2>2, <2>3, <2>4, <2>5, <2>6 DEF TypeOK
<1>3. ASSUME GenPoll \/ GenThrottled PROVE TypeOK'
  <2>1. alive' \in BOOLEAN /\ stepping' \in BOOLEAN
    BY <1>3, Zenon DEF GenPoll, GenThrottled, TypeOK
  <2> QED
    BY <1>3, <2>1 DEF GenPoll, GenThrottled, TypeOK
<1>4. ASSUME GenMake PROVE TypeOK'
  <2>1. Submitted \in 0..(MaxTransactions + 1)
    BY DEF Submitted, TypeOK
  <2>2. ASSUME state.kind = "step" PROVE AfterStep(state.n) \in States
    <3>1. state.n \in 0..(2^Width - 1)
      BY <2>2 DEF States, TypeOK
    <3>2. Decrement(state.n) \in 0..(2^Width - 1)
      BY <3>1 DEF Decrement
    <3> QED
      BY <3>2 DEF AfterStep, States
  <2>3. state' = state \/ (state.kind = "step" /\ state' = AfterStep(state.n))
    BY <1>4, Zenon DEF GenMake
  <2>4. /\ poolLen' \in {poolLen, Submitted}
        /\ made' \in {made, made + 1}
        /\ made < MadeBound
        /\ phase' = "poll"
        /\ UNCHANGED <<txType, valueDist, chan, stepping, budget, acked, handled>>
    BY <1>4, Zenon DEF GenMake
  <2>5. made' \in 0..MadeBound
    BY <2>4 DEF TypeOK
  <2>6. alive' \in BOOLEAN
    BY <1>4, Zenon DEF GenMake, TypeOK
  <2> QED
    BY <2>1, <2>2, <2>3, <2>4, <2>5, <2>6 DEF TypeOK
<1>5. ASSUME PoolDrain PROVE TypeOK'
  BY <1>5 DEF PoolDrain, genVars, TypeOK
<1>6. ASSUME UNCHANGED vars PROVE TypeOK'
  BY <1>6 DEF vars, TypeOK
<1> QED
  BY <1>1, <1>2, <1>3, <1>4, <1>5, <1>6, ApiSignals DEF Next, Generator

(* Every variable always holds a value of its type, in every build. *)
THEOREM TypeCorrect == Spec => []TypeOK
BY InitTypeOK, NextTypeOK, PTL DEF Spec

-----------------------------------------------------------------------------
(* From here on the API never sends step with a count of 0. *)

LEMMA InitIInv == Init => IInv
BY InitTypeOK DEF Init, IInv, StepBookkeeping

LEMMA NextIInv ==
  ASSUME 0 \notin Counts
  PROVE  IInv /\ [Next]_vars => IInv'
<1> SUFFICES ASSUME IInv, [Next]_vars PROVE IInv'
  OBVIOUS
<1> USE TxGeneratorAssumption, WidthPositive DEF TxGeneratorAssumption
<1>1. TypeOK'
  BY NextTypeOK DEF IInv
<1>2. ASSUME NEW sig \in Signals, Send(sig) PROVE StepBookkeeping'
  BY <1>2 DEF Send, genVars, IInv, StepBookkeeping
<1>3. ASSUME GenControl PROVE StepBookkeeping'
  <2> DEFINE sig == Head(chan)
  <2>1. sig \in Signals
    BY <1>3 DEF GenControl, IInv, TypeOK
  <2>2. CASE sig.kind = "step"
    <3>1. /\ state' = [kind |-> "step", n |-> sig.n]
          /\ budget' = sig.n
          /\ made' = 0
      BY <1>3, <2>2, HandleStateCases DEF GenControl
    <3>2. sig.n \in Counts
      BY <2>1, <2>2 DEF Signals
    <3>3. sig.n \in Nat \ {0}
      BY <3>2
    <3>4. sig.n \in 1..budget' /\ made' + sig.n = budget'
      BY <3>1, <3>3
    <3> QED
      BY <3>1, <3>4 DEF StepBookkeeping
  <2>3. CASE sig.kind \in {"start", "stop"}
    BY <1>3, <2>3 DEF GenControl, StepBookkeeping
  <2>4. CASE sig.kind \notin {"start", "stop", "step"}
    BY <1>3, <2>4, HandleStateCases DEF GenControl, StepBookkeeping, IInv
  <2> QED
    BY <2>2, <2>3, <2>4
<1>4. ASSUME GenPoll \/ GenThrottled PROVE StepBookkeeping'
  BY <1>4 DEF GenPoll, GenThrottled, IInv, StepBookkeeping
<1>5. ASSUME GenMake PROVE StepBookkeeping'
  <2> USE DEF IInv, TypeOK, StepBookkeeping
  <2>1. CASE ~SampleOK \/ txType = "unknown"
    BY <1>5, <2>1 DEF GenMake
  <2>2. CASE SampleOK /\ txType = "known" /\ state.kind = "continuous"
    BY <1>5, <2>2 DEF GenMake
  <2>3. CASE SampleOK /\ txType = "known" /\ state.kind = "step" /\ ~stepping
    BY <1>5, <2>3 DEF GenMake
  <2>4. CASE SampleOK /\ txType = "known" /\ state.kind = "step" /\ stepping
    <3>1. state.n \in 1..budget /\ made + state.n = budget /\ budget \in Nat
      BY <2>4
    <3>2. made' = made + 1 /\ state' = AfterStep(state.n)
      <4>1. state.n # 0
        BY <3>1
      <4> QED
        BY <1>5, <2>4, <4>1, Zenon DEF GenMake
    <3>3. CASE state.n = 1
      BY <2>4, <3>1, <3>2, <3>3, <1>5 DEF AfterStep, Decrement, GenMake
    <3>4. CASE state.n > 1
      BY <2>4, <3>1, <3>2, <3>4, <1>5 DEF AfterStep, Decrement, GenMake
    <3> QED
      BY <3>1, <3>3, <3>4
  <2> QED
    BY <1>5, <2>1, <2>2, <2>3, <2>4 DEF GenMake, TxTypes, States
<1>6. ASSUME PoolDrain PROVE StepBookkeeping'
  BY <1>6 DEF PoolDrain, genVars, IInv, StepBookkeeping
<1>7. ASSUME UNCHANGED vars PROVE StepBookkeeping'
  BY <1>7 DEF vars, IInv, StepBookkeeping
<1> QED
  BY <1>1, <1>2, <1>3, <1>4, <1>5, <1>6, <1>7, ApiSignals
  DEF Next, Generator, IInv

(* When no step request carries a count of 0, /transaction-generator/step *)
(* ?count=c makes at most c transactions before the next start, stop or    *)
(* step is handled, for every width of step_count, every queue bound and   *)
(* either build.                                                           *)
THEOREM StepBounded ==
  ASSUME 0 \notin Counts
  PROVE  Spec => []StepMakesAtMostCount
<1>1. IInv => StepMakesAtMostCount
  BY DEF IInv, StepBookkeeping, StepMakesAtMostCount
<1> QED
  BY InitIInv, NextIInv, <1>1, PTL DEF Spec


-----------------------------------------------------------------------------
(* From here on set-transaction-type only ever carries a type the match   *)
(* builds, and a debug build is never sent step with a count of 0.        *)

LEMMA InitNoPanic == Init => NoPanicInv
<1> SUFFICES ASSUME Init PROVE NoPanicInv
  OBVIOUS
<1>1. TypeOK
  BY InitTypeOK
<1>2. alive /\ txType = "known"
  BY Zenon DEF Init
<1> QED
  BY <1>1, <1>2 DEF Init, NoPanicInv

(* Appending a safe signal keeps every queued signal safe. *)
LEMMA SendNoPanic ==
  ASSUME NoPanicInv, NEW sig \in Signals, SafeSignal(sig), Send(sig)
  PROVE  NoPanicInv'
<1>1. TypeOK'
  BY TxGeneratorAssumption DEF TxGeneratorAssumption, Send, genVars, TypeOK,
     NoPanicInv
<1>2. /\ chan' = Append(chan, sig)
      /\ UNCHANGED <<alive, state, txType, valueDist>>
  BY DEF Send, genVars
<1>3. \A i \in 1..Len(chan') : SafeSignal(chan'[i])
  BY <1>2 DEF NoPanicInv, TypeOK
<1>4. alive'
  BY <1>2, Zenon DEF NoPanicInv
<1> QED
  BY <1>1, <1>2, <1>3, <1>4 DEF NoPanicInv

LEMMA NextNoPanic ==
  ASSUME ApiTypes = {"known"}, 0 \notin Counts \/ ~OverflowChecks
  PROVE  NoPanicInv /\ [Next]_vars => NoPanicInv'
<1> SUFFICES ASSUME NoPanicInv, [Next]_vars PROVE NoPanicInv'
  OBVIOUS
<1> USE TxGeneratorAssumption DEF TxGeneratorAssumption
<1>1. TypeOK'
  BY NextTypeOK DEF NoPanicInv
<1>2. ASSUME Api PROVE NoPanicInv'
  <2>1. CASE \E t \in Throttles : ApiStart(t)
    BY <2>1, SendNoPanic DEF ApiStart, Signals, SafeSignal
  <2>2. CASE ApiStop
    BY <2>2, SendNoPanic DEF ApiStop, Signals, SafeSignal
  <2>3. CASE \E c \in Counts : ApiStep(c)
    BY <2>3, SendNoPanic DEF ApiStep, Signals, SafeSignal
  <2>4. CASE ApiSetArrival
    BY <2>4, SendNoPanic DEF ApiSetArrival, Signals, SafeSignal
  <2>5. CASE \E lo, hi \in Values : ApiSetValue(lo, hi)
    BY <2>5, SendNoPanic DEF ApiSetValue, Signals, ValueDists, SafeSignal
  <2>6. CASE \E t \in ApiTypes : ApiSetType(t)
    BY <2>6, SendNoPanic DEF ApiSetType, Signals, TxTypes, SafeSignal
  <2> QED  BY <1>2, <2>1, <2>2, <2>3, <2>4, <2>5, <2>6 DEF Api
<1>3. ASSUME GenControl PROVE NoPanicInv'
  <2> DEFINE sig == Head(chan)
  <2>1. sig \in Signals /\ SafeSignal(sig) /\ chan # <<>>
    BY <1>3 DEF GenControl, NoPanicInv, TypeOK
  <2>2. /\ state' = HandleState(sig)
        /\ txType' = IF sig.kind = "settype" THEN sig.n ELSE txType
        /\ valueDist' = IF sig.kind = "setvalue" THEN sig.n ELSE valueDist
        /\ chan' = Tail(chan)
        /\ alive' = alive
    BY <1>3, Zenon DEF GenControl
  <2>3. txType' = "known" /\ valueDist'.min <= valueDist'.max
    BY <2>1, <2>2 DEF SafeSignal, NoPanicInv
  <2>4. \A i \in 1..Len(chan') : SafeSignal(chan'[i])
    BY <2>1, <2>2 DEF NoPanicInv, TypeOK
  <2>5. (state'.kind = "step" /\ OverflowChecks) => state'.n # 0
    <3>1. CASE sig.kind = "step"
      BY <2>1, <2>2, <3>1, HandleStateCases DEF Signals
    <3>2. CASE sig.kind \in {"start", "stop"}
      BY <2>2, <3>2, HandleStateCases
    <3>3. CASE sig.kind \notin {"start", "stop", "step"}
      BY <2>2, <3>3, HandleStateCases DEF NoPanicInv
    <3> QED  BY <3>1, <3>2, <3>3
  <2>6. alive'
    BY <2>2, Zenon DEF NoPanicInv
  <2> QED
    BY <1>1, <2>3, <2>4, <2>5, <2>6 DEF NoPanicInv
<1>4. ASSUME GenPoll \/ GenThrottled PROVE NoPanicInv'
  <2>1. UNCHANGED <<state, txType, valueDist, chan, alive>>
    BY <1>4 DEF GenPoll, GenThrottled
  <2>2. alive'
    BY <2>1, Zenon DEF NoPanicInv
  <2> QED
    BY <1>1, <2>1, <2>2 DEF NoPanicInv
<1>5. ASSUME GenMake PROVE NoPanicInv'
  <2>1. SampleOK
    <3>1. valueDist.min \in Nat /\ valueDist.max \in Nat
      BY DEF NoPanicInv, TypeOK, ValueDists
    <3>2. valueDist.min <= valueDist.max
      BY DEF NoPanicInv
    <3> QED  BY <3>1, <3>2 DEF SampleOK
  <2>2. ~(state.kind = "step" /\ state.n = 0 /\ OverflowChecks)
    BY DEF NoPanicInv
  <2>3. txType = "known" /\ alive
    BY Zenon DEF NoPanicInv
  <2>4. alive'
    BY <1>5, <2>1, <2>2, <2>3, Zenon DEF GenMake
  <2>5. state' = state \/ (state.kind = "step" /\ state' = AfterStep(state.n))
    BY <1>5, Zenon DEF GenMake
  <2>6. ASSUME NEW c PROVE AfterStep(c).kind = "step" => AfterStep(c).n # 0
    BY DEF AfterStep
  <2>7. UNCHANGED <<txType, valueDist, chan>>
    BY <1>5, Zenon DEF GenMake
  <2> QED
    BY <1>1, <2>4, <2>5, <2>6, <2>7 DEF NoPanicInv
<1>6. ASSUME PoolDrain \/ UNCHANGED vars PROVE NoPanicInv'
  <2>1. UNCHANGED <<state, txType, valueDist, chan, alive>>
    BY <1>6 DEF PoolDrain, genVars, vars
  <2>2. alive'
    BY <2>1, Zenon DEF NoPanicInv
  <2> QED
    BY <1>1, <2>1, <2>2 DEF NoPanicInv
<1> QED
  BY <1>2, <1>3, <1>4, <1>5, <1>6 DEF Next, Generator

(* When the operator only requests transaction types the generator's      *)
(* match builds, and a debug build is never sent step?count=0, no sequence *)
(* of control requests the API accepts kills the generator thread: the    *)
(* set-value-distribution check min <= max with the generator's min = max *)
(* branch keep gen_range from panicking, and the count-down never reaches  *)
(* the underflow.                                                         *)
THEOREM NeverPanics ==
  ASSUME ApiTypes = {"known"}, 0 \notin Counts \/ ~OverflowChecks
  PROVE  Spec => []GeneratorNeverPanics
<1>1. NoPanicInv => GeneratorNeverPanics
  BY DEF NoPanicInv, GeneratorNeverPanics
<1> QED
  BY InitNoPanic, NextNoPanic, <1>1, PTL DEF Spec

====
