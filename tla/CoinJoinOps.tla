---------------------------- MODULE CoinJoinOps ----------------------------
(***************************************************************************)
(* The data of `CoinJoin` (joinstr/src/coinjoin/mod.rs) and its methods as *)
(* operators: each one takes the struct and returns either the updated     *)
(* struct or the result the method reports.  CoinJoin.tla runs them as a   *)
(* state machine of their own, PoolRound.tla inside the protocol.          *)
(*                                                                         *)
(* An Option is a set of at most one element.  `outputs` is a Vec that     *)
(* add_output keeps free of duplicates and generate_psbt sorts, `inputs` a *)
(* Vec that generate_tx sorts: both are sets here.  A signed input commits *)
(* to all the outputs and to no other input (SIGHASH_ALL|ANYONECANPAY), so *)
(* its signature is the set `over` of output addresses it was made for.    *)
(***************************************************************************)
EXTENDS Integers, FiniteSets, FiniteSetsExt

CONSTANTS
  Address,       \* output addresses
  Denomination,  \* value of every output, in sats
  MinPeer,       \* CoinJoin::min_peer, the pool's payload.peers
  FeeRate,       \* CoinJoin::fee
  BaseWeight, InputWeight, OutputWeight  \* weight units of a transaction's parts

ASSUME OpsAssumption ==
  /\ IsFiniteSet(Address)
  /\ MinPeer \in Nat \ {0}
  /\ Denomination \in Nat
  /\ FeeRate \in Nat
  /\ BaseWeight \in Nat /\ InputWeight \in Nat /\ OutputWeight \in Nat

BACKEND_RETRY == 3

NewCoinJoin == [outputs |-> {}, psbt |-> {}, inputs |-> {}, tx |-> {}]

IsSome(option) == option # {}

AddOutput(cj, addr) == [cj EXCEPT !.outputs = @ \cup {addr}]

-----------------------------------------------------------------------------
(* A backend is [used: the addresses with a history, value: the amount of  *)
(* each outpoint whose transaction is known].  `errs` is how many requests *)
(* of the call it fails to answer.  A retry loop gives up when it has      *)
(* already retried more than BACKEND_RETRY times.                          *)

RetriesExhausted(client, errs) == IsSome(client) /\ errs > BACKEND_RETRY + 1

\* The addresses are checked in the arbitrary order of a HashSet, so a reused
\* address and an exhausted backend may each be met first.
GeneratePsbtResults(cj, client, errs) ==
  LET reused == \E b \in client : cj.outputs \cap b.used # {}
      down   == RetriesExhausted(client, errs) /\ IsSome(cj.outputs)
  IN IF Cardinality(cj.outputs) < MinPeer THEN {"NotEnoughPeers"}
     ELSE IF IsSome(cj.psbt) THEN {"InitPsbtExists"}
     ELSE IF reused \/ down
          THEN {r \in {"AddressReuse", "Backend"} : (r = "AddressReuse" /\ reused) \/ (r = "Backend" /\ down)}
     ELSE {"ok"}

GeneratePsbt(cj) == [cj EXCEPT !.psbt = {cj.outputs}]

\* Mutant: refuses only a submission that is identical to an earlier one.
AddInputResultByInput(cj, client, errs, input) ==
  IF input \in cj.inputs THEN "DoubleSpend"
  ELSE IF RetriesExhausted(client, errs) THEN "Backend"
  ELSE IF \E b \in client : input.coin \notin DOMAIN b.value THEN "InputDoesNotExists"
  ELSE IF \E b \in client : \E a \in input.amount : a # b.value[input.coin] THEN "InputValueNotMatch"
  ELSE "ok"

AddInputResult(cj, client, errs, input) ==
  IF \E i \in cj.inputs : i.coin = input.coin THEN "DoubleSpend"
  ELSE IF RetriesExhausted(client, errs) THEN "Backend"
  ELSE IF \E b \in client : input.coin \notin DOMAIN b.value THEN "InputDoesNotExists"
  ELSE IF \E b \in client : \E a \in input.amount : a # b.value[input.coin] THEN "InputValueNotMatch"
  ELSE "ok"

AddInput(cj, input) == [cj EXCEPT !.inputs = @ \cup {input}]

Weight(cj, template) ==
  BaseWeight + InputWeight * Cardinality(cj.inputs) + OutputWeight * Cardinality(template)

OutAmount(template) == Denomination * Cardinality(template)

\* With a backend the amount of every input is read again from the chain, without
\* one the amount its owner declared is taken.
InAmount(cj, client) ==
  LET amount(i) == IF IsSome(client) THEN (CHOOSE b \in client : TRUE).value[i.coin]
                   ELSE CHOOSE a \in i.amount : TRUE
  IN MapThenSumSet(amount, cj.inputs)

\* Whether a transaction of this fee and weight is below the requested feerate.
FeeTooLow(fee, weight) == fee < FeeRate * weight

GenerateTxResult(cj, client, errs) ==
  IF IsSome(cj.tx) THEN "TxAlreadyFinalyzed"
  ELSE IF ~IsSome(cj.psbt) THEN "InitPsbtNotCreated"
  ELSE IF \E b \in client : \E i \in cj.inputs : errs > 0 \/ i.coin \notin DOMAIN b.value
       THEN "FailVerifyAmount"
  ELSE IF ~IsSome(client) /\ \E i \in cj.inputs : ~IsSome(i.amount) THEN "AmountMissing"
  ELSE LET template == CHOOSE t \in cj.psbt : TRUE
           in  == InAmount(cj, client)
           out == OutAmount(template)
       IN IF in <= out THEN "InputAmountTooLow"
          ELSE IF FeeTooLow(in - out, Weight(cj, template)) THEN "FeeTooLow"
          ELSE "ok"

\* Mutant: aggregates over the outputs registered by now, not over the template.
AggregateCurrent(cj) == [outs |-> cj.outputs, ins |-> cj.inputs]

\* The aggregate of the template and of every signed input.
Aggregate(cj) == [outs |-> CHOOSE t \in cj.psbt : TRUE, ins |-> cj.inputs]

GenerateTx(cj) == [cj EXCEPT !.tx = {Aggregate(cj)}]
=============================================================================
