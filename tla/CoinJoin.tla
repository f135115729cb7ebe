------------------------------ MODULE CoinJoin ------------------------------
(***************************************************************************)
(* The transaction aggregator `CoinJoin` (joinstr/src/coinjoin/mod.rs) as  *)
(* a state machine: its owner calls its public methods in any order while  *)
(* the chain its optional backend reads moves on between the calls.        *)
(***************************************************************************)
EXTENDS CoinJoinOps

CONSTANTS
  TrueValue,  \* the amount of every coin once its transaction is on the network
  Input,      \* the signed inputs peers submit: [coin, amount, over]
  MaxErrs     \* bound: failing answers in a row of the backend

ASSUME CoinJoinAssumption ==
  /\ Input \subseteq [coin : DOMAIN TrueValue, amount : SUBSET Nat, over : SUBSET Address]
  /\ \A c \in DOMAIN TrueValue : TrueValue[c] \in Nat
  /\ \A i \in Input : Cardinality(i.amount) <= 1
  /\ MaxErrs \in Nat

VARIABLES
  cj,       \* the CoinJoin struct
  attached, \* whether CoinJoin::client is Some
  used,     \* network: the addresses that appear in some transaction
  known,    \* network: the coins whose transaction the backend knows
  res       \* what the last call returned; FeeTooLow carries the fee and the weight

vars == <<cj, attached, used, known, res>>

Result(err) == [err |-> err, fee |-> 0, weight |-> 0]

Backend == [used |-> used, value |-> [c \in known |-> TrueValue[c]]]

Client == IF attached THEN {Backend} ELSE {}

Init ==
  /\ cj = NewCoinJoin
  /\ attached \in BOOLEAN
  /\ used = {}
  /\ known = {}
  /\ res = Result("ok")

-----------------------------------------------------------------------------
(* The methods.  A call that fails leaves the struct as it was.            *)

add_output(addr) ==
  /\ cj' = AddOutput(cj, addr)
  /\ res' = Result("ok")
  /\ UNCHANGED <<attached, used, known>>

\* Mutant: regenerates a template that exists.
GenerateAnyway(errs) ==
  /\ \E r \in GeneratePsbtResults([cj EXCEPT !.psbt = {}], Client, errs) :
        /\ cj' = IF r = "ok" THEN GeneratePsbt(cj) ELSE cj
        /\ res' = Result(r)
  /\ UNCHANGED <<attached, used, known>>

generate_psbt(errs) ==
  /\ \E r \in GeneratePsbtResults(cj, Client, errs) :
        /\ cj' = IF r = "ok" THEN GeneratePsbt(cj) ELSE cj
        /\ res' = Result(r)
  /\ UNCHANGED <<attached, used, known>>

add_input(input, errs) ==
  /\ LET r == AddInputResult(cj, Client, errs, input) IN
        /\ cj' = IF r = "ok" THEN AddInput(cj, input) ELSE cj
        /\ res' = Result(r)
  /\ UNCHANGED <<attached, used, known>>

\* Mutant: sums the declared amounts although a backend is attached.
GenerateTxOnDeclared(errs) ==
  /\ LET r == GenerateTxResult(cj, {}, errs) IN
        /\ cj' = IF r = "ok" THEN GenerateTx(cj) ELSE cj
        /\ res' = Result(r)
  /\ UNCHANGED <<attached, used, known>>

generate_tx(errs) ==
  /\ LET r == GenerateTxResult(cj, Client, errs) IN
        /\ cj' = IF r = "ok" THEN GenerateTx(cj) ELSE cj
        /\ res' = IF r = "FeeTooLow"
                  THEN LET template == CHOOSE t \in cj.psbt : TRUE IN
                       [err |-> r, fee |-> InAmount(cj, Client) - OutAmount(template),
                        weight |-> Weight(cj, template)]
                  ELSE Result(r)
  /\ UNCHANGED <<attached, used, known>>

\* generate_tx(dry_run = true) hands out the aggregate and stores nothing.
generate_tx_dry_run ==
  /\ res' = Result(IF IsSome(cj.psbt) THEN "ok" ELSE "InitPsbtNotCreated")
  /\ UNCHANGED <<cj, attached, used, known>>

\* set_client replaces no client that is already there.
set_client ==
  /\ ~attached
  /\ attached' = TRUE
  /\ res' = Result("ok")
  /\ UNCHANGED <<cj, used, known>>

drop_client ==
  /\ attached' = FALSE
  /\ res' = Result("ok")
  /\ UNCHANGED <<cj, used, known>>

(* The network: a transaction pays an address, the transaction that        *)
(* creates a coin is published.                                            *)
AddressPaid(addr) ==
  /\ used' = used \cup {addr}
  /\ UNCHANGED <<cj, attached, known, res>>

CoinPublished(c) ==
  /\ known' = known \cup {c}
  /\ UNCHANGED <<cj, attached, used, res>>

Next ==
  \/ \E a \in Address : add_output(a)
  \/ \E e \in 0..MaxErrs : generate_psbt(e)
  \/ \E i \in Input, e \in 0..MaxErrs : add_input(i, e)
  \/ \E e \in 0..MaxErrs : generate_tx(e)
  \/ generate_tx_dry_run
  \/ set_client
  \/ drop_client
  \/ \E a \in Address : AddressPaid(a)
  \/ \E c \in DOMAIN TrueValue : CoinPublished(c)

Spec == Init /\ [][Next]_vars

-----------------------------------------------------------------------------
(* Properties                                                              *)

Tx == [outs : SUBSET Address, ins : SUBSET Input]

Errors == {"ok", "NotEnoughPeers", "InitPsbtExists", "AddressReuse", "Backend", "DoubleSpend",
           "InputDoesNotExists", "InputValueNotMatch", "TxAlreadyFinalyzed",
           "InitPsbtNotCreated", "FailVerifyAmount", "AmountMissing", "InputAmountTooLow",
           "FeeTooLow"}

Outcome == [err : Errors, fee : Int, weight : Nat]

\* The struct, the network and the last result stay in their types, and the
\* final transaction spends only inputs that were registered (add_input may
\* still register more after generate_tx).
TypeOK ==
  /\ cj \in [outputs : SUBSET Address, psbt : SUBSET SUBSET Address,
             inputs : SUBSET Input, tx : SUBSET Tx]
  /\ Cardinality(cj.psbt) <= 1 /\ Cardinality(cj.tx) <= 1
  /\ \A t \in cj.tx : t.ins \subseteq cj.inputs /\ t.outs \in cj.psbt
  /\ attached \in BOOLEAN
  /\ used \subseteq Address
  /\ known \subseteq DOMAIN TrueValue
  /\ res \in Outcome

\* A final transaction hides every peer among at least MinPeer equal outputs and
\* spends no coin twice, whatever amounts the submissions of a coin declare,
\* in whatever order outputs, inputs and the template were made and whenever
\* the backend came or went (generate_psbt checks the former, add_input the
\* latter, generate_tx neither).
FinalTxWellFormed ==
  \A t \in cj.tx :
     /\ Cardinality(t.outs) >= MinPeer
     /\ \A i, j \in t.ins : i.coin = j.coin => i = j

\* A transaction finalised while a backend is attached really pays the
\* feerate: the amounts on chain, not the declared ones, cover the outputs and
\* the fee, also when inputs were registered before the backend was attached.
FinalTxPaysFee ==
  [][ \A t \in cj'.tx : cj.tx = {} /\ attached =>
        /\ \A i \in t.ins : i.coin \in known
        /\ LET value(i) == TrueValue[i.coin]
               in == MapThenSumSet(value, t.ins)
           IN in - OutAmount(t.outs) >= FeeRate * Weight(cj, t.outs) ]_vars

\* Peers sign a template: once generate_psbt made it, and once generate_tx made
\* the final transaction, no later call replaces either of them.
NeverReplaced ==
  [][ /\ IsSome(cj.psbt) => cj'.psbt = cj.psbt
      /\ IsSome(cj.tx) => cj'.tx = cj.tx ]_vars

\* The field `fee` is documented as a feerate in sats/vb: a transaction that
\* pays `fee` sats for each virtual byte (four weight units) is not refused.
FeeRateIsPerVbyte ==
  res.err = "FeeTooLow" => 4 * res.fee < FeeRate * res.weight
=============================================================================
