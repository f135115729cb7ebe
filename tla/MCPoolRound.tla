---------------------------- MODULE MCPoolRound ----------------------------
(* Small pools: the initiator ini and the peers p1 and p2.  An output is   *)
(* worth 100, every part of a transaction weighs 2 and costs 2.            *)
EXTENDS PoolRound, TLC

CONSTANTS ini, p1, p2

\* Every node has an address of its own.
OwnAddr == [n \in Node |-> n]

\* A coin pays its share; one of several times the denomination could pay for
\* several outputs.
Coins == [n \in Node |-> 110]
RichCoins == [n \in Node |-> 250]

SignerOk == [n \in Node |-> "ok"]
\* The signer of p1 may fail.
SignerFaults == [n \in Node |-> IF n = p1 THEN "unreliable" ELSE "ok"]

Simple1 == [kind |-> "Simple", at |-> 1, max_duration |-> 0]
Fixed1  == [kind |-> "Fixed", at |-> 1, max_duration |-> 1]
\* Every node has a deadline of its own for the inputs.
Timeout1 == [kind |-> "Timeout", at |-> 1, max_duration |-> 1]

Joiners == Permutations(Node \ {ini})
=============================================================================
