---------------------------- MODULE MCPoolRestart --------------------------
(* Small pools: the initiator ini and the peers p1 and p2.  An output is   *)
(* worth 100, every part of a transaction weighs 2 and costs 2.            *)
EXTENDS PoolRestart

CONSTANTS ini, p1, p2

\* Every node has an address of its own.
OwnAddr == [n \in Node |-> n]

\* One coin could pay for several outputs.
RichCoins == [n \in Node |-> 250]

SignerOk == [n \in Node |-> "ok"]

Simple1 == [kind |-> "Simple", at |-> 1, max_duration |-> 0]

\* The initiator after it has registered its peers, p1 at any time.
OneProcess == [n \in Node |->
                 CASE n = ini -> {"Outputs", "SendInput", "Inputs"}
                   [] n = p1  -> {"Connecting", "Done"} \cup (InPool \ {"Posted"})
                   [] OTHER   -> {}]
=============================================================================
