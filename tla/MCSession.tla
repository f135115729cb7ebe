----------------------------- MODULE MCSession -----------------------------
(* One instance, up to two calls of start_coinjoin and two relays.         *)
EXTENDS Session

\* Who joins is sent the pool's key, who lists a pool and something else.
Sent == [f \in Function |->
           CASE f = "peer" -> <<"Credentials">>
             [] f = "list_pools" -> <<"Pool", "Other">>
             [] f = "joinstr" -> << >>
             [] OTHER -> <<"Pool">>]

\* Two stand for denomination, fee, simple_timeout and min_peers.
TwoParams == <<"denomination", "peers">>
=============================================================================
