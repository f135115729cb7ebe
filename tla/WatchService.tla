---------------------------- MODULE WatchService ----------------------------
(***************************************************************************)
(* What the electrum listener promises its consumer: it is told statuses   *)
(* of watched scripts only, true ones, and never an older one after a      *)
(* newer one; and every history it asked for at most once.                 *)
(***************************************************************************)
EXTENDS Naturals, Sequences

CONSTANT Spk

VARIABLES
  version,   \* the status of each script, as a number that grows
  watched,   \* the scripts the consumer subscribed to
  status,    \* the last status the consumer was told of each script; 0 for none
  queried,   \* the histories asked for, as <<request, script>>
  histories  \* those handed over, in order

watchVars == <<version, watched, status, queried, histories>>

Init ==
  /\ version = [s \in Spk |-> 1]
  /\ watched = {} /\ status = [s \in Spk |-> 0]
  /\ queried = {} /\ histories = << >>

Change(s) ==
  /\ version' = [version EXCEPT ![s] = @ + 1]
  /\ UNCHANGED <<watched, status, queried, histories>>

Ask ==
  /\ watched \subseteq watched' /\ watched' \subseteq Spk
  /\ queried \subseteq queried'
  /\ UNCHANGED <<version, status, histories>>

\* One response to the consumer: statuses, or histories that were not yet given.
Tell ==
  /\ status' \in [Spk -> Nat]
  /\ \A s \in Spk : status'[s] # status[s] =>
       s \in watched /\ status[s] < status'[s] /\ status'[s] <= version[s]
  /\ UNCHANGED <<version, watched, queried, histories>>

Give ==
  /\ Len(histories') >= Len(histories)
  /\ \A k \in DOMAIN histories : histories'[k] = histories[k]
  /\ \A k \in DOMAIN histories' : histories'[k] \in queried
  /\ \A j, k \in DOMAIN histories' : j # k => histories'[j] # histories'[k]
  /\ UNCHANGED <<version, watched, status, queried>>

Next == (\E s \in Spk : Change(s)) \/ Ask \/ Tell \/ Give

Spec == Init /\ [][Next]_watchVars
=============================================================================
