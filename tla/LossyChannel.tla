---------------------------- MODULE LossyChannel ----------------------------
(***************************************************************************)
(* What a nostr client promises of the messages it accepts: the k-th one   *)
(* is handed over once, after those before it, or it is lost; once the     *)
(* client is shut nothing more is accepted, but what is queued may still   *)
(* go out.  PoolRound assumes this of every outbox.                        *)
(***************************************************************************)
EXTENDS Naturals, Sequences

VARIABLES
  state,  \* "new", "open" or "shut"
  sent,   \* how many messages were accepted; they are numbered from 1
  taken,  \* how many of them have left the queue
  out     \* the numbers of those handed over

channelVars == <<state, sent, taken, out>>

Init == state = "new" /\ sent = 0 /\ taken = 0 /\ out = << >>

Open == state = "new" /\ state' = "open" /\ UNCHANGED <<sent, taken, out>>

Shut == state' = "shut" /\ UNCHANGED <<sent, taken, out>>

Send == state = "open" /\ sent' = sent + 1 /\ UNCHANGED <<state, taken, out>>

Take == taken < sent /\ taken' = taken + 1 /\ UNCHANGED <<state, sent>>

Deliver == Take /\ out' = Append(out, taken + 1)

Lose == Take /\ out' = out

Next == Open \/ Shut \/ Send \/ Deliver \/ Lose

Spec == Init /\ [][Next]_channelVars

-----------------------------------------------------------------------------
\* Nothing is invented, duplicated or overtakes: the numbers handed over
\* increase and are among those taken from the queue (listen() reads one
\* channel and never puts a message back).
InOrder ==
  /\ taken <= sent
  /\ \A k \in DOMAIN out : out[k] <= taken
  /\ \A j, k \in DOMAIN out : j < k => out[j] < out[k]
=============================================================================
