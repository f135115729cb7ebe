----------------------------- MODULE PoolRestart -----------------------------
(***************************************************************************)
(* A round in which a participant's process ends and starts again          *)
(* (joinstr/src/joinstr/mod.rs: State, state, restart).                    *)
(*                                                                         *)
(* The application may take the state of a node that has a pool and keep   *)
(* it; when the process ends everything else it held is gone, the messages *)
(* that its clients had queued included.  restart builds an instance from  *)
(* what was kept: it counts the messages it drains from its new client     *)
(* into the histories, and then runs register_outputs again from nothing.  *)
(***************************************************************************)
EXTENDS PoolRound

CONSTANT SavedIn  \* bound: per node, the phases in which its state may be taken

ASSUME RestartAssumption ==
  /\ SavedIn \in [Node -> SUBSET ({"Connecting", "Done"} \cup InPool)]
  /\ Initiator \in Node => "Connecting" \notin SavedIn[Initiator]

VARIABLES
  saved,     \* per node: the State the application kept, an Option
  carried,   \* per node: the length of JoinstrInner.peers when the round began
  restarted  \* the nodes that were restarted

restartVars == <<saved, carried, restarted>>
allVars == <<vars, restartVars>>

RestartInit ==
  /\ Init
  /\ saved = [n \in Node |-> {}]
  /\ carried = [n \in Node |-> 0]
  /\ restarted = {}

-----------------------------------------------------------------------------
(* The state and the end of a process                                      *)

\* The key of the client, the coin and the histories; a peer that waits for the
\* pool's key still has a key of its own.  The template is not part of it.
State(n) ==
  [key     |-> pc[n] # "Connecting",
   input   |-> n \in input,
   peers   |-> carried[n] + Cardinality(peers[n]),
   outputs |-> pushed[n].outputs,
   inputs  |-> pushed[n].inputs,
   final   |-> pc[n] = "Done"]

\* A state is taken at any moment at which the mutex is free and there is a pool.
\* Bound: one state of one node, and one restart.
SaveState(n) ==
  /\ pc[n] \in SavedIn[n]
  /\ restarted = {} /\ \A m \in Node : saved[m] = {}
  /\ saved' = [saved EXCEPT ![n] = {State(n)}]
  /\ UNCHANGED <<vars, carried, restarted>>

\* The clients a node owns: its own and, as the initiator, the throw-away one.
Owned(n) == {n} \cup (IF n = Initiator THEN {Dummy} ELSE {})

\* The process ends, with whatever its clients had not written yet.
Crash(n) ==
  /\ saved[n] # {} /\ pc[n] \notin {"Failed", "Panicked", "Down"}
  /\ pc' = [pc EXCEPT ![n] = "Down"]
  /\ outbox' = [c \in Conn |-> IF c \in Owned(n) THEN << >> ELSE outbox[c]]
  /\ unread' = [unread EXCEPT ![n] = {}]
  /\ late' = late \ {n}
  /\ UNCHANGED <<clock, relayVars, link, error, nodeVars, chain, restartVars>>

-----------------------------------------------------------------------------
(* restart                                                                 *)

\* What `while let Ok(Some(msg)) = try_receive_pool_msg()` drains: some first
\* part of what the relay sends to a client with the key the state holds.
Drainable(s) ==
  IF ~s.key THEN {{}}
  ELSE IF Ordered THEN {1..k : k \in 0..Len(log)} ELSE SUBSET DOMAIN log

Of(D, type) == {k \in D : log[k].type = type}

\* The histories with what was drained added, whether known already or not.
Totals(s, D) ==
  [peers   |-> s.peers + Cardinality(Of(D, "Join")),
   outputs |-> s.outputs + Cardinality({k \in Of(D, "Output") : log[k].addr \notin ForeignNet}),
   inputs  |-> s.inputs + Cardinality(Of(D, "Input"))]

\* Mutant: more peers than the pool is for are no corruption.
CorruptedButPeers(t) ==
  \/ t.outputs > t.peers
  \/ t.inputs > t.outputs
  \/ t.inputs > t.peers

Corrupted(t) ==
  \/ t.peers > MinPeer
  \/ t.outputs > t.peers
  \/ t.inputs > t.outputs
  \/ t.inputs > t.peers

\* Mutant: when the totals say that the outputs are complete, makes the template
\* of those drained and goes on to the inputs.
RestartOnDrained(n) ==
  /\ pc[n] = "Down"
  /\ \E s \in saved[n] : \E D \in Drainable(s) :
       LET outs   == {log[k].addr : k \in Of(D, "Output")}
           enough == Totals(s, D).outputs >= MinPeer IN
       /\ unread' = [unread EXCEPT ![n] = IF s.key THEN DOMAIN log \ D ELSE {}]
       /\ input' = IF s.input THEN input \cup {n} ELSE input \ {n}
       /\ cj' = [cj EXCEPT ![n] = IF enough THEN [NewCoinJoin EXCEPT !.outputs = outs, !.psbt = {outs}]
                                  ELSE NewCoinJoin]
       /\ Goto(n, IF enough THEN "SendInput" ELSE "Peers")
  /\ link' = [link EXCEPT ![n] = "up"]
  /\ peers' = [peers EXCEPT ![n] = {}]
  /\ restarted' = restarted \cup {n}
  /\ saved' = [saved EXCEPT ![n] = {}]
  /\ UNCHANGED <<clock, relayVars, outbox, late, pushed, inEnd, chain, carried>>

\* Where restart leads: an error; nothing left to do; the transaction of a
\* coinjoin that does not exist; or register_outputs, for which the initiator
\* sends another dummy Join and a peer without the pool's key waits in vain.  The
\* instance has a connection of its own; without one it stays Down.
Restart(n) ==
  /\ pc[n] = "Down"
  /\ \E s \in saved[n] : \E D \in Drainable(s) :
       LET t == Totals(s, D) IN
       /\ unread' = [unread EXCEPT ![n] = IF s.key THEN DOMAIN log \ D ELSE {}]
       /\ input' = IF s.input THEN input \cup {n} ELSE input \ {n}
       /\ carried' = [carried EXCEPT ![n] = t.peers]
       /\ pushed' = [pushed EXCEPT ![n] = [outputs |-> t.outputs, inputs |-> t.inputs]]
       /\ IF s.inputs > 0 THEN Fail(n, "InputParsing")
          ELSE IF s.final THEN Goto(n, "Done")
          ELSE IF Corrupted(t) THEN Fail(n, "PoolCorrupted")
          ELSE IF t.peers < MinPeer \/ t.outputs < MinPeer
          THEN Goto(n, IF n = Initiator THEN "Posted" ELSE IF s.key THEN "Peers" ELSE "Outside")
          ELSE IF t.inputs < MinPeer THEN Fail(n, "CoinjoinMissing")
          ELSE Goto(n, "Done")
  /\ link' = [link EXCEPT ![n] = "up"]
  /\ peers' = [peers EXCEPT ![n] = {}]
  /\ cj' = [cj EXCEPT ![n] = NewCoinJoin]
  /\ restarted' = restarted \cup {n}
  /\ saved' = [saved EXCEPT ![n] = {}]
  /\ UNCHANGED <<clock, relayVars, outbox, late, inEnd, chain>>

\* register_outputs, restarted initiator: a new client sends a dummy Join that
\* counts as one more peer wherever peers are still registered.
SendSpare(d) ==
  /\ pc[Initiator] = "Posted" /\ Initiator \in restarted
  /\ IF link[d] = "up"
     THEN outbox' = [outbox EXCEPT ![d] = Append(@, Join(d))] /\ Goto(Initiator, "Peers")
     ELSE UNCHANGED outbox /\ Fail(Initiator, "Nostr")
  /\ UNCHANGED <<clock, relayVars, link, unread, late, nodeVars, chain, restartVars>>

\* The peer without the pool's key registers nobody, then publishes its address.
LeaveOutside(n) ==
  /\ pc[n] = "Outside"
  /\ After(n, StartAt)
  /\ Goto(n, "SendOutput")
  /\ UNCHANGED <<clock, relayVars, outbox, link, unread, late, nodeVars, chain, restartVars>>

-----------------------------------------------------------------------------
\* Bound: the deadline only passes for a peer that waits outside.
RoundNext ==
  \/ Post
  \/ Initiator \notin restarted /\ SendDummy
  \/ \E n \in Node : Step(n)
  \/ \E c \in Conn : Transmit(c) \/ LinkDies(c) \/ ListenStops(c)
  \/ (\E n \in Node : pc[n] = "Outside") /\ Tick

RestartNext ==
  \/ RoundNext /\ UNCHANGED restartVars
  \/ \E n \in Node : SaveState(n) \/ Crash(n) \/ Restart(n) \/ LeaveOutside(n)
  \/ \E d \in Spare : SendSpare(d)

RestartSpec == RestartInit /\ [][RestartNext]_allVars

-----------------------------------------------------------------------------
(* Properties                                                              *)

SavedState == [key : BOOLEAN, input : BOOLEAN, peers : Nat, outputs : Nat, inputs : Nat,
               final : BOOLEAN]

\* The types of the variables, those of the round included; that a state is used
\* once; and that an instance which goes on, restarted or not, has no more peers
\* in its history than the pool is for.
RestartTypeOK ==
  /\ DataOK
  /\ pc \in [Node -> {"Configured", "Connecting", "Down", "Outside"} \cup InPool \cup Ended]
  /\ error \in [Node -> SUBSET (Errors \cup {"InputParsing", "PoolCorrupted", "CoinjoinMissing"})]
  /\ saved \in [Node -> SUBSET SavedState]
  /\ carried \in [Node -> Nat]
  /\ restarted \subseteq Node
  /\ \A n \in Node : IF n \in restarted THEN saved[n] = {} ELSE carried[n] = 0
  /\ \A n \in Node : pc[n] \notin {"Failed", "Done"} => carried[n] <= MinPeer

\* The part of the round's invariant that a restart keeps: every signature, held
\* or on its way, pays its signer, and a coin comes back only to a node that had
\* one.
PaysMessage(m) == m.type = "Input" => PaysOwner(m.input)

OwnersInv ==
  /\ input \subseteq WithInput
  /\ \A n \in Node : \A s \in saved[n] : s.input => n \in WithInput
  /\ \A c \in Conn : \A k \in DOMAIN outbox[c] : PaysMessage(outbox[c][k])
  /\ \A k \in DOMAIN log : PaysMessage(log[k])
  /\ \A n \in Node : OwnInv(n)

\* The nodes that were sent the pool's key, and the one that made it; no restart
\* takes it from them.
KeyHolders == {Initiator} \cup (mail \cap Node)

\* Where a node is, and what it has, only with the pool's key: a restarted node
\* without it gets to its output, which it publishes, but counts nobody.
ActsWithKey(n) ==
  \/ pc[n] \in {"Posted", "Peers"} \/ (n \notin restarted /\ pc[n] \in InPool \cup {"Done"})
  \/ peers[n] # {} \/ cj[n].psbt # {}

\* One process ends at most, and who acts with the pool's key was sent it.
KeysInv ==
  /\ \A m, n \in restarted \cup {p \in Node : saved[p] # {}} : m = n
  /\ \A n \in Node : \A s \in saved[n] : s.key => n \in KeyHolders
  /\ \A n \in Node : ActsWithKey(n) => n \in KeyHolders
  /\ \A n \in Node : pc[n] = "Outside" => n \in restarted

\* The messages in the clients' channels and those the relay has.
Queued == UNION {{outbox[c][k] : k \in DOMAIN outbox[c]} : c \in Conn}
Stored == {log[k] : k \in DOMAIN log}

\* The addresses that may be in the pool, and what a message may say of them.
PoolAddrs == {AddrOf[n] : n \in (KeyHolders \cup restarted) \cap WithOutput}

OfThePool(m) ==
  /\ m.type = "Output" => m.addr \in PoolAddrs
  /\ m.type = "Input" => /\ m.input.coin \in KeyHolders
                         /\ m.input.amount = {CoinValue[m.input.coin]}
                         /\ m.input.over \subseteq PoolAddrs
                         /\ Cardinality(m.input.over) >= MinPeer

\* A node has registered what was stored and its own address, and has a template
\* of MinPeer of these at least.
Registered(n) ==
  /\ cj[n].outputs \subseteq PoolAddrs
  /\ cj[n].outputs \subseteq RegisteredBefore(NextEntry) \cup {AddrOf[p] : p \in {n} \cap WithOutput}
  /\ \A t \in cj[n].psbt : t \subseteq cj[n].outputs /\ Cardinality(t) >= MinPeer

AddressesInv ==
  /\ \A m \in Queued \cup Stored : OfThePool(m)
  /\ \A n \in Node : Registered(n)

\* A node whose process did not end has signed its coin once, and has it no more.
OnceInv ==
  \A n \in Node \ restarted :
    \A x, y \in {m \in Queued \cup Stored : m.type = "Input" /\ m.input.coin = n} :
      x = y /\ n \notin input

\* The first clients to join, as many as the pool is for.
FirstJoined ==
  {log[k].npub : k \in {j \in Of(DOMAIN log, "Join") : Cardinality(JoinedBefore(j)) < MinPeer}}

\* The initiator gives the pool's key to the first who join.
FirstServed ==
  /\ Cardinality(FirstJoined) <= MinPeer
  /\ mail \subseteq FirstJoined /\ peers[Initiator] \subseteq FirstJoined
  /\ \A m \in Queued : m.type = "Credentials" => m.to \in FirstJoined

\* The dummy is one of them: nobody joins before it.
DummyFirst ==
  /\ \A m \in Queued : m.type = "Join" /\ m.npub \in Node => Dummy \in JoinedBefore(NextEntry)
  /\ \A k \in DOMAIN log : log[k].type = "Join" /\ log[k].npub \in Node => Dummy \in JoinedBefore(k)

\* Of the entries the initiator has read or lost, the Joins are of `counted`; or
\* it counts nobody any more.
HasCounted(counted) ==
  \/ clock >= StartAt /\ Initiator \notin late
  \/ \A j \in DOMAIN log : Passed(Initiator, j) /\ log[j].type = "Join" => log[j].npub \in counted

\* A restarted initiator counts its peers again from the first Join on, or not at
\* all: the state of one that has counted them leads to PoolCorrupted unless its
\* new client is sent all Joins after restart has drained it.
CountsAgain ==
  /\ pc[Initiator] # "Connecting"
  /\ pc[Initiator] \in {"Configured", "Posted"} => HasCounted({})
  /\ pc[Initiator] = "Peers" => HasCounted(peers[Initiator])
  /\ pc[Initiator] = "Down" => Initiator \notin late
  /\ Initiator \notin restarted /\ pc[Initiator] \in {"Done"} \cup (InPool \ {"Posted", "Peers"}) =>
       PeersOver(peers[Initiator])
  /\ \A s \in saved[Initiator] : s.key /\ (s.peers >= MinPeer \/ clock >= StartAt)

\* Where no state of the initiator is taken it never forgets whom it counted.
RememberedInv ==
  /\ saved[Initiator] = {} /\ mail \subseteq peers[Initiator]
  /\ \A m \in Queued : m.type = "Credentials" => m.to \in peers[Initiator]

\* Whatever node is restarted with whatever it forgets, the pool's addresses and
\* the signatures for them stay those of the nodes that the initiator let in.
ReplayInv == KeysInv /\ AddressesInv /\ OnceInv /\ FirstServed /\ DummyFirst /\ CountsAgain

\* The addresses in the pool of nodes that were never sent the pool's key.
Uninvited == {log[k].addr : k \in Of(DOMAIN log, "Output")} \ {AddrOf[n] : n \in KeyHolders \cap WithOutput}

\* A restarted node that registers again builds no template of its own: the nodes
\* agree as in a round nobody leaves.  Not so when a peer that was not sent the
\* pool's key yet comes back: it publishes its address in a pool that has no
\* place for it.  Nor when the initiator's state is taken while it still counts
\* its peers, or a peer may join before the dummy: the restarted initiator then
\* counts, and lets in, more than it had.
InvitedAgree == Uninvited = {} => Agreement

Signatures == {log[k].input : k \in {x \in DOMAIN log : log[x].type = "Input"}}

\* All signatures of a coin that were published are made for the same
\* transaction, even if the process ended between signing and taking note of it
\* and the node runs the registration and signs again (register_input takes the
\* coin out of JoinstrInner.input, restart puts it back).  That is so because the
\* pool has no place for anyone else: an initiator whose state was taken while it
\* still counted its peers may let in others, and a coin is then signed twice.
OneSignature ==
  ~Overbooked => \A i, j \in Signatures : i.coin = j.coin => i = j
=============================================================================
