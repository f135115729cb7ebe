----------------------------- MODULE PoolRound -----------------------------
(***************************************************************************)
(* One coinjoin round: the `Joinstr` state machine of every participant    *)
(* (joinstr/src/joinstr/mod.rs, start_coinjoin_blocking and what it calls) *)
(* over the nostr clients' channels and the relay that connect them.       *)
(*                                                                         *)
(* Every participant runs one thread over its own JoinstrInner.  It talks  *)
(* to the relay through a WsClient: messages it sends are queued in a      *)
(* channel (outbox) that a listen thread writes to the websocket.  The     *)
(* relay stores the encrypted DMs addressed to the pool key in a log and   *)
(* hands every one to every client that holds the pool key, the sender     *)
(* included; a client that subscribes late gets all that is stored.        *)
(*                                                                         *)
(* A node's coin and its npub are identified with the node.  `cj` is the   *)
(* local `coinjoin` of register_outputs and, later, JoinstrInner.coinjoin. *)
(***************************************************************************)
EXTENDS CoinJoinOps, Sequences

CONSTANTS
  Node,        \* the participants
  Initiator,   \* the one that posts the pool; the others join it
  Dummy,       \* the throw-away client of the initiator's dummy Join
  Spare,       \* the ones of dummy Joins sent after a restart (PoolRestart)
  WithInput,   \* the nodes that hold a coin (JoinstrInner.input)
  WithOutput,  \* the nodes that hold an address (JoinstrInner.output)
  AddrOf,      \* the address of each node
  ForeignNet,  \* addresses that are not valid for the pool's network
  CoinValue,   \* the amount of each node's coin
  Signer,      \* each node's signer: "ok", "unreliable" or "missing"
  Backend,     \* the nodes with an electrum client
  Timeline,    \* payload.timeout: [kind, at, max_duration]
  MaxTimestamp,\* u64::MAX
  MaxClock,    \* bound: where the clock stops
  Ordered,     \* whether the relay delivers the DMs in the order it stored them
  EagerJoin,   \* whether a peer may join before the dummy Join is stored
  Faulty       \* the clients whose connection, single writes or backend may fail

Conn == Node \cup {Dummy} \cup Spare

ASSUME RoundAssumption ==
  /\ IsFiniteSet(Node) /\ Initiator \in Node /\ Dummy \notin Node
  /\ Spare \cap (Node \cup {Dummy}) = {}
  /\ WithOutput \subseteq Node
  /\ WithInput \subseteq WithOutput
  /\ AddrOf \in [Node -> Address]
  /\ ForeignNet \subseteq Address
  /\ CoinValue \in [Node -> Nat]
  /\ Signer \in [Node -> {"ok", "unreliable", "missing"}]
  /\ Backend \subseteq Node
  /\ Timeline \in [kind : {"Simple", "Fixed", "Timeout"}, at : Nat, max_duration : Nat]
  /\ MaxTimestamp \in Nat
  /\ MaxClock \in Nat
  /\ Ordered \in BOOLEAN /\ EagerJoin \in BOOLEAN
  /\ Faulty \subseteq Conn

VARIABLES
  clock,   \* now(), in seconds
  posted,  \* relay: whether the pool event is published
  log,     \* relay: the DMs addressed to the pool key, as stored
  mail,    \* relay: the npubs that Credentials were sent to
  outbox,  \* per client: the channel to its listen thread
  link,    \* per client: "up"; "dead", writes are lost; "closed", sends fail
  unread,  \* per node: the entries of the log it is still to receive
  pc,      \* per node: where its thread is
  late,    \* nodes in a loop body that they entered before the deadline passed
  error,   \* per node: JoinstrInner.error, an Option
  peers,   \* per node: the npubs of the Join messages it has counted
  cj,      \* per node: the CoinJoin
  input,   \* the nodes whose JoinstrInner.input is still Some
  pushed,  \* per node: the lengths of JoinstrInner.outputs and .inputs
  inEnd,   \* per node: the deadline of register_inputs
  chain    \* the transactions the bitcoin network accepted

relayVars == <<posted, log, mail>>
nodeVars  == <<peers, cj, input, pushed, inEnd>>
vars == <<clock, posted, log, mail, outbox, link, unread, pc, late, error,
          peers, cj, input, pushed, inEnd, chain>>

Ended  == {"Done", "Failed", "Panicked"}
\* Where a node's client holds the pool key.
InPool == {"Posted", "Peers", "SendOutput", "Outputs", "SendInput", "Inputs", "Broadcast"}

-----------------------------------------------------------------------------
(* Messages                                                                *)

PoolEvent       == [type |-> "Pool"]
Credentials(c)  == [type |-> "Credentials", to |-> c]
Join(c)         == [type |-> "Join", npub |-> c]
Output(a)       == [type |-> "Output", addr |-> a]
Input(i)        == [type |-> "Input", input |-> i]

-----------------------------------------------------------------------------
(* The timeline of the pool                                                *)

\* start_timeline: when the registration of peers ends at the latest, and
\* whether it ends as soon as enough peers have joined.
StartAt    == Timeline.at
StartEarly == Timeline.kind # "Fixed"

\* end_timeline: when the registration of outputs ends.
EndAt == IF Timeline.kind = "Simple" THEN Timeline.at ELSE Timeline.at + Timeline.max_duration
TimelineOverflows == EndAt > MaxTimestamp

\* The deadline register_inputs computes when it starts.
InputsEnd == IF Timeline.kind = "Timeout" THEN clock + Timeline.max_duration ELSE EndAt

-----------------------------------------------------------------------------
(* Steps shared by the handlers                                            *)

Fail(n, e) == /\ pc' = [pc EXCEPT ![n] = "Failed"]
              /\ error' = [error EXCEPT ![n] = {e}]

Goto(n, where) == pc' = [pc EXCEPT ![n] = where] /\ UNCHANGED error

CanSend(c) == link[c] # "closed"

\* Queue m for the listen thread and go on at `where`; a closed client fails.
SendThenGoto(n, m, where) ==
  IF CanSend(n)
  THEN outbox' = [outbox EXCEPT ![n] = Append(@, m)] /\ Goto(n, where)
  ELSE UNCHANGED outbox /\ Fail(n, "Nostr")

\* The messages try_receive_pool_msg may return next.
Deliverable(n) ==
  IF Ordered THEN {k \in unread[n] : \A j \in unread[n] : k <= j} ELSE unread[n]

Consume(n, k) == /\ unread' = [unread EXCEPT ![n] = @ \ {k}]
                 /\ late' = late \ {n}

\* A loop `while now() < deadline` runs its body before the deadline, or after
\* it when the condition was evaluated in time.
Before(n, deadline) == clock < deadline \/ n \in late
After(n, deadline)  == clock >= deadline /\ n \notin late

\* Mutant: counts the node itself twice, as if its own Join were still to come.
OneSeatLess(n) == StartEarly /\ Cardinality(peers[n]) + 1 >= MinPeer

EnoughPeers(n) == StartEarly /\ Cardinality(peers[n]) >= MinPeer
\* Mutant: waits for one output more than there are peers.
OneOutputMore(n) == Cardinality(cj[n].outputs) > Cardinality(peers[n])

EnoughOutputs(n) == Cardinality(cj[n].outputs) >= Cardinality(peers[n])
Finalized(n)     == IsSome(cj[n].tx)

\* The deadline of the loop a node runs, while the loop's other condition asks
\* for one more iteration; no deadline elsewhere.
LoopDeadline(n) ==
  CASE pc[n] = "Connecting"                      -> {StartAt}
    [] pc[n] = "Peers" /\ ~EnoughPeers(n)        -> {StartAt}
    [] pc[n] = "Outputs" /\ ~EnoughOutputs(n)    -> {EndAt}
    [] pc[n] = "Inputs" /\ ~Finalized(n)         -> {inEnd[n]}
    [] OTHER                                     -> {}

-----------------------------------------------------------------------------
Init ==
  /\ clock = 0
  /\ posted = FALSE
  /\ log = << >>
  /\ mail = {}
  /\ outbox = [c \in Conn |-> << >>]
  /\ link = [c \in Conn |-> "up"]
  /\ unread = [n \in Node |-> {}]
  /\ pc = [n \in Node |-> "Configured"]
  /\ late = {}
  /\ error = [n \in Node |-> {}]
  /\ peers = [n \in Node |-> {}]
  /\ cj = [n \in Node |-> NewCoinJoin]
  /\ input = WithInput
  /\ pushed = [n \in Node |-> [outputs |-> 0, inputs |-> 0]]
  /\ inEnd = [n \in Node |-> 0]
  /\ chain = {}

-----------------------------------------------------------------------------
(* Starting: the initiator posts the pool, the others join it              *)

\* start_coinjoin_blocking without a pool: JoinstrInner::post.
Post ==
  /\ pc[Initiator] = "Configured"
  /\ SendThenGoto(Initiator, PoolEvent, "Posted")
  /\ UNCHANGED <<clock, relayVars, link, unread, late, nodeVars, chain>>

\* register_outputs, initiator only: a client of its own sends the dummy Join.
\* Its channel is drained before the Stop that dropping it sends.
SendDummy ==
  /\ pc[Initiator] = "Posted"
  /\ IF link[Dummy] = "up"
     THEN outbox' = [outbox EXCEPT ![Dummy] = Append(@, Join(Dummy))] /\ Goto(Initiator, "Peers")
     ELSE UNCHANGED outbox /\ Fail(Initiator, "Nostr")
  /\ UNCHANGED <<clock, relayVars, link, unread, late, nodeVars, chain>>

DummyStored == \E k \in DOMAIN log : log[k] = Join(Dummy)

\* join_pool up to its loop, for a peer that has seen the pool.
JoinPool(n) ==
  /\ n # Initiator
  /\ pc[n] = "Configured"
  /\ posted
  /\ EagerJoin \/ DummyStored
  /\ SendThenGoto(n, Join(n), "Connecting")
  /\ UNCHANGED <<clock, relayVars, link, unread, late, nodeVars, chain>>

\* The pool's key arrives: a new client subscribes with it and is sent
\* everything that the relay has stored.
ReceiveCredentials(n) ==
  /\ pc[n] = "Connecting"
  /\ Before(n, StartAt)
  /\ n \in mail
  /\ link[n] = "up"
  /\ unread' = [unread EXCEPT ![n] = DOMAIN log]
  /\ late' = late \ {n}
  /\ Goto(n, "Peers")
  /\ UNCHANGED <<clock, relayVars, outbox, link, nodeVars, chain>>

\* The Close of the connection, or the connection of the new client, is an
\* error that leaves join_pool.
AbortJoin(n) ==
  /\ pc[n] = "Connecting"
  /\ Before(n, StartAt)
  /\ link[n] = "closed" \/ (n \in Faulty /\ n \in mail)
  /\ late' = late \ {n}
  /\ Fail(n, "Nostr")
  /\ UNCHANGED <<clock, relayVars, outbox, link, unread, nodeVars, chain>>

JoinTimeout(n) ==
  /\ pc[n] = "Connecting"
  /\ After(n, StartAt)
  /\ Fail(n, "PoolConnectionTimeout")
  /\ UNCHANGED <<clock, relayVars, outbox, link, unread, late, nodeVars, chain>>

-----------------------------------------------------------------------------
(* register_outputs: the peers                                             *)

InPeers(n, k) ==
  /\ pc[n] = "Peers"
  /\ Before(n, StartAt)
  /\ ~EnoughPeers(n)
  /\ k \in Deliverable(n)
  /\ Consume(n, k)

\* Mutant: the initiator answers a Join without counting it.
AnswerUncounted(n, k) ==
  /\ InPeers(n, k)
  /\ log[k].type = "Join"
  /\ LET npub == log[k].npub IN
     IF n = Initiator
     THEN SendThenGoto(n, Credentials(npub), "Peers") /\ UNCHANGED peers
     ELSE peers' = [peers EXCEPT ![n] = @ \cup {npub}] /\ UNCHANGED <<outbox, pc, error>>
  /\ UNCHANGED <<clock, relayVars, link, cj, input, pushed, inEnd, chain>>

\* A Join is counted once per npub; the initiator first answers it with the
\* pool's key.
RegisterPeer(n, k) ==
  /\ InPeers(n, k)
  /\ log[k].type = "Join"
  /\ LET npub == log[k].npub
         new  == npub \notin peers[n] IN
     /\ IF new /\ n = Initiator
        THEN SendThenGoto(n, Credentials(npub), "Peers")
        ELSE UNCHANGED <<outbox, pc, error>>
     /\ peers' = IF new /\ (n = Initiator => CanSend(n))
                 THEN [peers EXCEPT ![n] = @ \cup {npub}] ELSE peers
  /\ UNCHANGED <<clock, relayVars, link, cj, input, pushed, inEnd, chain>>

\* Any other message is dropped, an Output that arrives early included.
DropInPeers(n, k) ==
  /\ InPeers(n, k)
  /\ log[k].type # "Join"
  /\ UNCHANGED <<clock, relayVars, outbox, link, pc, error, nodeVars, chain>>

LeavePeers(n) ==
  /\ pc[n] = "Peers"
  /\ After(n, StartAt) \/ EnoughPeers(n)
  /\ Goto(n, "SendOutput")
  /\ UNCHANGED <<clock, relayVars, outbox, link, unread, late, nodeVars, chain>>

-----------------------------------------------------------------------------
(* register_outputs: the outputs                                           *)

\* Mutant: leaves it to the echo of its message to add the own address.
RegisterOutputByEcho(n) ==
  /\ pc[n] = "SendOutput"
  /\ IF n \in WithOutput
     THEN SendThenGoto(n, Output(AddrOf[n]), "Outputs")
     ELSE Goto(n, "Outputs") /\ UNCHANGED outbox
  /\ UNCHANGED <<clock, relayVars, link, unread, late, nodeVars, chain>>

\* After a random delay the node publishes its own address, if it has one, and
\* computes the next deadline, which may overflow.
RegisterOutput(n) ==
  /\ pc[n] = "SendOutput"
  /\ IF n \in WithOutput
     THEN /\ cj' = [cj EXCEPT ![n] = AddOutput(@, AddrOf[n])]
          /\ IF CanSend(n)
             THEN /\ outbox' = [outbox EXCEPT ![n] = Append(@, Output(AddrOf[n]))]
                  /\ pushed' = [pushed EXCEPT ![n].outputs = @ + 1]
                  /\ IF TimelineOverflows THEN Fail(n, "TimelineDuration") ELSE Goto(n, "Outputs")
             ELSE UNCHANGED <<outbox, pushed>> /\ Fail(n, "Nostr")
     ELSE /\ IF TimelineOverflows THEN Fail(n, "TimelineDuration") ELSE Goto(n, "Outputs")
          /\ UNCHANGED <<outbox, cj, pushed>>
  /\ UNCHANGED <<clock, relayVars, link, unread, late, peers, input, inEnd, chain>>

InOutputs(n, k) ==
  /\ pc[n] = "Outputs"
  /\ Before(n, EndAt)
  /\ ~EnoughOutputs(n)
  /\ k \in Deliverable(n)
  /\ Consume(n, k)

\* receive_outputs adds an address of the pool's network; JoinstrInner.outputs
\* gets it in any case.
ReceiveOutput(n, k) ==
  /\ InOutputs(n, k)
  /\ log[k].type = "Output"
  /\ cj' = IF log[k].addr \in ForeignNet THEN cj
           ELSE [cj EXCEPT ![n] = AddOutput(@, log[k].addr)]
  /\ pushed' = [pushed EXCEPT ![n].outputs = @ + 1]
  /\ UNCHANGED <<clock, relayVars, outbox, link, pc, error, peers, input, inEnd, chain>>

\* A signed input at this stage is `todo!("store input")`: the thread panics and
\* leaves its mutex poisoned.
ReceiveEarlyInput(n, k) ==
  /\ InOutputs(n, k)
  /\ log[k].type = "Input"
  /\ Goto(n, "Panicked")
  /\ UNCHANGED <<clock, relayVars, outbox, link, nodeVars, chain>>

DropInOutputs(n, k) ==
  /\ InOutputs(n, k)
  /\ log[k].type = "Join"
  /\ UNCHANGED <<clock, relayVars, outbox, link, pc, error, nodeVars, chain>>

\* The verdict on the registration, and the template made from it.
OutputsVerdict(n) ==
  IF clock > EndAt THEN {"Timeout"}
  ELSE IF Cardinality(peers[n]) < MinPeer THEN {"NotEnoughPeers"}
  ELSE IF Cardinality(cj[n].outputs) # Cardinality(peers[n]) THEN {"PeerCountNotMatch"}
  ELSE GeneratePsbtResults(cj[n], {}, 0)

LeaveOutputs(n) ==
  /\ pc[n] = "Outputs"
  /\ After(n, EndAt) \/ EnoughOutputs(n)
  /\ \E r \in OutputsVerdict(n) :
        IF r = "ok"
        THEN cj' = [cj EXCEPT ![n] = GeneratePsbt(@)] /\ Goto(n, "SendInput")
        ELSE UNCHANGED cj /\ Fail(n, r)
  /\ UNCHANGED <<clock, relayVars, outbox, link, unread, late, peers, input, pushed, inEnd, chain>>

-----------------------------------------------------------------------------
(* The inputs                                                              *)

Template(n) == CHOOSE t \in cj[n].psbt : TRUE

\* Mutant: commits to the own output only (SIGHASH_SINGLE).
SignedSingle(n) == [coin |-> n, amount |-> {CoinValue[n]}, over |-> {AddrOf[n]}]

\* The node's coin, signed for the outputs of its template.
SignedInput(n) == [coin |-> n, amount |-> {CoinValue[n]}, over |-> Template(n)]

\* After a random delay the coin is signed and published.  It is taken out of
\* JoinstrInner.input before the signer is asked.
RegisterInput(n) ==
  /\ pc[n] = "SendInput"
  /\ inEnd' = [inEnd EXCEPT ![n] = InputsEnd]
  /\ IF n \notin input
     THEN Goto(n, "Inputs") /\ UNCHANGED <<outbox, input, pushed>>
     ELSE IF Signer[n] = "missing"
     THEN Fail(n, "SignerMissing") /\ UNCHANGED <<outbox, input, pushed>>
     ELSE /\ input' = input \ {n}
          /\ \/ Signer[n] = "unreliable" /\ Fail(n, "SigningFail") /\ UNCHANGED <<outbox, pushed>>
             \/ /\ SendThenGoto(n, Input(SignedInput(n)), "Inputs")
                /\ pushed' = IF CanSend(n) THEN [pushed EXCEPT ![n].inputs = @ + 1] ELSE pushed
  /\ UNCHANGED <<clock, relayVars, link, unread, late, peers, cj, chain>>

InInputs(n, k) ==
  /\ pc[n] = "Inputs"
  /\ Before(n, inEnd[n])
  /\ ~Finalized(n)
  /\ k \in Deliverable(n)
  /\ Consume(n, k)

\* Mutant: finalises as soon as the inputs that were signed for the template pay
\* for it.
FinalizeWhenPaid(c) ==
  LET signed == [c EXCEPT !.inputs = {i \in c.inputs : i.over \in c.psbt}] IN
  IF GenerateTxResult(signed, {}, 0) = "ok" THEN [c EXCEPT !.tx = {Aggregate(signed)}] ELSE c

\* try_finalize_coinjoin
TryFinalize(c) ==
  IF Cardinality(c.inputs) >= Cardinality(c.outputs) /\ GenerateTxResult(c, {}, 0) = "ok"
  THEN GenerateTx(c) ELSE c

\* try_register_input, which only logs a refusal, then try_finalize_coinjoin.
ReceiveInput(n, k) ==
  /\ InInputs(n, k)
  /\ log[k].type = "Input"
  /\ LET i  == log[k].input
         ok == AddInputResult(cj[n], {}, 0, i) = "ok" IN
     /\ cj' = [cj EXCEPT ![n] = TryFinalize(IF ok THEN AddInput(@, i) ELSE @)]
     /\ pushed' = IF ok THEN [pushed EXCEPT ![n].inputs = @ + 1] ELSE pushed
  /\ UNCHANGED <<clock, relayVars, outbox, link, pc, error, peers, input, inEnd, chain>>

DropInInputs(n, k) ==
  /\ InInputs(n, k)
  /\ log[k].type # "Input"
  /\ UNCHANGED <<clock, relayVars, outbox, link, pc, error, nodeVars, chain>>

\* Mutant: waits for the final transaction whatever the time is.
WaitForInputs(n) ==
  /\ pc[n] = "Inputs"
  /\ Finalized(n)
  /\ Goto(n, "Broadcast")
  /\ UNCHANGED <<clock, relayVars, outbox, link, unread, late, nodeVars, chain>>

\* Mutant: notes the timeout and broadcasts a transaction it has all the same.
BroadcastLate(n) ==
  /\ pc[n] = "Inputs"
  /\ After(n, inEnd[n]) \/ Finalized(n)
  /\ IF clock > inEnd[n] /\ ~Finalized(n) THEN Fail(n, "Timeout")
     ELSE /\ pc' = [pc EXCEPT ![n] = "Broadcast"]
          /\ error' = [error EXCEPT ![n] = IF clock > inEnd[n] THEN {"Timeout"} ELSE @]
  /\ UNCHANGED <<clock, relayVars, outbox, link, unread, late, nodeVars, chain>>

LeaveInputs(n) ==
  /\ pc[n] = "Inputs"
  /\ After(n, inEnd[n]) \/ Finalized(n)
  /\ IF clock > inEnd[n] THEN Fail(n, "Timeout") ELSE Goto(n, "Broadcast")
  /\ UNCHANGED <<clock, relayVars, outbox, link, unread, late, nodeVars, chain>>

-----------------------------------------------------------------------------
(* broadcast_tx                                                            *)

\* What the bitcoin network accepts: every signature was made for these
\* outputs, the inputs pay for them and no input is already spent.
Valid(tx) ==
  LET value(i) == CoinValue[i.coin] IN
  /\ \A i \in tx.ins : i.over = tx.outs
  /\ MapThenSumSet(value, tx.ins) >= OutAmount(tx.outs)
  /\ \A t \in chain : t # tx => \A i \in tx.ins : \A j \in t.ins : i.coin # j.coin

FinalTx(n) == CHOOSE t \in cj[n].tx : TRUE

\* Without a final transaction or with a transaction the server refuses (one it
\* already has may be refused too) the node fails; without a backend nothing is
\* sent.
BroadcastFails(n) ==
  /\ pc[n] = "Broadcast"
  /\ \/ ~Finalized(n) /\ Fail(n, "MissingFinalTx")
     \/ /\ Finalized(n) /\ n \in Backend
        /\ ~Valid(FinalTx(n)) \/ FinalTx(n) \in chain \/ n \in Faulty
        /\ Fail(n, "Electrum")
  /\ UNCHANGED <<clock, relayVars, outbox, link, unread, late, nodeVars, chain>>

BroadcastTx(n) ==
  /\ pc[n] = "Broadcast"
  /\ Finalized(n)
  /\ n \in Backend => Valid(FinalTx(n))
  /\ chain' = IF n \in Backend THEN chain \cup {FinalTx(n)} ELSE chain
  /\ \/ Goto(n, "Done")
     \/ n \in Backend \cap Faulty /\ Fail(n, "Electrum")   \* accepted, the answer is lost
  /\ UNCHANGED <<clock, relayVars, outbox, link, unread, late, nodeVars>>

-----------------------------------------------------------------------------
(* The environment: listen threads, the relay, connections and time        *)

Subscribed(n) == link[n] = "up" /\ (n = Initiator \/ pc[n] \in InPool) /\ pc[n] \notin Ended

\* What the relay does with a message m.
Stores(m) ==
  IF m.type = "Pool" THEN posted' = TRUE /\ UNCHANGED <<log, mail, unread>>
  ELSE IF m.type = "Credentials"
  THEN mail' = mail \cup {m.to} /\ UNCHANGED <<posted, log, unread>>
  ELSE /\ log' = Append(log, m)
       /\ unread' = [n \in Node |->
                       IF Subscribed(n) THEN unread[n] \cup {Len(log) + 1} ELSE unread[n]]
       /\ UNCHANGED <<posted, mail>>

\* The listen thread takes the head of the channel and writes it to the
\* websocket.  A write that fails, on a dead socket or because it would block, is
\* logged and the message gone; the next one may succeed.
Transmit(c) ==
  /\ outbox[c] # << >>
  /\ link[c] # "closed"
  /\ outbox' = [outbox EXCEPT ![c] = Tail(@)]
  /\ \/ link[c] = "up" /\ Stores(Head(outbox[c]))
     \/ (link[c] = "dead" \/ c \in Faulty) /\ UNCHANGED <<relayVars, unread>>
  /\ UNCHANGED <<clock, link, pc, late, error, nodeVars, chain>>

\* The socket dies silently.  Of the messages not read yet, some have arrived.
LinkDies(c) ==
  /\ c \in Faulty
  /\ link[c] = "up"
  /\ link' = [link EXCEPT ![c] = "dead"]
  /\ IF c \in Node
     THEN \E kept \in SUBSET unread[c] :
            /\ Ordered => \A i \in kept, j \in unread[c] \ kept : i < j
            /\ unread' = [unread EXCEPT ![c] = kept]
     ELSE UNCHANGED unread
  /\ UNCHANGED <<clock, relayVars, outbox, pc, late, error, nodeVars, chain>>

\* Without a pong for three intervals the listen thread hands over a Close and
\* returns.
ListenStops(c) ==
  /\ link[c] = "dead"
  /\ link' = [link EXCEPT ![c] = "closed"]
  /\ UNCHANGED <<clock, relayVars, outbox, unread, pc, late, error, nodeVars, chain>>

\* A second passes.  Any node may have checked its loop's deadline before it
\* and be still to run the body.
Tick ==
  /\ clock < MaxClock
  /\ clock' = clock + 1
  /\ \E caught \in SUBSET {n \in Node : \E d \in LoopDeadline(n) : clock < d /\ d <= clock + 1} :
        late' = late \cup caught
  /\ UNCHANGED <<relayVars, outbox, link, unread, pc, error, nodeVars, chain>>

\* The body finds the channel empty.
EmptyPoll(n) ==
  /\ n \in late
  /\ late' = late \ {n}
  /\ UNCHANGED <<clock, relayVars, outbox, link, unread, pc, error, nodeVars, chain>>

-----------------------------------------------------------------------------
Receive(n) == \E k \in unread[n] :
  \/ RegisterPeer(n, k)
  \/ DropInPeers(n, k)
  \/ ReceiveOutput(n, k)
  \/ ReceiveEarlyInput(n, k)
  \/ DropInOutputs(n, k)
  \/ ReceiveInput(n, k)
  \/ DropInInputs(n, k)

\* A step of the node's own thread.
Step(n) ==
  \/ JoinPool(n)
  \/ ReceiveCredentials(n)
  \/ AbortJoin(n)
  \/ JoinTimeout(n)
  \/ Receive(n)
  \/ EmptyPoll(n)
  \/ LeavePeers(n)
  \/ RegisterOutput(n)
  \/ LeaveOutputs(n)
  \/ RegisterInput(n)
  \/ LeaveInputs(n)
  \/ BroadcastFails(n)
  \/ BroadcastTx(n)

Next ==
  \/ Post
  \/ SendDummy
  \/ \E n \in Node : Step(n)
  \/ \E c \in Conn : Transmit(c) \/ LinkDies(c) \/ ListenStops(c)
  \/ Tick

Spec == Init /\ [][Next]_vars

\* Every started thread and every listen thread keeps running (they poll with a
\* backoff), the relay delivers what it stores, and time passes.
Fairness ==
  /\ WF_vars(Post) /\ WF_vars(SendDummy) /\ WF_vars(Tick)
  /\ \A n \in Node : WF_vars(Step(n))
  /\ \A c \in Conn : WF_vars(Transmit(c))

FairSpec == Spec /\ Fairness

-----------------------------------------------------------------------------
(* Types                                                                   *)

Signed == [coin : Node, amount : SUBSET Nat, over : SUBSET Address]

Dm == [type : {"Join"}, npub : Conn]
        \cup [type : {"Output"}, addr : Address]
        \cup [type : {"Input"}, input : Signed]

Msg == Dm \cup [type : {"Pool"}] \cup [type : {"Credentials"}, to : Conn]

CJ == [outputs : SUBSET Address, psbt : SUBSET SUBSET Address, inputs : SUBSET Signed,
       tx : SUBSET [outs : SUBSET Address, ins : SUBSET Signed]]

Errors == {"Nostr", "PoolConnectionTimeout", "TimelineDuration", "Timeout", "NotEnoughPeers",
           "PeerCountNotMatch", "InitPsbtExists", "AddressReuse", "Backend",
           "SignerMissing", "SigningFail", "MissingFinalTx", "Electrum"}

\* The types of what the nodes, the relay and the network hold; what is still to
\* be read is in the relay's log.
DataOK ==
  /\ clock \in Nat
  /\ posted \in BOOLEAN
  /\ log \in Seq(Dm)
  /\ mail \subseteq Conn
  /\ outbox \in [Conn -> Seq(Msg)]
  /\ link \in [Conn -> {"up", "dead", "closed"}]
  /\ unread \in [Node -> SUBSET Nat]
  /\ \A n \in Node : unread[n] \subseteq DOMAIN log
  /\ late \subseteq Node
  /\ peers \in [Node -> SUBSET Conn]
  /\ cj \in [Node -> CJ]
  /\ input \subseteq Node
  /\ pushed \in [Node -> [outputs : Nat, inputs : Nat]]
  /\ inEnd \in [Node -> Nat]
  /\ chain \subseteq [outs : SUBSET Address, ins : SUBSET Signed]

\* Those of all variables: with where the threads are and how they end, and that
\* the status of a node shows an error exactly when it has failed.
TypeOK ==
  /\ DataOK
  /\ pc \in [Node -> {"Configured", "Connecting"} \cup InPool \cup Ended]
  /\ error \in [Node -> SUBSET Errors]
  /\ \A n \in Node : error[n] # {} <=> pc[n] = "Failed"

-----------------------------------------------------------------------------
(* The parts of the inductive invariant                                    *)

\* The nodes that may register an output: the initiator and those it sent the
\* pool's key to.
Seats == ({Initiator} \cup (peers[Initiator] \cap Node)) \cap WithOutput

SeatAddrs == {AddrOf[n] : n \in Seats}

\* The signature of i was made for a transaction that pays the owner of its coin.
PaysOwner(i) == AddrOf[i.coin] \in i.over

\* A message is proper when it gives the pool's key to a peer the initiator has
\* counted, registers the address of a seat, or carries a signature that pays
\* its signer.
Proper(m) ==
  /\ m.type = "Credentials" => m.to \in peers[Initiator]
  /\ m.type = "Output" => m.addr \in SeatAddrs
  /\ m.type = "Input" => PaysOwner(m.input)

\* All messages, in a channel or stored by the relay, are proper.
MessagesInv ==
  /\ mail \subseteq peers[Initiator]
  /\ \A c \in Conn : \A k \in DOMAIN outbox[c] : Proper(outbox[c][k])
  /\ \A k \in DOMAIN log : Proper(log[k])

\* A node has its own address in the template it makes and signs, and holds
\* signatures that pay their signers.
OwnInv(n) ==
  /\ n \in WithOutput /\ pc[n] \in {"Outputs", "SendInput"} => AddrOf[n] \in cj[n].outputs
  /\ n \in WithOutput /\ pc[n] = "SendInput" => cj[n].psbt = {cj[n].outputs}
  /\ \A i \in cj[n].inputs : PaysOwner(i)
  /\ \A t \in cj[n].tx : \A i \in t.ins : PaysOwner(i)

NodeInv(n) ==
  /\ pc[n] \in InPool => n = Initiator \/ n \in peers[Initiator]
  /\ cj[n].outputs \subseteq SeatAddrs
  /\ \A t \in cj[n].psbt : t \subseteq cj[n].outputs /\ Cardinality(t) >= MinPeer
  /\ OwnInv(n)

\* Only the initiator and the peers it counted act in the pool; they register
\* addresses of seats only, make templates no smaller than the pool, have their
\* own address in the template they sign, and hold signatures that pay their
\* signers.
NodesInv ==
  /\ input \subseteq WithInput
  /\ \A n \in Node : NodeInv(n)

\* A seat's coin, signed for a template: at least MinPeer addresses of seats.
SeatSignature(i) ==
  /\ i.coin \in Seats /\ i.amount = {CoinValue[i.coin]}
  /\ i.over \subseteq SeatAddrs /\ Cardinality(i.over) >= MinPeer

OncePerCoin(ins) == \A i, j \in ins : i.coin = j.coin => i = j

\* An aggregate of a template and of one signature of a seat for each output or more.
FullTx(t) ==
  /\ t.outs \subseteq SeatAddrs /\ Cardinality(t.outs) >= MinPeer
  /\ Cardinality(t.ins) >= Cardinality(t.outs)
  /\ OncePerCoin(t.ins) /\ \A i \in t.ins : SeatSignature(i)

SpendDistinctCoins(t, u) == \A i \in t.ins, j \in u.ins : i.coin # j.coin

\* What a message, and a node's CoinJoin, may hold of signatures.
SignedMessage(m) == m.type = "Input" => SeatSignature(m.input)

SignedCoinJoin(c) ==
  /\ OncePerCoin(c.inputs) /\ \A i \in c.inputs : SeatSignature(i)
  /\ \A t \in c.tx : FullTx(t)

\* The network accepts no coin twice.
SpentOnce == \A t, u \in chain : FullTx(t) /\ (t # u => SpendDistinctCoins(t, u))

\* A pool that starts when it is full counts no more peers than it is for.
CountBounded ==
  /\ IsFiniteSet(peers[Initiator])
  /\ StartEarly => Cardinality(peers[Initiator]) <= MinPeer

\* Every signature, wherever it is, is one by a seat for a template; a node
\* holds one of each coin, and finalises a transaction with a signature for each
\* of its outputs at least.
SignaturesInv ==
  /\ \A c \in Conn : \A k \in DOMAIN outbox[c] : SignedMessage(outbox[c][k])
  /\ \A k \in DOMAIN log : SignedMessage(log[k])
  /\ \A n \in Node : SignedCoinJoin(cj[n])
  /\ SpentOnce
  /\ CountBounded

\* What the relay stores from now on comes behind all it has stored.
NextEntry == Len(log) + 1

\* The own address of a node whose Output may be lost though its connection lives.
MayLack(c) == {AddrOf[n] : n \in {c} \cap Node \cap Faulty}

\* What was stored before entry k, and queued by client c before its k-th message.
RegisteredBefore(k) ==
  {a \in Address : \E j \in DOMAIN log : j < k /\ log[j].type = "Output" /\ log[j].addr = a}
JoinedBefore(k) ==
  {c \in Conn : \E j \in DOMAIN log : j < k /\ log[j].type = "Join" /\ log[j].npub = c}
QueuedBefore(c, k) ==
  {a \in Address : \E j \in DOMAIN outbox[c] :
     j < k /\ outbox[c][j].type = "Output" /\ outbox[c][j].addr = a}

\* The addresses that will be stored before the k-th message of c is.
SentBefore(c, k) ==
  RegisteredBefore(NextEntry) \cup (IF c \in Faulty THEN {} ELSE QueuedBefore(c, k))

PeersOver(joined) == Cardinality(joined) >= MinPeer \/ clock >= StartAt

\* A signature comes behind the outputs it signs, an output behind the Joins
\* that ended the registration of peers, or the deadline did.  Only the signer's
\* own Output may be missing, lost by a write that failed.
Caused(m, outputs, joined) ==
  /\ m.type = "Input" => m.input.over \subseteq outputs \cup MayLack(m.input.coin)
  /\ m.type = "Output" => PeersOver(joined)

\* Messages are stored in an order in which each can be understood, but for a
\* signature whose own Output was lost; a node knows of no more than what was
\* stored and what it sends itself.
OrderInv ==
  /\ \A k \in DOMAIN log : Caused(log[k], RegisteredBefore(k), JoinedBefore(k))
  /\ \A c \in Conn : link[c] = "up" => \A k \in DOMAIN outbox[c] :
       Caused(outbox[c][k], SentBefore(c, k), JoinedBefore(NextEntry))
  /\ \A n \in Node :
       /\ peers[n] \subseteq JoinedBefore(NextEntry)
       /\ pc[n] = "SendOutput" => PeersOver(peers[n])
       /\ link[n] = "up" =>
            cj[n].outputs \subseteq SentBefore(n, Len(outbox[n]) + 1) \cup MayLack(n)

\* Entry j was handed to node n and read, or is lost to it.
Passed(n, j) == j \notin unread[n] /\ (link[n] = "up" \/ \E k \in unread[n] : j < k)

\* A node of a pool that starts when it is full has counted every Join it read,
\* and registered every output but one: that output came when its deadline was
\* over, and it has then not counted enough peers.
ReadInv(n) ==
  /\ Cardinality(peers[n]) <= MinPeer
  /\ n = Initiator /\ pc[n] \in {"Configured", "Posted"} => \A j \in DOMAIN log : ~Passed(n, j)
  /\ pc[n] = "Peers" =>
       \A j \in DOMAIN log : Passed(n, j) /\ log[j].type = "Join" => log[j].npub \in peers[n]
  /\ pc[n] \in {"Peers", "SendOutput", "Outputs"} =>
       \E a \in Address : \A j \in DOMAIN log :
         Passed(n, j) /\ log[j].type = "Output" =>
           \/ log[j].addr \in cj[n].outputs
           \/ /\ log[j].addr = a /\ Cardinality(peers[n]) < MinPeer
              /\ clock >= StartAt /\ (pc[n] = "Peers" => n \notin late)

\* Where the relay keeps the order of its log and no node has an address of
\* another network.
ReadersInv == \A n \in Node : ReadInv(n)

-----------------------------------------------------------------------------
(* Properties                                                              *)

Overbooked == Cardinality(Seats) > MinPeer

\* Whatever deadlines pass and messages or connections are lost, all nodes that
\* build a template build the same one, unless the initiator gave the pool's
\* key to more nodes than the pool has room for.  register_outputs lets every
\* node stop at its own count of outputs: nobody acknowledges a template.
Agreement ==
  ~Overbooked => \A m, n \in Node : \A t \in cj[m].psbt, u \in cj[n].psbt : t = u

\* Under the same condition the finalised transactions are the same one and
\* every signature in it was made for its outputs (add_input checks none).
FinalTxSound ==
  ~Overbooked => \A m, n \in Node : \A t \in cj[m].tx, u \in cj[n].tx :
                   t = u /\ \A i \in t.ins : i.over = t.outs

\* A coin the network saw spent was paid for: the transaction has an output to
\* the address of the coin's owner, overbooked or not (RegisterOutput puts the
\* own address in the template before the coin is signed).
PaidIfSpent ==
  \A t \in chain : \A i \in t.ins : AddrOf[i.coin] \in t.outs

\* At most one transaction of a round that starts as soon as the pool is full is
\* accepted by the network, overbooked or not: there is at most one seat more
\* than the pool needs, and a coin is signed once.  (With a Fixed timeline
\* everyone who joins before the start gets a seat, and peers may split.)
AtMostOneTx == StartEarly => Cardinality(chain) <= 1

\* A signature that was stored without the Output of the address it also signs.
Orphan(k) ==
  /\ log[k].type = "Input"
  /\ AddrOf[log[k].input.coin] \notin RegisteredBefore(k)

\* A thread panics (`todo!("store input")`) on account of one message only: the
\* signature of a node whose own Output was lost on a connection that lives on.
\* Deadlines, early leavers, connections that die and other losses do not lead
\* there, where the relay keeps its order.
NoPanic == (\E n \in Node : pc[n] = "Panicked") => \E k \in DOMAIN log : Orphan(k)

\* Every node that starts comes to an end: no phase waits for ever for a peer
\* that left, a message that was lost or a signature that never comes.
Termination ==
  \A n \in Node : pc[n] # "Configured" ~> pc[n] \in Ended

\* As long as the deadline does not pass, a full pool completes: every node ends
\* with a final transaction and the network has it.  (A node may still report
\* an error when the server refuses to be sent the same transaction again.)
Completion ==
  <>(chain # {} /\ \A n \in Node : Finalized(n) /\ pc[n] \in Ended)

\* As long as the deadline does not pass, the peers of a full pool complete
\* their coinjoin, also when the initiator only coordinates.
PeersComplete == <>(\A n \in Node \ {Initiator} : Finalized(n))
=============================================================================
