# Formal verification of joinstr

joinstr is a coinjoin without a trusted server: the participants of a pool meet on a
nostr relay, register one output address each over encrypted direct messages, sign one
input each for the common set of outputs, and every one of them can assemble and
broadcast the resulting bitcoin transaction.  This directory holds TLA+ models of that
program, TLC configurations that check them on small instances, and TLAPS proofs.

Paths below are relative to `src/rust/`.

## 1. The system

| component | source | state | operations | speaks to |
|---|---|---|---|---|
| CoinJoin aggregator | `joinstr/src/coinjoin/mod.rs` | outputs, template (`psbt`), signed inputs, final `tx`, optional backend | `add_output`, `generate_psbt`, `add_input`, `generate_tx`, `set_client`, `drop_client` | the backend (calls) |
| Round state machine `Joinstr` | `joinstr/src/joinstr/mod.rs` | role, step, error, pool, coin, address, history of peers, outputs, inputs, the `CoinJoin` | `start_coinjoin*`: `post` or `join_pool`, `register_outputs`, `generate_unsigned_tx`, `register_input`, `register_inputs`, `broadcast_tx` | NostrClient, CoinJoin, signer, electrum client |
| Restart | same, 929-1111 and `State` | the persisted `State` | `state`, `restart` | as above |
| NostrClient (sync) | `joinstr/src/nostr/sync/mod.rs` | the WsClient or its builder | `connect_nostr`, `subscribe_*`, `post_event`, `send_*`, `receive_*`, `try_receive_pool_msg` | WsClient |
| WsClient | `simple_nostr_client/src/lib.rs` | two channels, `connected`, the listen thread's socket and ping times | `connect`, `post_event`, `send_raw`, `try_receive`, `stop`, thread `listen` | relay (websocket) |
| Messages, pools, timelines | `joinstr/src/nostr/mod.rs` | none | JSON codec, `Timeline` | |
| Signer | `joinstr/src/signer/mod.rs` | keys, coins | `sign`, `get_coins_at` | electrum client |
| Electrum client | `joinstr/src/electrum.rs` | request index | `broadcast`, `get_tx`, `address_already_used`, thread `listen_txs` | electrum server |
| Raw transports and codec | `simple_electrum_client/src` | stream, buffers | line reader, requests, responses | electrum server |
| Interface, wallet settings | `joinstr/src/interface.rs`, `joinstr_wallet/src` | settings file | wrappers of the above | |

**How they interact.**  Each participant runs one thread through
`start_coinjoin_blocking`; a mutex protects `JoinstrInner` and is held for the handling
of one message.  The thread polls its client's receive channel in loops bounded by a
deadline (`while now() < expired && ...`).  The client's `listen` thread moves queued
messages to the socket and received ones to the channel.  The initiator posts the pool
event, sends a *dummy* `Join` from a throw-away client and answers every new `Join` with
the pool's secret key; from then on all participants read the same stream of DMs
addressed to the pool key, their own included, and each keeps its own count of peers,
outputs and inputs.  There is no coordinator that decides and no acknowledgement.

**What is hard.**  Independent local verdicts on a common log; deadlines read before the
loop body and compared with `<` and `>` at different places; messages lost silently on a
dead socket; a relay that may hand messages over in another order; steps that take state
before they can fail; retries; a chain that changes between a check and its use.  The
complete list, with the line where each one bites, is under `hazards` in `PROJECT.json`.

**What makes each component correct.**

* *Aggregator*: the final transaction has enough equal outputs, spends no coin twice,
  pays the fee by on-chain amounts when there is a backend; template and final
  transaction are never replaced.
* *Round*: nobody's coin is spent without paying them; nodes that build a template build
  the same one; final transactions are the same and every signature in them is for their
  outputs; the network accepts at most one; every node terminates; a full pool completes.
* *Clients*: what is queued is delivered in order or lost, never invented; key material
  goes only to counted peers.
* *Instance*: it posts at most one pool and never changes to another one, however many
  threads start a coinjoin on it; what it published stays what it works with.
* *Restart*: a node that comes back signs its coin for no second transaction, spends
  nobody without paying them and builds no template of its own.
* *Listener*: the consumer is told true statuses, never an older one after a newer, and
  no history twice; every request is answered or an error told.

## 2. The modules

| module | models | uses |
|---|---|---|
| `CoinJoinOps`, `CoinJoin` | the aggregator: its methods as operators, and as a state machine whose caller may call anything in any order | |
| `PoolRound` | the round, all participants with the relay and the network | `CoinJoinOps` |
| `PoolRestart` | the round with a process that is saved, ends and is restarted | extends `PoolRound` |
| `WsClient` | the websocket client: handle, channels, `listen` thread, socket, relay | implements `LossyChannel` |
| `Session` | one instance: `NostrClient`, builder, setters, runners, the functions of `interface.rs` | extends `WsClient` |
| `ElectrumListener` | `listen_txs` over the line reader, with its consumer and the server | implements `WatchService` |
| `LossyChannel`, `WatchService` | abstract: what the client promises of messages, the listener of statuses and histories | |
| `CoinJoinProofs`, `PoolRoundProofs`, `PoolRoundFinalProofs`, `PoolRestartProofs`, `WsClientProofs`, `LossyChannelProofs`, `SessionProofs`, `ElectrumListenerProofs` | the theorems | |
| `MC*` | values for the constants | |

`PoolRound` takes a client to be a FIFO outbox whose messages are each delivered or lost,
whatever becomes of the next one; that this is what a client does is what `WsClient` is
checked and proved to implement (`LossyChannel`).  In `Session` a round is only a phase
that sends and receives.

### CoinJoin

`cj` is the struct, `attached` its `client`, `used` and `known` what the backend can see
on chain, `res` the result of the last call.  Each method is an action of its name; a
failing call leaves the struct alone.  `errs` is how many requests of the call fail, so
that the retry loops (`retry > BACKEND_RETRY`: four failures tolerated, the fifth
reported) are part of the result.  `generate_psbt` iterates a `HashSet`, so a reused
address and an exhausted retry counter may each be reported.

### PoolRound

| code | model |
|---|---|
| a participant's thread, between `lock()`s | `pc[n]` |
| `JoinstrInner.error`, `input`, lengths of `outputs`/`inputs` (what `Status` reports) | `error`, `input`, `pushed` |
| `peers` of `register_outputs` | `peers[n]` |
| the local `coinjoin`, later `JoinstrInner.coinjoin` | `cj[n]` |
| `expired` of `register_inputs` | `inEnd[n]` |
| channel to the listen thread | `outbox[c]` |
| the socket: up, dead (writes lost), closed (`Close` handed over) | `link[c]` |
| DMs the relay stores for the pool key; Credentials sent to npubs | `log`, `mail` |
| the DMs a node has still to receive | `unread[n]` |
| `now()` | `clock` |

One action is one locked section: the receipt of one message with everything its handler
does, or the exit of a loop with the verdict and the calls up to the next loop.
`register_output` and the deadline check after it are one action, as are `input.take()`,
signing and sending.  An action's guard is the loop's condition.  Because the condition
is evaluated before the body, a node may run one more body after the deadline has passed:
`Tick` puts any set of the nodes whose deadline passes into `late`, and a node leaves
`late` when it runs the body (with a message or with an empty channel).

`Faulty` is the set of the clients that things happen to.  A write of such a client may fail
on a connection that lives on (`listen` logs it and takes the next message, so a gap is left
in what the relay gets), its connection may die silently (every further write is lost) and
then be declared closed, its backend may fail.

Abstractions: an npub and a coin are identified with their node; `Option` is a set of at
most one element; outputs and inputs are sets, because `add_output` refuses duplicates,
`generate_psbt` sorts and `generate_tx` sorts; a signature is the set of outputs it
commits to (`SIGHASH_ALL|ANYONECANPAY`); there is one pool.  A refused broadcast is an
Electrum error, also for a transaction the server already has (servers differ, both
outcomes are modelled).  The random delays and the backoff are the freedom not to step.

Two constants describe the environment: `Ordered` (the relay hands the stored DMs to
every client in the order it stored them) and `EagerJoin` (a peer may join before the
dummy `Join` is stored).  Every participant follows the program; a coin's holder has an
address too (`WithInput \subseteq WithOutput`).

### PoolRestart

| code | model |
|---|---|
| a `State` the application keeps | `saved[n]`: whether it has the pool's key, the coin, a final transaction, and the lengths of the three histories |
| `JoinstrInner.peers` when the round begins again | `carried[n]` |
| the process | `pc[n] = "Down"` after `Crash`; its outboxes are emptied |

`state()` may be called whenever the mutex is free and there is a pool, that is between
two actions.  `Restart` is the whole of `restart` up to the place where its thread goes
on: the drain of the new client (any first part of the stored messages), the totals, the
errors `InputParsing`, `PoolCorrupted`, or the phase of `restart_blocking`.  It opens a
connection of its own, whatever became of the old one.  `RestartTypeOK` adds to the types that a
state is used once and that an instance which goes on has no more peers in its history than
the pool is for.  The steps of
the round are those of `PoolRound`; a restarted initiator sends another dummy `Join`, from
a new throw-away client (`Spare`), and fails if that cannot send.  A peer saved before the Credentials came has only a key
of its own; restarted it receives nothing, times out (`Outside`) and publishes its address.
What the drained messages and histories contain is never used by the code after they are
counted, so the model keeps the counts.

### WsClient and Session

`toListen` and `toApp` are the two channels, `posted` and `arrived` are what was accepted
and what the relay got, `got` is what the application received.  `thread` is the place in
the loop of `listen` (`send`, `recv`, `timers`) or how it ended; every `return`, the
`expect` and the pong timeout are ends of their own.  A full socket loses the message, as
the code does; a dead one says nothing.  Time is counted in ping intervals: `sincePing` and
`sincePong`.  `calm` records that nothing ever happened to the socket.

`Session` extends it with one `Joinstr` instance.  `function` chooses who drives it: one
of the functions of `interface.rs`, a direct user of the client, a peer that starts with
its pool, or any calls in any order (`joinstr`).  `todo` is the order in which a function
calls its setters.  `runner[r]` is a call of `start_coinjoin*`; several may run over clones
of the instance.  A handler that holds the mutex over several steps here (the replacement
of the client in `join_pool`) excludes the others by `Unlocked`.

### ElectrumListener

A batch is a number and a request is its batch with the script it asks about.  A line of
the server is the answer to a batch or one notification.  `Read(n)` returns the first line
and loses `n` more, and possibly the first half of the next, because `raw_read` builds a
new `BufReader` for every line.  `pending` is `last_request`, `open` the map that
`expect("already inserted")` is called on.  What the loop over the answers may do when the
consumer has gone depends on the order of the answers; both ends are allowed.

## 3. The runs

| run | instance | what it shows |
|---|---|---|
| `aggregator` | 3 addresses, 3 coins, inflated and missing amounts, up to 5 backend errors | `TypeOK`, `FinalTxWellFormed`, `FinalTxPaysFee`, `NeverReplaced` |
| `round_full` | 2 seats, 3 nodes, one client loses messages or dies, deadline may pass, rich coins | `Agreement`, `FinalTxSound`, `NoPanic` |
| `round_faults` | 2 nodes with deadlines of their own (Timeout), one client and its backend fail, any order of delivery | `TypeOK`, `MessagesInv`, `OrderInv`, `FinalTxSound` |
| `round_overbooked` | 2 seats, 3 nodes, peers race the dummy | `NodesInv`, `SignaturesInv`, `PaidIfSpent`, `AtMostOneTx` |
| `completion` | full pool of 3, no faults, no deadline, fairness | `Completion` |
| `termination` | Fixed timeline, one failing connection, a failing signer, any order, fairness | `Termination` |
| `session` | one instance, 5 ways to drive it, 2 runners, 2 relays, 2 networks, fairness | `TypeOK`, `Flushed`, `NoFalseAlarm`, `OnePost`, `OnePool`, `PayloadCurrent`, `ImplementsChannel`, `PoolPublished`, `SilentDeathReported` |
| `listener` | 2 scripts, 2 requests, 1 change, 1 refusal, fairness | `TypeOK`, `NoPanicUndisturbed`, `OneOutstanding`, `ImplementsWatch`, `AnsweredOrTold` |
| `restart` | 2 seats, 3 nodes, rich coins, one process is saved and restarted | `RestartTypeOK`, `PaidIfSpent`, `InvitedAgree`, `OneSignature`, `CountsAgain` |

Three runs look for a violation and find it; each is a finding in `PROJECT.json`:

* `standalone` (`PeersComplete`): the dummy Join of a coordinator that registers no
  output takes a seat for which no output comes; a pool of N with N real peers never
  completes, although a standalone coordinator is documented.
* `aggregator_fee` (`FeeRateIsPerVbyte`): the feerate documented in sats/vb is enforced
  per weight unit.
* `join` (`PeerNeverPosts`): `join_coinjoin` passes no pool to
  `start_coinjoin_blocking`, which posts a second pool instead of joining the given one.

Two more facts came out of the models and have no run: a node publishes its address after
the timeout of a pool that not enough peers joined, before it says so
(`joinstr/mod.rs:606`), and a signed input that is read before the last output hits
`todo!("store input")` (643).  There are two ways to this panic: a relay that hands the
messages over in another order, and, with one that keeps it, a single failed write: a
node's `Output` is lost, its own count does not notice because it registers its address
itself, it signs, and its `Input` gets through to nodes that still wait for the output.
Asked in the instance of `round_full` whether any thread panics, TLC finds this trace.
`NoPanic`, which that run checks, says there is no third way in it: a thread has panicked
only if a signature was stored without its signer's `Output`.

**Bounds.**  Two or three nodes are enough for the races of the protocol: two that count
different sets and a third whose message they count.  `round_full` has one node more than
seats, so that there are four sets of addresses big enough for a template, and it is the
count of peers that leaves one of them; `round_overbooked` has a pool of that size with a
seat too many.  One client is faulty in the runs with faults: a second one adds no loss of
another kind, and the proofs have any set of them.  In `round_faults` the order of delivery
is free and every node reckons its second deadline from when it gets there.  `MaxClock` is one second
past the last deadline, which is all the code distinguishes (before, at, after).  Coins pay
either exactly their share (110 for outputs of 100) or for several outputs (250), which
is what lets a node finalise with fewer inputs than outputs if it could.
In `restart` one state of one node is taken, in any phase of a peer and in the phases of
the initiator after it has registered its peers, and that node ends and starts again once;
the deadline passes only for a peer that waits outside, since a timeout elsewhere ends the
round as in the other runs.  The bound on the initiator is a condition of three of the
properties, not an economy.  When its state is taken in `Posted` or `Peers`, before it has
counted enough peers, the totals of `restart` look sound; the restarted initiator then
counts from nothing behind the messages it has drained, lets in others than before, and TLC
finds both `InvitedAgree` and `OneSignature` violated in the same pool: a coin is signed for
two transactions.  With `EagerJoin` and an initiator that restarts it finds `InvitedAgree`
violated.  `PaidIfSpent` holds for all of these (see `PaidThroughRestart`).

In `session` the relay sends at most two events and a connection meets one disturbance (a full socket may die as well); a patience of two
intervals behaves like the three of the code, which is a constant of the proofs.  Two
parameters stand for the four that are set once, and in the run with arbitrary calls
nothing happens to the connection.  In `listener` two requests are needed for one to wait
for the other, one notification to come between a request and its answer.
`MaxErrs` = 5 exhausts the retries.  `MaxTimestamp` stands for `u64::MAX`.  Symmetry of
the joining peers is used in safety runs only.  `CHECK_DEADLOCK FALSE`: a round ends, and
the aggregator has no step it must take.

**Fairness** (`FairSpec`).  Weak fairness of every node's thread and every listen thread
(each polls for ever with a bounded sleep), of the two steps of the start, and of time.
The relay's delivery is part of the listen threads' step.  Connections that break and
peers that stop are under no fairness, and no node is obliged to be served by a relay
that is gone.  `Session`: the `listen` thread, the relay's pong to a ping, time, and the
polls of whoever polls (the loops of the code).  `ElectrumListener`: the thread and the
server's answers to what it got; no fairness of the connection, of the consumer or of
changes on the chain.

**Refinements.**  `ImplementsChannel` maps the handle, its connection and the numbers of
the messages to `LossyChannel` (the k-th message is handed over once, after those before
it, or lost, and nothing is accepted once the client is shut).  `ImplementsWatch` maps
the listener to `WatchService`.  Both are checked as properties of the runs and proved.

## 4. What is proved

**The aggregator** (`CoinJoinProofs`), for any addresses, coins, amounts, fee rate, pool
size and number of backend errors:

* `AggregatorTypes`: `Spec => []TypeOK`.
* `FinalTxFormed`: `Spec => []FinalTxWellFormed`.
* `FinalTxPays`: `Spec => FinalTxPaysFee`.
* `TemplateKept`: `Spec => NeverReplaced`.

The argument.  `AggregatorInv` adds to the types that the registered inputs are finite and
have distinct coins and that a template is big enough (`RegisteredInv`); `FinalTxFormed`
follows at once.  The fee needs sums of amounts, which the model writes with the fold
`MapThenSumSet`.  That a sum of numbers is a number, and that the sum of equal amounts is
equal, is proved by a smallest counterexample (`SmallestSubset`, from the well-foundedness
of the strict subsets of a finite set).  So the amounts `generate_tx` compares are those
of the chain, whatever was declared (`FinalTxPays`).

**The round** (`PoolRoundProofs`), for any set of nodes, pool size, amounts, timeline,
delivery order, overbooking and set of faulty clients, assuming only `OpsAssumption` and
`RoundAssumption` (types of the constants, finiteness of nodes and addresses,
`MinPeer >= 1`, coin holders have addresses):

* `TypeCorrect`: `Spec => []TypeOK`.
* `MessagesProper`: `Spec => []MessagesInv`.
* `NodesSound`: `Spec => []NodesInv`.
* `PaidSafe`: `Spec => []PaidIfSpent`.
* `AgreementHolds`: `Spec => []Agreement`.

(`TypeOK` is `DataOK` with the places and errors of the threads, and `OwnInv` is the part of
a node's `NodeInv` that is about itself: both are what also holds through a restart.)

The argument.  `IInv == TypeOK /\ MessagesInv /\ NodesInv /\ PaidIfSpent` is inductive
(`InvInit`, `InvNext`); none of its parts is inductive alone.  The type of a signature
needs a node that signs to have a template (`NodesInv`).  A *seat* is the initiator or a
peer it has counted.  The initiator counts a peer in the very step that sends it the
key, so only seats hold the key, so only their addresses appear in messages
(`MessagesInv`) and in any node's outputs (`NodesInv`).  A node adds its own address
before it makes the template, and signs that template, so its signature pays it; the
network accepts a signature only with the outputs it was made for: `PaidIfSpent`.
`Agreement` follows without another induction: a template is a set of at least `MinPeer`
seat addresses, there are no more seat addresses than seats (`SeatsBound`), and no more
than `MinPeer` seats unless overbooked, so every template is the set of all of them.

The proof of `InvNext` has a lemma for each action that sends, registers, signs or
broadcasts (`PostStep` to `TransmitStep`) and one for all others (`Quiet`), which touch
nothing that the invariant speaks of but the program counter.

**Signatures and transactions** (`PoolRoundFinalProofs`), under the same assumptions:

* `SignaturesSound`: `Spec => []SignaturesInv`, inductive relative to `IInv`.
* `FinalTxHolds`: `Spec => []FinalTxSound`.
* `OneTx`: `Spec => []AtMostOneTx`, assuming `MinPeer > 1`.

The argument.  `SignaturesInv` follows every signature from the signer to the network.
Queued, stored, held by a node or in a transaction, it is made with the coin of a seat
over a template of at least `MinPeer` seat addresses; a node holds one for each coin, and
a transaction has at least as many as it has outputs; no two accepted transactions share
a coin (`SpentOnce`); a pool that starts when it is full counts `MinPeer` peers at most
(`CountBounded`).  `add_input` checks none of this, so it rests on who has the key.
`FinalTxSound`: unless overbooked, the template has the addresses of all seats, so a
transaction with one signature for each output has those of all seats, and there is one
template to sign.  `AtMostOneTx`: two accepted transactions have disjoint sets of at least
`MinPeer` coins of at most `MinPeer + 1` seats, which is impossible for `MinPeer > 1`.
The assumption is what the argument needs; a pool for one is no coinjoin, and of it
nothing is claimed.

**Order and reading** (`PoolRoundFinalProofs`):

* `OrderKept`: `Spec => []OrderInv`.
* `NeverPanics`: `Spec => []NoPanic`, assuming `Ordered`, `StartEarly` and that no node's
  address is in `ForeignNet`.
* `HealthyNeverPanics`: `Spec => [](\A n \in Node : pc[n] # "Panicked")`, assuming besides
  that `Faulty` is empty.

The argument.  A signature is stored behind all outputs it signs, and an
output behind the Joins that ended its sender's registration of peers, unless the deadline
did (`OrderInv`): a node signs what it has received and what it has sent itself, and its own
client keeps the order.  It may lose a message, though, and go on; so the signer's own
output, and no other, may be missing (`MayLack`) if its client is faulty.  A signature
stored that way is an `Orphan`, stays one, because the log before it does not change, and is
what `NoPanic` allows a thread to panic on.  Without one, `OrderInv` alone does not help a reader, who drops what it reads in the
wrong phase.  `ReadersInv` says what a node has made of the part of the log it has read: it
counted every Join, and registered every output but one.  The one it can have dropped came
while it counted peers, so by `OrderInv` the pool was not full in its own eyes although the
deadline was over, and it stops then with fewer than `MinPeer` peers.  Such a node leaves
the registration of outputs at once (`OutputsVerdict`), and any other that reads a signature has all
its outputs, at least `MinPeer` of them and as many as its peers: its loop ended before.
Where no client is faulty no signature is an orphan (`NoOrphan`), hence `HealthyNeverPanics`.
Each of the three assumptions is needed: TLC finds a panic in a pool of two with a relay that
reorders, with a Fixed start, and with a foreign address.

**The restart** (`PoolRestartProofs`), under the same assumptions and
`RestartAssumption`, for any number of nodes and clients:

* `RestartTypes`: `RestartSpec => []RestartTypeOK`.
* `PaidThroughRestart`: `RestartSpec => []PaidIfSpent`.
* `OwnersKept`: `RestartSpec => []OwnersInv`.
* `ReplayKept`: `RestartSpec => []ReplayInv`, and of it `CountedAgain`:
  `RestartSpec => []CountsAgain`, assuming `CountsKept`.
* `InvitedAgreed`: `RestartSpec => []InvitedAgree`, and `SignedOnce`:
  `RestartSpec => []OneSignature`, assuming `CountsKept` or `SavedIn[Initiator] = {}`.

`CountsKept` says that the relay keeps the order of its log, the dummy joins before any
other, the pool starts when it is full, and the initiator's state is not taken while it
counts its peers.  Section 3 says what TLC finds where the last two fail; the alternative,
that the initiator's state is never taken, needs none of the four.

The argument.  The seats of `PoolRoundProofs` do not survive: a restarted initiator counts
its peers anew.  `OwnersInv` is the part that does: every signature on its way, stored or
held pays its signer, a node has its own address in the outputs and the template it is about
to sign, and a coin comes back only to a node that had one.  A restart clears the `CoinJoin` and
goes back to a place from which a node adds its own address again before it signs.  The
lemmas about a round's step (`MessagesPay`, `StoredPay`, `OwnNext`, `DataNext`) are about `Next`
of `PoolRound` and need `DataOK` and `OwnersInv` only, so they serve both specifications.

That two signatures of one coin are for the same transaction needs more, since a restarted
node does sign again.  `KeysInv`: only the initiator and the nodes that were sent the pool's
key make a template, and at most one process ends.  `AddressesInv`: a template is a set of
at least `MinPeer` of the addresses that were published, of nodes with the key or of the
one that was restarted.  `OnceInv`: all others sign once.  What is left is how many have the
key.  An initiator that never restarts counted them all (`RememberedInv`), and there are no
more than `MinPeer` of them unless it overbooked.  One that does restart forgets them, so the
bound is put on the log instead: the key goes only to the first `MinPeer` clients to join
(`FirstServed`), of which the dummy is one (`DummyFirst`), which leaves room for the
initiator.  `FirstServed` is kept because the initiator counts from the first Join on or counts
nobody (`CountsAgain`): with enough peers in its saved history, one more Join among the
drained messages makes the totals exceed the pool and `restart` ends with `PoolCorrupted`, so
it goes on only if it will be handed every Join again.  So the nodes with the key have at
most `MinPeer` addresses (`HasRoom`), and every template or signature is for all of them.

**The client** (`WsClientProofs`, `LossyChannelProofs`), for any texts, number of events
and patience (`WsAssumption`):

* `WsInvariant`: the inductive invariant `WsInv`.  It adds to the types `QueueInv`, which
  says what is in the channel: the numbers of the messages not taken yet, in order, and
  `Stop` after them once the handle was stopped.
* `WsTypes`, `DropFlushes` (`Flushed`): a thread that saw `Stop`, or an empty channel and no
  handle, has taken every message.
* `HealthyKept` (`NoFalseAlarm`), for `PongIntervals > 1`: as long as nothing happened to
  the socket, the age of the last pong is bounded by the ping that is due, under way or
  answered; this is an invariant of its own (`PongInv`).
* `ChannelRefined`: `WsSpec => ImplementsChannel`, by `QueueInv`, one step per action.
* `Order`: what `LossyChannel` hands over was accepted, comes in order and once.

**The instance** (`SessionProofs`), under `SessionAssumption`, for any functions,
parameters and number of runners: every step of `Session` is a step of `WsClient` or leaves
it alone (`SessionStep`), so the client's theorems carry over (`SessionRefinesChannel`,
`SessionFlushes`, `SessionKeepsHealthy`).  `PoolKept` (`OnePool`) follows from the guards of
`TakePool` and `Post` alone; `PostOnce` (`OnePost`) needs the number of posted pools tied to
the pool the instance has; `PayloadKept` (`PayloadCurrent`) that setters check the pool
under the same lock; `SessionTypes` is `TypeOK`.

**The listener** (`ElectrumListenerProofs`), for any set of scripts and any bounds:

* `ListenerTypes`: `Spec => []TypeOK`.
* `ListenerIsService`: `Spec => ImplementsWatch`.
* `ListenerKeepsRunning`: `Spec => []NoPanicUndisturbed`.
* `OneAtATime`: `Spec => []OneOutstanding`.

The argument.  `ListenerInv` adds three parts to the types.  `BatchInv`: the server knows
no batch but those sent and no script but those watched.  `StreamInv`: what a line on its
way says of a status is at least as new as what the consumer was told, and lines are in
order; losing lines (`raw_read`) keeps this, because it takes a line out and reorders none,
and so does sending a request again, because the server answers with the status it has
then.  `HistoryInv`: a history handed over was asked for and is no more in
`reqid_spk_map`, so that none is handed over twice.  The last two theorems need what
`RequestInv` adds: as long as nothing was sent again, the batch the listener waits for is the
only one on its way, in one direction or the other, and its entries are still in the map, so
that `expect` finds them.

Model-checked only: all liveness (`Completion`, `Termination`, `PoolPublished`,
`SilentDeathReported`, `AnsweredOrTold`), which is beyond the prover.

## 5. Not modelled, and why

* The asynchronous nostr client: the same interface behind a feature; the round uses the
  synchronous one.
* Encryption, signatures and JSON: conversions without state whose failure is a dropped
  message or an error the models have.
* `PoolMessage::Psbt`: no code sends one.  Confirmations: nothing writes them.
* `list_coins`, `get_coins_at`, key derivation: sequential reads of a wallet and a backend.
* How one synchronous electrum call finds its answer: a call answers or fails.
* An electrum server's error with a negative code for a subscription, which the parser
  takes for an unknown status, and a server that answers pipelined requests by an empty
  response.
* Fixed and Timeout timelines come only with a foreign pool given to `start_coinjoin`; the
  constructors refuse them.  The theorems hold for all three, `termination` runs with Fixed.
* Messages lost on the way in on a connection that lives on: `listen` ignores the errors of
  `recv_message`, of which its FIXMEs say only that they come at startup.  The models have a
  frame read whole and in turn, or not at all once the connection has died.
* Participants that do not follow the program, the width of amounts, callbacks of the
  application, the settings file.

Worth doing next: an abstract specification of a whole round; the matching of answers in the
synchronous electrum calls; whether `InvitedAgree` holds of a relay that does not keep the
order, which the proof does not cover and TLC did not refute in a search of a few minutes.
