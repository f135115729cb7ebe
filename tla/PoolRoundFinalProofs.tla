------------------------ MODULE PoolRoundFinalProofs ------------------------
(***************************************************************************)
(* Proofs about what is finalised, broadcast and read in PoolRound, on top *)
(* of the invariant of PoolRoundProofs: SignaturesInv follows every        *)
(* signature from the signer to the transactions the network accepts;      *)
(* OrderInv says what comes behind what on its way to the relay's log, and *)
(* ReadersInv what a node has made of the part of the log it has read.     *)
(***************************************************************************)
EXTENDS PoolRoundProofs

-----------------------------------------------------------------------------
(* What only grows                                                         *)

\* Signatures and transactions of seats stay such when peers are counted.
LEMMA SignedStays ==
  ASSUME Seats \subseteq Seats'
  PROVE  /\ \A i : SeatSignature(i) => SeatSignature(i)'
         /\ \A m : SignedMessage(m) => SignedMessage(m)'
         /\ \A t : FullTx(t) => FullTx(t)'
         /\ \A c : SignedCoinJoin(c) => SignedCoinJoin(c)'
<1>1. SeatAddrs \subseteq SeatAddrs'
  BY DEF SeatAddrs
<1>2. ASSUME NEW i, SeatSignature(i) PROVE SeatSignature(i)'
  BY <1>1, <1>2 DEF SeatSignature
<1>3. ASSUME NEW m, SignedMessage(m) PROVE SignedMessage(m)'
  BY <1>2, <1>3 DEF SignedMessage
<1>4. ASSUME NEW t, FullTx(t) PROVE FullTx(t)'
  BY <1>1, <1>2, <1>4 DEF FullTx, OncePerCoin
<1>5. ASSUME NEW c, SignedCoinJoin(c) PROVE SignedCoinJoin(c)'
  BY <1>2, <1>4, <1>5 DEF SignedCoinJoin, OncePerCoin
<1> QED BY <1>2, <1>3, <1>4, <1>5

\* Only RegisterPeer changes what a node counts.
LEMMA PeersChange ==
  ASSUME [Next]_vars
  PROVE  peers' = peers \/ \E n \in Node : \E k \in unread[n] : RegisterPeer(n, k)
BY DEF Next, Step, Receive, vars, nodeVars, relayVars, Post, SendDummy, JoinPool, ReceiveCredentials,
   AbortJoin, JoinTimeout, DropInPeers, ReceiveOutput, ReceiveEarlyInput, DropInOutputs,
   ReceiveInput, DropInInputs, EmptyPoll, LeavePeers, RegisterOutput, LeaveOutputs, RegisterInput,
   LeaveInputs, BroadcastFails, BroadcastTx, Transmit, LinkDies, ListenStops, Tick

\* Nor is the network told anything but by BroadcastTx.
LEMMA ChainChange ==
  ASSUME [Next]_vars
  PROVE  chain' = chain \/ \E n \in Node : BroadcastTx(n)
BY DEF Next, Step, Receive, vars, nodeVars, relayVars, Post, SendDummy, JoinPool, ReceiveCredentials,
   AbortJoin, JoinTimeout, RegisterPeer, DropInPeers, ReceiveOutput, ReceiveEarlyInput, DropInOutputs,
   ReceiveInput, DropInInputs, EmptyPoll, LeavePeers, RegisterOutput, LeaveOutputs, RegisterInput,
   LeaveInputs, BroadcastFails, Transmit, LinkDies, ListenStops, Tick

\* Only the listen threads write to the relay.
LEMMA LogChange ==
  ASSUME [Next]_vars
  PROVE  log' = log \/ \E c \in Conn : Transmit(c)
BY DEF Next, Step, Receive, vars, nodeVars, relayVars, Post, SendDummy, JoinPool, ReceiveCredentials,
   AbortJoin, JoinTimeout, RegisterPeer, DropInPeers, ReceiveOutput, ReceiveEarlyInput, DropInOutputs,
   ReceiveInput, DropInInputs, EmptyPoll, LeavePeers, RegisterOutput, LeaveOutputs, RegisterInput,
   LeaveInputs, BroadcastFails, BroadcastTx, LinkDies, ListenStops, Tick

\* The steps that change a CoinJoin.
LEMMA CoinJoinChange ==
  ASSUME [Next]_vars
  PROVE  \/ cj' = cj
         \/ \E n \in Node : \/ RegisterOutput(n) \/ LeaveOutputs(n)
                            \/ \E k \in unread[n] : ReceiveOutput(n, k) \/ ReceiveInput(n, k)
BY DEF Next, Step, Receive, vars, nodeVars, relayVars, Post, SendDummy, JoinPool, ReceiveCredentials,
   AbortJoin, JoinTimeout, RegisterPeer, DropInPeers, ReceiveEarlyInput, DropInOutputs,
   DropInInputs, EmptyPoll, LeavePeers, RegisterInput,
   LeaveInputs, BroadcastFails, BroadcastTx, Transmit, LinkDies, ListenStops, Tick

\* The steps that queue or send a message.
LEMMA OutboxChange ==
  ASSUME [Next]_vars
  PROVE  \/ outbox' = outbox
         \/ Post \/ SendDummy
         \/ \E n \in Node : \/ JoinPool(n) \/ RegisterOutput(n) \/ RegisterInput(n)
                            \/ \E k \in unread[n] : RegisterPeer(n, k)
         \/ \E c \in Conn : Transmit(c)
BY DEF Next, Step, Receive, vars, nodeVars, relayVars, ReceiveCredentials,
   AbortJoin, JoinTimeout, DropInPeers, ReceiveOutput, ReceiveEarlyInput, DropInOutputs,
   ReceiveInput, DropInInputs, EmptyPoll, LeavePeers, LeaveOutputs,
   LeaveInputs, BroadcastFails, BroadcastTx, LinkDies, ListenStops, Tick

-----------------------------------------------------------------------------
(* Peers                                                                   *)

\* A peer more is counted only while there are fewer than the pool is for.
LEMMA CountNext ==
  ASSUME IInv, CountBounded, [Next]_vars
  PROVE  CountBounded' /\ Seats \subseteq Seats'
<1>1. CASE peers' = peers
  BY <1>1 DEF CountBounded, Seats
<1>2. ASSUME NEW n \in Node, NEW k \in unread[n], RegisterPeer(n, k)
      PROVE  CountBounded' /\ Seats \subseteq Seats'
  <2> DEFINE S == peers[Initiator]
             x == log[k].npub
  <2>1. peers \in [Node -> SUBSET Conn] /\ Initiator \in Node
    BY RoundAssumption DEF IInv, TypeOK, DataOK
  <2>2. peers' = peers \/ peers' = [peers EXCEPT ![n] = @ \cup {x}]
    BY <1>2 DEF RegisterPeer
  <2>3. CASE peers'[Initiator] = S
    BY <2>3 DEF CountBounded, Seats
  <2>4. CASE n = Initiator /\ peers'[Initiator] = S \cup {x}
    <3>1. StartEarly => ~(Cardinality(S) >= MinPeer)
      BY <1>2, <2>4 DEF RegisterPeer, InPeers, EnoughPeers
    <3>2. IsFiniteSet(S) /\ Cardinality(S) \in Nat
      BY FS_CardinalityType DEF CountBounded
    <3>3. /\ IsFiniteSet(S \cup {x})
          /\ Cardinality(S \cup {x}) = Cardinality(S) \/ Cardinality(S \cup {x}) = Cardinality(S) + 1
      BY <3>2, FS_AddElement
    <3>4. StartEarly => Cardinality(S \cup {x}) <= MinPeer
      BY <3>1, <3>2, <3>3, OpsAssumption
    <3> QED BY <2>4, <3>3, <3>4 DEF CountBounded, Seats, StartEarly
  <2> QED BY <2>1, <2>2, <2>3, <2>4
<1> QED BY <1>1, <1>2, PeersChange

-----------------------------------------------------------------------------
(* Messages                                                                *)

\* A step after which at most the message m is new to the channels.
Queues(m) ==
  \A c \in Conn : \A k \in DOMAIN outbox'[c] :
    outbox'[c][k] = m \/ (k \in DOMAIN outbox[c] /\ outbox'[c][k] = outbox[c][k])

\* The signature that RegisterInput publishes is one for the node's template.
LEMMA SignedForTemplate ==
  ASSUME IInv, NEW n \in Node, n \in input, pc[n] = "SendInput"
  PROVE  SeatSignature(SignedInput(n))
<1>1. /\ n \in WithInput /\ n \in WithOutput
      /\ cj[n].psbt = {cj[n].outputs} /\ cj[n].outputs \subseteq SeatAddrs
  BY RoundAssumption DEF IInv, NodesInv, NodeInv, OwnInv
<1>2. Template(n) = cj[n].outputs
  BY <1>1 DEF Template
<1>3. Cardinality(cj[n].outputs) >= MinPeer
  BY <1>1 DEF IInv, NodesInv, NodeInv, OwnInv
<1>4. n \in Seats
  BY <1>1 DEF IInv, NodesInv, NodeInv, OwnInv, Seats, InPool
<1> QED BY <1>1, <1>2, <1>3, <1>4 DEF SignedInput, SeatSignature

\* The only signature that a step queues is that of RegisterInput.
LEMMA QueuedNext ==
  ASSUME IInv, SignaturesInv, [Next]_vars
  PROVE  \A c \in Conn : \A k \in DOMAIN outbox'[c] : SignedMessage(outbox[c][k])'
<1>1. Seats \subseteq Seats'
  BY CountNext DEF SignaturesInv
<1>2. \A m : SignedMessage(m) => SignedMessage(m)'
  BY <1>1, SignedStays
<1>3. \A c \in Conn : \A k \in DOMAIN outbox[c] : SignedMessage(outbox[c][k])
  BY DEF SignaturesInv
<1>4. ASSUME NEW m, SignedMessage(m)', Queues(m)
      PROVE  \A c \in Conn : \A k \in DOMAIN outbox'[c] : SignedMessage(outbox[c][k])'
  BY <1>2, <1>3, <1>4 DEF Queues
<1>5. CASE outbox' = outbox
  BY <1>2, <1>3, <1>5
<1>6. CASE Post
  <2>1. PoolEvent \in Msg /\ "Posted" \in PCs /\ Initiator \in Node
    BY RoundAssumption DEF PoolEvent, Msg, PCs, InPool
  <2>2. Queues(PoolEvent) /\ SignedMessage(PoolEvent)'
    BY <1>6, <2>1, SendEffect DEF IInv, Post, Queues, SignedMessage, PoolEvent
  <2> QED BY <1>4, <2>2
<1>7. CASE SendDummy
  <2>1. Join(Dummy) \in Msg /\ Dummy \in Conn
    BY DEF Join, Msg, Dm, Conn
  <2>2. Queues(Join(Dummy))
    BY <1>7, <2>1, AppendEffect DEF TypeOK, IInv, SendDummy, Queues
  <2>3. SignedMessage(Join(Dummy))'
    BY DEF SignedMessage, Join
  <2> QED BY <1>4, <2>2, <2>3
<1>8. ASSUME NEW n \in Node, JoinPool(n)
      PROVE  \A c \in Conn : \A k \in DOMAIN outbox'[c] : SignedMessage(outbox[c][k])'
  <2>1. Join(n) \in Msg /\ "Connecting" \in PCs
    BY DEF Join, Msg, Dm, Conn, PCs
  <2>2. Queues(Join(n)) /\ SignedMessage(Join(n))'
    BY <1>8, <2>1, SendEffect DEF IInv, JoinPool, Queues, SignedMessage, Join
  <2> QED BY <1>4, <2>2
<1>9. ASSUME NEW n \in Node, RegisterOutput(n)
      PROVE  \A c \in Conn : \A k \in DOMAIN outbox'[c] : SignedMessage(outbox[c][k])'
  <2> DEFINE m == Output(AddrOf[n])
  <2>1. m \in Msg /\ n \in Conn
    BY RoundAssumption DEF Output, Msg, Dm, Conn
  <2>2. outbox' = outbox \/ outbox' = [outbox EXCEPT ![n] = Append(@, m)]
    BY <1>9 DEF RegisterOutput
  <2>3. outbox' = outbox \/ Queues(m)
    BY <2>1, <2>2, AppendEffect DEF TypeOK, IInv, Queues
  <2>4. SignedMessage(m)'
    BY DEF SignedMessage, Output
  <2> QED BY <1>4, <1>5, <2>3, <2>4
<1>10. ASSUME NEW n \in Node, RegisterInput(n)
       PROVE  \A c \in Conn : \A k \in DOMAIN outbox'[c] : SignedMessage(outbox[c][k])'
  <2>1. CASE UNCHANGED outbox
    BY <1>5, <2>1
  <2>2. CASE n \in input /\ SendThenGoto(n, Input(SignedInput(n)), "Inputs")
    <3> DEFINE i == SignedInput(n)
    <3>1. pc[n] = "SendInput" /\ "Inputs" \in PCs
      BY <1>10 DEF RegisterInput, PCs, InPool
    <3>2. i \in Signed /\ SeatSignature(i)
      BY <2>2, <3>1, SignedInputType, SignedForTemplate DEF IInv, TypeOK, NodesInv, NodeInv
    <3>3. PICK m \in Msg : m = Input(i)
      BY <3>2 DEF Input, Msg, Dm
    <3>4. Queues(m)
      BY <2>2, <3>1, <3>3, SendEffect DEF IInv, Queues
    <3>5. SignedMessage(m)
      BY <3>2, <3>3 DEF SignedMessage, Input
    <3>6. SignedMessage(m)'
      BY <1>2, <3>5
    <3> QED BY <1>4, <3>4, <3>6
  <2> QED BY <1>10, <2>1, <2>2 DEF RegisterInput
<1>11. ASSUME NEW n \in Node, NEW k \in unread[n], RegisterPeer(n, k)
       PROVE  \A c \in Conn : \A j \in DOMAIN outbox'[c] : SignedMessage(outbox[c][j])'
  <2>1. log[k] \in Dm /\ log[k].type = "Join"
    BY <1>11, ConsumeType DEF TypeOK, IInv, RegisterPeer, InPeers, relayVars
  <2>2. PICK m \in Msg : m = Credentials(log[k].npub)
    BY <2>1 DEF Credentials, Msg, Dm
  <2>3. "Peers" \in PCs
    BY DEF PCs, InPool
  <2>4. outbox' = outbox \/ SendThenGoto(n, m, "Peers")
    BY <1>11, <2>2 DEF RegisterPeer
  <2>5. outbox' = outbox \/ Queues(m)
    BY <2>3, <2>4, SendEffect DEF IInv, Queues
  <2>6. SignedMessage(m)'
    BY <2>2 DEF SignedMessage, Credentials
  <2> QED BY <1>4, <1>5, <2>5, <2>6
<1>12. ASSUME NEW c \in Conn, Transmit(c)
       PROVE  \A d \in Conn : \A k \in DOMAIN outbox'[d] : SignedMessage(outbox[d][k])'
  <2>1. \A d \in Conn : \A k \in DOMAIN outbox'[d] :
          \E j \in DOMAIN outbox[d] : outbox'[d][k] = outbox[d][j]
    BY <1>12, TransmitEffect DEF TypeOK, IInv
  <2> QED BY <1>2, <1>3, <2>1
<1> QED BY <1>5, <1>6, <1>7, <1>8, <1>9, <1>10, <1>11, <1>12, OutboxChange

\* What the relay stores was queued.
LEMMA StoredNext ==
  ASSUME IInv, SignaturesInv, [Next]_vars
  PROVE  \A k \in DOMAIN log' : SignedMessage(log[k])'
<1>1. Seats \subseteq Seats'
  BY CountNext DEF SignaturesInv
<1>2. \A m : SignedMessage(m) => SignedMessage(m)'
  BY <1>1, SignedStays
<1>3. \A k \in DOMAIN log : SignedMessage(log[k])
  BY DEF SignaturesInv
<1>4. CASE log' = log
  BY <1>2, <1>3, <1>4
<1>5. ASSUME NEW c \in Conn, Transmit(c) PROVE \A k \in DOMAIN log' : SignedMessage(log[k])'
  <2>1. PICK m : m = Head(outbox[c])
    OBVIOUS
  <2>2. \A k \in DOMAIN log' : log'[k] = m \/ (k \in DOMAIN log /\ log'[k] = log[k])
    BY <1>5, <2>1, TransmitEffect DEF TypeOK, IInv
  <2>3. SignedMessage(m)
    BY <1>5, <2>1, TransmitEffect DEF TypeOK, IInv, SignaturesInv
  <2> QED BY <1>2, <1>3, <2>2, <2>3
<1> QED BY <1>4, <1>5, LogChange

-----------------------------------------------------------------------------
(* Sets of signatures                                                      *)

\* Signatures by different seats are no more than the seats; when they are as
\* many, each seat has one of them.
LEMMA OnePerSeat ==
  ASSUME TypeOK, NEW S, OncePerCoin(S), \A i \in S : i.coin \in Seats
  PROVE  /\ IsFiniteSet(S) /\ Cardinality(S) \in Nat
         /\ Cardinality(S) <= Cardinality(Seats)
         /\ Cardinality(S) >= Cardinality(Seats) => \A s \in Seats : \E i \in S : i.coin = s
<1> DEFINE f == [i \in S |-> i.coin]
<1>1. IsFiniteSet(Seats) /\ Cardinality(Seats) \in Nat
  BY SeatsBound
<1>2. f \in Injection(S, Seats)
  BY DEF Injection, IsInjective, OncePerCoin
<1>3. /\ IsFiniteSet(S) /\ Cardinality(S) <= Cardinality(Seats)
      /\ Cardinality(S) = Cardinality(Seats) => f \in Surjection(S, Seats)
  BY <1>1, <1>2, FS_Injection
<1>4. Cardinality(S) \in Nat
  BY <1>3, FS_CardinalityType
<1>5. Cardinality(S) >= Cardinality(Seats) => f \in Surjection(S, Seats)
  BY <1>1, <1>3, <1>4
<1>6. f \in Surjection(S, Seats) => \A s \in Seats : \E i \in S : i.coin = s
  BY DEF Surjection
<1> QED BY <1>3, <1>4, <1>5, <1>6

CoinsOf(S) == {i.coin : i \in S}

\* As many coins are signed as there are signatures.
LEMMA CoinsCount ==
  ASSUME NEW S, IsFiniteSet(S), OncePerCoin(S)
  PROVE  IsFiniteSet(CoinsOf(S)) /\ Cardinality(CoinsOf(S)) = Cardinality(S)
<1> DEFINE f == [i \in S |-> i.coin]
<1>1. f \in Bijection(S, CoinsOf(S))
  BY DEF Bijection, Injection, IsInjective, Surjection, OncePerCoin, CoinsOf
<1>2. ExistsBijection(S, CoinsOf(S))
  BY <1>1 DEF ExistsBijection
<1> QED BY <1>2, FS_Bijection

-----------------------------------------------------------------------------
(* The CoinJoin of a node                                                  *)

\* A transaction that try_finalize_coinjoin sets aggregates a template and all
\* inputs, which are at least as many as the outputs registered.
LEMMA TryFinalizeTx ==
  ASSUME NEW c \in CJ, NEW t \in TryFinalize(c).tx
  PROVE  \/ t \in c.tx
         \/ /\ t.outs \in c.psbt /\ t.ins = c.inputs
            /\ Cardinality(c.inputs) >= Cardinality(c.outputs)
<1>1. CASE TryFinalize(c) = c
  BY <1>1
<1>2. CASE /\ TryFinalize(c) = GenerateTx(c) /\ GenerateTxResult(c, {}, 0) = "ok"
           /\ Cardinality(c.inputs) >= Cardinality(c.outputs)
  <2>1. IsSome(c.psbt)
    BY <1>2, GenerateTxNeedsTemplate
  <2>2. (CHOOSE p \in c.psbt : TRUE) \in c.psbt
    BY <2>1 DEF IsSome
  <2>3. t = Aggregate(c)
    BY <1>2 DEF GenerateTx, CJ
  <2> QED BY <1>2, <2>2, <2>3 DEF Aggregate
<1> QED BY <1>1, <1>2 DEF TryFinalize

\* add_input takes no second signature of a coin.
LEMMA AddInputOnce ==
  ASSUME NEW c \in CJ, NEW x \in Signed, OncePerCoin(c.inputs), AddInputResult(c, {}, 0, x) = "ok"
  PROVE  OncePerCoin(AddInput(c, x).inputs)
<1>1. \A i \in c.inputs : i.coin # x.coin
  BY DEF AddInputResult
<1> QED BY <1>1, AddInputType DEF OncePerCoin

LEMMA HeldNext ==
  ASSUME IInv, SignaturesInv, [Next]_vars
  PROVE  \A n \in Node : SignedCoinJoin(cj[n])'
<1>1. Seats \subseteq Seats'
  BY CountNext DEF SignaturesInv
<1>2. \A c : SignedCoinJoin(c) => SignedCoinJoin(c)'
  BY <1>1, SignedStays
<1>3. \A n \in Node : SignedCoinJoin(cj[n])
  BY DEF SignaturesInv
<1>4. cj \in [Node -> CJ]
  BY DEF IInv, TypeOK, DataOK
<1>5. CASE cj' = cj
  BY <1>2, <1>3, <1>5
<1>6. ASSUME NEW n \in Node, NEW c,
             cj' = [cj EXCEPT ![n] = c], c.inputs = cj[n].inputs, c.tx = cj[n].tx
      PROVE  \A p \in Node : SignedCoinJoin(cj[p])'
  <2>1. SignedCoinJoin(c)
    BY <1>3, <1>6 DEF SignedCoinJoin
  <2> QED BY <1>2, <1>3, <1>4, <1>6, <2>1
<1>7. ASSUME NEW n \in Node, RegisterOutput(n) PROVE \A p \in Node : SignedCoinJoin(cj[p])'
  <2>1. AddrOf[n] \in Address /\ cj[n] \in CJ
    BY <1>4, RoundAssumption
  <2>2. cj' = cj \/ cj' = [cj EXCEPT ![n] = AddOutput(cj[n], AddrOf[n])]
    BY <1>7 DEF RegisterOutput
  <2> QED BY <1>5, <1>6, <2>1, <2>2, AddOutputType
<1>8. ASSUME NEW n \in Node, LeaveOutputs(n) PROVE \A p \in Node : SignedCoinJoin(cj[p])'
  <2>1. cj' = cj \/ cj' = [cj EXCEPT ![n] = GeneratePsbt(cj[n])]
    BY <1>8 DEF LeaveOutputs
  <2> QED BY <1>4, <1>5, <1>6, <2>1, GeneratePsbtType
<1>9. ASSUME NEW n \in Node, NEW k \in unread[n], ReceiveOutput(n, k)
      PROVE  \A p \in Node : SignedCoinJoin(cj[p])'
  <2>1. log[k] \in Dm /\ log[k].type = "Output"
    BY <1>9, ConsumeType DEF TypeOK, IInv, ReceiveOutput, InOutputs, relayVars
  <2>2. log[k].addr \in Address /\ cj[n] \in CJ
    BY <1>4, <2>1 DEF Dm
  <2>3. cj' = cj \/ cj' = [cj EXCEPT ![n] = AddOutput(cj[n], log[k].addr)]
    BY <1>9 DEF ReceiveOutput
  <2> QED BY <1>5, <1>6, <2>2, <2>3, AddOutputType
<1>10. ASSUME NEW n \in Node, NEW k \in unread[n], ReceiveInput(n, k)
       PROVE  \A p \in Node : SignedCoinJoin(cj[p])'
  <2> DEFINE x  == log[k].input
             ok == AddInputResult(cj[n], {}, 0, x) = "ok"
             c  == IF ok THEN AddInput(cj[n], x) ELSE cj[n]
             d  == TryFinalize(c)
  <2>1. k \in DOMAIN log /\ log[k] \in Dm /\ log[k].type = "Input"
    BY <1>10, ConsumeType DEF TypeOK, IInv, ReceiveInput, InInputs, relayVars
  <2>2. x \in Signed /\ SeatSignature(x) /\ cj[n] \in CJ
    BY <1>4, <2>1 DEF Dm, SignaturesInv, SignedMessage
  <2>3. /\ c \in CJ /\ c.outputs = cj[n].outputs /\ c.psbt = cj[n].psbt /\ c.tx = cj[n].tx
        /\ \A i \in c.inputs : i \in cj[n].inputs \/ i = x
    BY <2>2, AddInputType
  <2>4. OncePerCoin(c.inputs)
    BY <1>3, <2>2, AddInputOnce DEF SignedCoinJoin
  <2>5. \A i \in c.inputs : SeatSignature(i)
    BY <1>3, <2>2, <2>3 DEF SignedCoinJoin
  <2>6. d.inputs = c.inputs
    BY <2>3, TryFinalizeType
  <2>7. ASSUME NEW t \in d.tx PROVE FullTx(t)
    <3>1. CASE t \in c.tx
      BY <1>3, <2>3, <3>1 DEF SignedCoinJoin
    <3>2. CASE /\ t.outs \in c.psbt /\ t.ins = c.inputs
               /\ Cardinality(c.inputs) >= Cardinality(c.outputs)
      <4>1. /\ t.outs \subseteq c.outputs /\ Cardinality(t.outs) >= MinPeer
            /\ c.outputs \subseteq SeatAddrs
        BY <2>3, <3>2 DEF IInv, NodesInv, NodeInv, OwnInv
      <4>2. IsFiniteSet(c.outputs)
        BY <4>1, SeatsBound, FS_Subset DEF IInv
      <4>3. /\ Cardinality(t.outs) <= Cardinality(c.outputs)
            /\ Cardinality(t.outs) \in Nat /\ Cardinality(c.outputs) \in Nat
        BY <4>1, <4>2, FS_Subset, FS_CardinalityType
      <4>4. Cardinality(c.inputs) \in Nat
        BY <2>4, <2>5, OnePerSeat DEF IInv, SeatSignature
      <4>5. Cardinality(t.ins) >= Cardinality(t.outs)
        BY <3>2, <4>3, <4>4
      <4> QED BY <2>4, <2>5, <3>2, <4>1, <4>5 DEF FullTx
    <3> QED BY <2>3, <2>7, <3>1, <3>2, TryFinalizeTx
  <2>8. SignedCoinJoin(d)
    BY <2>4, <2>5, <2>6, <2>7 DEF SignedCoinJoin
  <2>9. cj' = [cj EXCEPT ![n] = d]
    BY <1>10 DEF ReceiveInput
  <2> HIDE DEF d
  <2> QED BY <1>2, <1>3, <1>4, <2>8, <2>9
<1> QED BY <1>5, <1>7, <1>8, <1>9, <1>10, CoinJoinChange

-----------------------------------------------------------------------------
(* The network                                                             *)

\* A transaction the network accepts is the final one of a node and shares no
\* coin with another that it has.
LEMMA SpentNext ==
  ASSUME IInv, SignaturesInv, [Next]_vars
  PROVE  SpentOnce'
<1>1. \A t : FullTx(t) => FullTx(t)'
  BY CountNext, SignedStays DEF SignaturesInv
<1>2. CASE chain' = chain
  BY <1>1, <1>2 DEF SignaturesInv, SpentOnce, SpendDistinctCoins
<1>3. ASSUME NEW n \in Node, BroadcastTx(n) PROVE SpentOnce'
  <2> DEFINE x == FinalTx(n)
  <2>1. x \in cj[n].tx
    BY <1>3 DEF BroadcastTx, Finalized, IsSome, FinalTx
  <2>2. FullTx(x)
    BY <2>1 DEF SignaturesInv, SignedCoinJoin
  <2>3. chain' = chain \/ (chain' = chain \cup {x} /\ Valid(x))
    BY <1>3 DEF BroadcastTx
  <2>4. Valid(x) => \A t \in chain : t # x => SpendDistinctCoins(x, t) /\ SpendDistinctCoins(t, x)
    BY DEF Valid, SpendDistinctCoins
  <2> HIDE DEF x
  <2>5. CASE chain' = chain \cup {x} /\ Valid(x)
    <3>1. ASSUME NEW t \in chain', NEW u \in chain' PROVE FullTx(t)
      BY <2>2, <2>5, <3>1 DEF SignaturesInv, SpentOnce
    <3>2. ASSUME NEW t \in chain', NEW u \in chain', t # u PROVE SpendDistinctCoins(t, u)
      BY <2>4, <2>5, <3>2 DEF SignaturesInv, SpentOnce
    <3> QED BY <1>1, <3>1, <3>2 DEF SpentOnce, SpendDistinctCoins
  <2> QED BY <1>2, <2>3, <2>5
<1> QED BY <1>2, <1>3, ChainChange

-----------------------------------------------------------------------------
(* The theorems                                                            *)

LEMMA SignaturesInit == Init => SignaturesInv
<1> SUFFICES ASSUME Init PROVE SignaturesInv
  OBVIOUS
<1>1. \A c \in Conn : \A k \in DOMAIN outbox[c] : SignedMessage(outbox[c][k])
  BY DEF Init
<1>2. \A k \in DOMAIN log : SignedMessage(log[k])
  BY DEF Init
<1>3. \A n \in Node : SignedCoinJoin(cj[n])
  BY DEF Init, NewCoinJoin, SignedCoinJoin, OncePerCoin
<1>4. SpentOnce
  BY DEF Init, SpentOnce
<1>5. peers[Initiator] = {}
  BY RoundAssumption DEF Init
<1>6. CountBounded
  BY <1>5, FS_EmptySet, OpsAssumption DEF CountBounded
<1> QED BY <1>1, <1>2, <1>3, <1>4, <1>6 DEF SignaturesInv

LEMMA SignaturesNext == IInv /\ SignaturesInv /\ [Next]_vars => SignaturesInv'
BY QueuedNext, StoredNext, HeldNext, SpentNext, CountNext DEF SignaturesInv

\* Every signature that is queued, stored, held by a node or part of a
\* transaction is one by a seat for a template of at least MinPeer addresses of
\* seats, of one coin each where they are counted (RegisterInput signs after
\* LeaveOutputs, add_input takes a coin once, try_finalize_coinjoin waits for a
\* signature for every output).
THEOREM SignaturesSound == Spec => []SignaturesInv
BY Invariant, SignaturesInit, SignaturesNext, PTL DEF Spec

\* Unless there are more seats than the pool is for, a template is all seat
\* addresses and a transaction has the signature of every seat.
LEMMA FullTxIsWhole ==
  ASSUME IInv, ~Overbooked, NEW t, FullTx(t)
  PROVE  /\ t.outs = SeatAddrs
         /\ \A i \in t.ins : i.over = SeatAddrs
         /\ \A s \in Seats : \E i \in t.ins : i.coin = s
<1>1. /\ IsFiniteSet(SeatAddrs) /\ Cardinality(SeatAddrs) \in Nat
      /\ Cardinality(SeatAddrs) <= MinPeer
      /\ Cardinality(Seats) \in Nat /\ Cardinality(Seats) <= MinPeer
  BY SeatsBound, OpsAssumption DEF IInv, Overbooked
<1>2. ASSUME NEW o, o \subseteq SeatAddrs, Cardinality(o) >= MinPeer PROVE o = SeatAddrs
  <2>1. Cardinality(o) \in Nat /\ Cardinality(o) <= Cardinality(SeatAddrs)
        /\ (Cardinality(o) = Cardinality(SeatAddrs) => o = SeatAddrs)
    BY <1>1, <1>2, FS_Subset, FS_CardinalityType
  <2> QED BY <1>1, <1>2, <2>1, OpsAssumption
<1>3. t.outs = SeatAddrs /\ \A i \in t.ins : i.over = SeatAddrs
  BY <1>2 DEF FullTx, SeatSignature
<1>4. /\ OncePerCoin(t.ins) /\ \A i \in t.ins : i.coin \in Seats
      /\ Cardinality(t.outs) >= MinPeer /\ Cardinality(t.ins) >= Cardinality(t.outs)
  BY DEF FullTx, SeatSignature
<1>5. Cardinality(t.ins) \in Nat
  BY <1>4, OnePerSeat DEF IInv
<1>6. Cardinality(t.ins) >= Cardinality(Seats)
  BY <1>1, <1>3, <1>4, <1>5, OpsAssumption
<1> QED BY <1>3, <1>4, <1>6, OnePerSeat DEF IInv

\* Unless there are more seats than the pool is for, all final transactions are
\* the same one and every signature in it was made for its outputs: add_input
\* checks neither, but there is only one template to sign and only one signature
\* of each seat to wait for.
THEOREM FinalTxHolds == Spec => []FinalTxSound
<1>1. ASSUME IInv, SignaturesInv PROVE FinalTxSound
  <2> SUFFICES ASSUME ~Overbooked, NEW m \in Node, NEW n \in Node,
                      NEW t \in cj[m].tx, NEW u \in cj[n].tx
               PROVE  t = u /\ \A i \in t.ins : i.over = t.outs
    BY DEF FinalTxSound
  <2>1. FullTx(t) /\ FullTx(u)
    BY <1>1 DEF SignaturesInv, SignedCoinJoin
  <2>2. /\ t.outs = SeatAddrs /\ u.outs = SeatAddrs
        /\ \A i \in t.ins : i.over = SeatAddrs
        /\ \A i \in u.ins : i.over = SeatAddrs
        /\ \A s \in Seats : (\E i \in t.ins : i.coin = s) /\ (\E i \in u.ins : i.coin = s)
    BY <1>1, <2>1, FullTxIsWhole
  <2>3. /\ t \in [outs : SUBSET Address, ins : SUBSET Signed]
        /\ u \in [outs : SUBSET Address, ins : SUBSET Signed]
    BY <1>1 DEF IInv, TypeOK, DataOK, CJ
  <2>4. ASSUME NEW i \in Signed, NEW j \in Signed, SeatSignature(i), SeatSignature(j),
               i.coin = j.coin, i.over = j.over
        PROVE  i = j
    BY <2>4 DEF Signed, SeatSignature
  <2>5. ASSUME NEW v, NEW w, v \subseteq Signed, w \subseteq Signed,
               \A i \in v : SeatSignature(i) /\ i.over = SeatAddrs,
               \A i \in w : SeatSignature(i) /\ i.over = SeatAddrs,
               \A s \in Seats : \E i \in w : i.coin = s
        PROVE  v \subseteq w
    <3> SUFFICES ASSUME NEW i \in v PROVE i \in w
      OBVIOUS
    <3>1. PICK j \in w : j.coin = i.coin
      BY <2>5 DEF SeatSignature
    <3>2. i \in Signed /\ j \in Signed /\ SeatSignature(i) /\ SeatSignature(j) /\ i.over = j.over
      BY <2>5
    <3> QED BY <2>4, <3>1, <3>2
  <2>6. t.ins \subseteq u.ins /\ u.ins \subseteq t.ins
    BY <2>1, <2>2, <2>3, <2>5 DEF FullTx
  <2>7. t.ins = u.ins
    BY <2>6
  <2> QED BY <2>2, <2>3, <2>7
<1> QED BY <1>1, Invariant, SignaturesSound, PTL

\* A pool that starts when it is full has at most one seat more than it is for.
LEMMA SeatsOfFullPool ==
  ASSUME IInv, CountBounded, StartEarly
  PROVE  Cardinality(Seats) \in Nat /\ Cardinality(Seats) <= MinPeer + 1
<1> DEFINE S == peers[Initiator]
<1>1. IsFiniteSet(S) /\ Cardinality(S) \in Nat /\ Cardinality(S) <= MinPeer
  BY FS_CardinalityType DEF CountBounded
<1>2. /\ IsFiniteSet(S \cup {Initiator})
      /\ \/ Cardinality(S \cup {Initiator}) = Cardinality(S)
         \/ Cardinality(S \cup {Initiator}) = Cardinality(S) + 1
  BY <1>1, FS_AddElement
<1>3. Seats \subseteq S \cup {Initiator}
  BY DEF Seats
<1>4. Cardinality(Seats) \in Nat /\ Cardinality(Seats) <= Cardinality(S \cup {Initiator})
  BY <1>2, <1>3, SeatsBound, FS_Subset DEF IInv
<1> QED BY <1>1, <1>2, <1>4, OpsAssumption

\* The network accepts at most one transaction of a round of two seats or more
\* that starts when the pool is full, even if it has a seat too many: two
\* transactions without a common coin would need twice as many seats as the pool
\* is for.
THEOREM OneTx ==
  ASSUME MinPeer > 1
  PROVE  Spec => []AtMostOneTx
<1>1. ASSUME IInv, SignaturesInv PROVE AtMostOneTx
  <2>1. ASSUME StartEarly, NEW t \in chain, NEW u \in chain, t # u PROVE FALSE
    <3> DEFINE T == CoinsOf(t.ins)
               U == CoinsOf(u.ins)
    <3>1. FullTx(t) /\ FullTx(u) /\ SpendDistinctCoins(t, u)
      BY <1>1, <2>1 DEF SignaturesInv, SpentOnce
    <3>2. ASSUME NEW x, FullTx(x)
          PROVE  /\ IsFiniteSet(CoinsOf(x.ins)) /\ CoinsOf(x.ins) \subseteq Seats
                 /\ Cardinality(CoinsOf(x.ins)) \in Nat /\ Cardinality(CoinsOf(x.ins)) >= MinPeer
      <4>1. /\ OncePerCoin(x.ins) /\ \A i \in x.ins : i.coin \in Seats
            /\ x.outs \subseteq SeatAddrs /\ Cardinality(x.outs) >= MinPeer
            /\ Cardinality(x.ins) >= Cardinality(x.outs)
        BY <3>2 DEF FullTx, SeatSignature
      <4>2. IsFiniteSet(x.ins) /\ Cardinality(x.ins) \in Nat
        BY <1>1, <4>1, OnePerSeat DEF IInv
      <4>3. Cardinality(x.outs) \in Nat
        BY <1>1, <4>1, SeatsBound, FS_Subset, FS_CardinalityType DEF IInv
      <4>4. IsFiniteSet(CoinsOf(x.ins)) /\ Cardinality(CoinsOf(x.ins)) = Cardinality(x.ins)
        BY <4>1, <4>2, CoinsCount
      <4>5. Cardinality(x.ins) >= MinPeer
        BY <4>1, <4>2, <4>3, OpsAssumption
      <4> QED BY <4>1, <4>2, <4>4, <4>5 DEF CoinsOf
    <3>3. /\ IsFiniteSet(T) /\ T \subseteq Seats /\ Cardinality(T) \in Nat /\ Cardinality(T) >= MinPeer
          /\ IsFiniteSet(U) /\ U \subseteq Seats /\ Cardinality(U) \in Nat /\ Cardinality(U) >= MinPeer
      BY <3>1, <3>2
    <3>4. T \cap U = {}
      BY <3>1 DEF SpendDistinctCoins, CoinsOf
    <3> HIDE DEF T, U
    <3>5. Cardinality(T \cup U) = Cardinality(T) + Cardinality(U)
      <4>1. Cardinality(T \cup U) = Cardinality(T) + Cardinality(U) - Cardinality(T \cap U)
        BY <3>3, FS_Union
      <4>2. Cardinality(T \cap U) = 0
        BY <3>4, FS_EmptySet
      <4> QED BY <3>3, <4>1, <4>2
    <3>6. Cardinality(T \cup U) <= Cardinality(Seats)
      BY <1>1, <3>3, SeatsBound, FS_Subset DEF IInv
    <3>7. Cardinality(Seats) \in Nat /\ Cardinality(Seats) <= MinPeer + 1
      BY <1>1, <2>1, SeatsOfFullPool DEF SignaturesInv
    <3> QED BY <3>3, <3>5, <3>6, <3>7, OpsAssumption
  <2>2. CASE chain = {}
    BY <2>2, FS_EmptySet DEF AtMostOneTx
  <2>3. ASSUME StartEarly, NEW t \in chain PROVE Cardinality(chain) = 1
    <3>1. chain = {t}
      BY <2>1, <2>3
    <3> QED BY <3>1, FS_Singleton
  <2> QED BY <2>2, <2>3 DEF AtMostOneTx
<1> QED BY <1>1, Invariant, SignaturesSound, PTL

-----------------------------------------------------------------------------
(* What was stored and queued before                                       *)

\* The clock, and a connection that ended, do not go back.
LEMMA ClockAndLink ==
  ASSUME DataOK, [Next]_vars
  PROVE  clock <= clock' /\ clock' \in Nat /\ \A c \in Conn : link'[c] = "up" => link[c] = "up"
<1>1. CASE UNCHANGED <<clock, link>>
  BY <1>1 DEF DataOK
<1>2. CASE Tick
  BY <1>2 DEF Tick, DataOK
<1>3. ASSUME NEW c \in Conn, LinkDies(c) \/ ListenStops(c)
      PROVE  clock <= clock' /\ clock' \in Nat /\ \A d \in Conn : link'[d] = "up" => link[d] = "up"
  BY <1>3 DEF LinkDies, ListenStops, DataOK
<1>4. UNCHANGED <<clock, link>> \/ Tick \/ \E c \in Conn : LinkDies(c) \/ ListenStops(c)
  BY DEF Next, Step, Receive, vars, nodeVars, relayVars, Post, SendDummy, JoinPool, ReceiveCredentials,
     AbortJoin, JoinTimeout, RegisterPeer, DropInPeers, ReceiveOutput, ReceiveEarlyInput, DropInOutputs,
     ReceiveInput, DropInInputs, EmptyPoll, LeavePeers, RegisterOutput, LeaveOutputs, RegisterInput,
     LeaveInputs, BroadcastFails, BroadcastTx, Transmit
<1> QED BY <1>1, <1>2, <1>3, <1>4

\* The relay stores the head of a channel of a connection that is up, or nothing.
LEMMA LogStep ==
  ASSUME DataOK, [Next]_vars
  PROVE  \/ log' = log
         \/ \E c \in Conn : /\ link[c] = "up" /\ 1 \in DOMAIN outbox[c]
                            /\ outbox[c][1] \in Dm /\ log' = Append(log, outbox[c][1])
<1>1. ASSUME NEW c \in Conn, Transmit(c)
      PROVE  \/ log' = log
             \/ /\ link[c] = "up" /\ 1 \in DOMAIN outbox[c]
                /\ outbox[c][1] \in Dm /\ log' = Append(log, outbox[c][1])
  <2>1. 1 \in DOMAIN outbox[c] /\ Head(outbox[c]) = outbox[c][1]
    BY <1>1, TransmitEffect
  <2>2. outbox[c][1] \in Msg
    BY <2>1, ElementOfSeq, LenProperties DEF DataOK
  <2>3. link[c] \in {"up", "dead", "closed"}
    BY DEF DataOK
  <2>4. log' = log \/ (/\ link[c] = "up" /\ log' = Append(log, outbox[c][1])
                       /\ outbox[c][1].type \notin {"Pool", "Credentials"})
    BY <1>1, <2>1, <2>3 DEF Transmit, Stores, relayVars
  <2>5. outbox[c][1].type \notin {"Pool", "Credentials"} => outbox[c][1] \in Dm
    BY <2>2 DEF Msg
  <2> QED BY <2>1, <2>4, <2>5
<1> QED BY <1>1, LogChange

LEMMA LogGrows ==
  ASSUME DataOK, [Next]_vars
  PROVE  /\ NextEntry \in Nat /\ DOMAIN log = 1..Len(log) /\ Len(log) \in Nat
         /\ DOMAIN log' = 1..Len(log') /\ Len(log') \in Nat /\ Len(log) <= Len(log')
         /\ \A j \in DOMAIN log : j \in DOMAIN log' /\ log'[j] = log[j]
         /\ \A j \in DOMAIN log' : j \in DOMAIN log \/ j = NextEntry
<1>1. log \in Seq(Dm) /\ Len(log) \in Nat /\ DOMAIN log = 1..Len(log)
  BY LenProperties DEF DataOK
<1>2. CASE log' = log
  BY <1>1, <1>2 DEF NextEntry
<1>3. ASSUME NEW m \in Dm, log' = Append(log, m)
      PROVE  /\ DOMAIN log' = 1..Len(log') /\ Len(log') = Len(log) + 1
             /\ \A j \in DOMAIN log : j \in DOMAIN log' /\ log'[j] = log[j]
  <2>1. log' \in Seq(Dm) /\ Len(log') = Len(log) + 1 /\ \A j \in 1..Len(log) : log'[j] = log[j]
    BY <1>1, <1>3, AppendProperties
  <2>2. DOMAIN log' = 1..Len(log')
    BY <2>1, LenProperties
  <2> QED BY <1>1, <2>1, <2>2
<1> QED BY <1>1, <1>2, <1>3, LogStep DEF NextEntry

\* What was stored before an entry stays so; more is stored behind.
LEMMA BeforeStays ==
  ASSUME DataOK, [Next]_vars
  PROVE  /\ \A k \in Nat : k <= NextEntry =>
              RegisteredBefore(k)' = RegisteredBefore(k) /\ JoinedBefore(k)' = JoinedBefore(k)
         /\ RegisteredBefore(NextEntry) \subseteq RegisteredBefore(NextEntry)'
         /\ JoinedBefore(NextEntry) \subseteq JoinedBefore(NextEntry)'
<1>1. /\ NextEntry \in Nat /\ DOMAIN log = 1..Len(log) /\ Len(log) \in Nat
      /\ DOMAIN log' = 1..Len(log') /\ Len(log') \in Nat /\ Len(log) <= Len(log')
      /\ \A j \in DOMAIN log : j \in DOMAIN log' /\ log'[j] = log[j]
      /\ \A j \in DOMAIN log' : j \in DOMAIN log \/ j = NextEntry
  BY LogGrows
<1>2. ASSUME NEW k \in Nat, k <= NextEntry
      PROVE  RegisteredBefore(k)' = RegisteredBefore(k) /\ JoinedBefore(k)' = JoinedBefore(k)
  <2>1. \A j \in DOMAIN log' : j < k => j \in DOMAIN log
    BY <1>1, <1>2
  <2> QED BY <1>1, <2>1 DEF RegisteredBefore, JoinedBefore
<1>3. \A j \in DOMAIN log : j < NextEntry'
  BY <1>1 DEF NextEntry
<1>4. /\ RegisteredBefore(NextEntry) \subseteq RegisteredBefore(NextEntry)'
      /\ JoinedBefore(NextEntry) \subseteq JoinedBefore(NextEntry)'
  BY <1>1, <1>3 DEF RegisteredBefore, JoinedBefore
<1> QED BY <1>2, <1>4

\* Finitely many have joined.
LEMMA JoinedFinite ==
  ASSUME NEW l \in Seq(Dm), NEW k
  PROVE  IsFiniteSet({c \in Conn : \E j \in DOMAIN l : j < k /\ l[j].type = "Join" /\ l[j].npub = c})
<1> DEFINE C == {c \in Conn : \E j \in DOMAIN l : j < k /\ l[j].type = "Join" /\ l[j].npub = c}
           D == {j \in DOMAIN l : j < k /\ l[j].type = "Join" /\ l[j].npub \in Conn}
           f == [j \in D |-> l[j].npub]
<1>1. Len(l) \in Nat /\ DOMAIN l = 1..Len(l)
  BY LenProperties
<1>2. IsFiniteSet(DOMAIN l)
  BY <1>1, FS_Interval
<1>3. IsFiniteSet(D)
  BY <1>2, FS_Subset
<1>4. f \in Surjection(D, C)
  BY DEF Surjection
<1> QED BY <1>3, <1>4, FS_Surjection

\* The registration of peers that is over stays over when more have joined.
LEMMA OverStays ==
  ASSUME DataOK, clock <= clock', clock' \in Nat, NEW S, NEW T, S \subseteq T, IsFiniteSet(T), PeersOver(S)
  PROVE  PeersOver(T) /\ PeersOver(T)'
<1>1. IsFiniteSet(S) /\ Cardinality(S) \in Nat /\ Cardinality(T) \in Nat /\ Cardinality(S) <= Cardinality(T)
  BY FS_Subset, FS_CardinalityType
<1>2. StartAt \in Nat /\ clock \in Nat /\ MinPeer \in Nat
  BY RoundAssumption, OpsAssumption DEF StartAt, DataOK
<1> QED BY <1>1, <1>2 DEF PeersOver, StartAt

-----------------------------------------------------------------------------
(* The channels                                                            *)

\* The messages whose place in the log matters are queued by RegisterOutput and
\* RegisterInput.
QueuedBy(c, m) ==
  \/ m.type \notin {"Output", "Input"}
  \/ /\ c \in Node /\ RegisterOutput(c) /\ m.type = "Output" /\ m.addr = AddrOf[c]
     /\ cj' = [cj EXCEPT ![c] = AddOutput(@, AddrOf[c])]
  \/ /\ c \in Node /\ RegisterInput(c) /\ m.type = "Input" /\ m.input = SignedInput(c)
     /\ c \in input

\* A step leaves a channel alone, queues a message or sends the head.
LEMMA ChannelStep ==
  ASSUME IInv, [Next]_vars, NEW c \in Conn
  PROVE  \/ outbox'[c] = outbox[c]
         \/ \E m \in Msg : /\ outbox'[c] = Append(outbox[c], m) /\ log' = log
                           /\ QueuedBy(c, m)
         \/ Transmit(c) /\ outbox[c] # << >> /\ outbox'[c] = Tail(outbox[c])
<1> USE DEF nodeVars, relayVars
<1>0. outbox \in [Conn -> Seq(Msg)] /\ Node \subseteq Conn /\ Initiator \in Node
  BY RoundAssumption DEF IInv, TypeOK, DataOK, Conn
<1>1. CASE outbox' = outbox
  BY <1>1
<1>2. ASSUME NEW d \in Conn, NEW m \in Msg, outbox' = [outbox EXCEPT ![d] = Append(@, m)],
             log' = log, QueuedBy(d, m)
      PROVE  \/ outbox'[c] = outbox[c]
             \/ \E x \in Msg : /\ outbox'[c] = Append(outbox[c], x) /\ log' = log
                               /\ QueuedBy(c, x)
  BY <1>0, <1>2
<1>3. CASE Post
  <2>1. PoolEvent \in Msg /\ QueuedBy(Initiator, PoolEvent)
    BY DEF PoolEvent, Msg, QueuedBy
  <2> QED BY <1>0, <1>1, <1>2, <1>3, <2>1 DEF Post, SendThenGoto
<1>4. CASE SendDummy
  <2>1. Join(Dummy) \in Msg /\ Dummy \in Conn /\ QueuedBy(Dummy, Join(Dummy))
    BY DEF Join, Msg, Dm, Conn, QueuedBy
  <2> QED BY <1>1, <1>2, <1>4, <2>1 DEF SendDummy
<1>5. ASSUME NEW n \in Node, JoinPool(n)
      PROVE  outbox' = outbox \/ (/\ outbox' = [outbox EXCEPT ![n] = Append(@, Join(n))]
                                  /\ log' = log /\ Join(n) \in Msg /\ QueuedBy(n, Join(n)))
  <2>1. Join(n) \in Msg /\ QueuedBy(n, Join(n))
    BY <1>0 DEF Join, Msg, Dm, QueuedBy
  <2> QED BY <1>5, <2>1 DEF JoinPool, SendThenGoto
<1>6. ASSUME NEW n \in Node, RegisterOutput(n)
      PROVE  outbox' = outbox \/ \E m \in Msg : /\ outbox' = [outbox EXCEPT ![n] = Append(@, m)]
                                                /\ log' = log /\ QueuedBy(n, m)
  <2>1. PICK m : m = Output(AddrOf[n])
    OBVIOUS
  <2>2. m \in Msg /\ m.type = "Output" /\ m.addr = AddrOf[n]
    BY <2>1, RoundAssumption DEF Output, Msg, Dm
  <2>3. \/ outbox' = outbox
        \/ /\ outbox' = [outbox EXCEPT ![n] = Append(@, m)] /\ log' = log
           /\ cj' = [cj EXCEPT ![n] = AddOutput(@, AddrOf[n])]
    BY <1>6, <2>1 DEF RegisterOutput
  <2> QED BY <1>6, <2>2, <2>3 DEF QueuedBy
<1>7. ASSUME NEW n \in Node, RegisterInput(n)
      PROVE  outbox' = outbox \/ \E m \in Msg : /\ outbox' = [outbox EXCEPT ![n] = Append(@, m)]
                                                /\ log' = log /\ QueuedBy(n, m)
  <2>1. CASE n \in input /\ SendThenGoto(n, Input(SignedInput(n)), "Inputs")
    <3>1. SignedInput(n) \in Signed
      BY <1>7, <2>1, SignedInputType DEF IInv, TypeOK, NodesInv, NodeInv, RegisterInput
    <3>2. PICK m \in Msg : m = Input(SignedInput(n))
      BY <3>1 DEF Input, Msg, Dm
    <3>3. m.type = "Input" /\ m.input = SignedInput(n)
      BY <3>2 DEF Input
    <3> QED BY <1>7, <2>1, <3>2, <3>3 DEF QueuedBy, SendThenGoto, RegisterInput
  <2>2. CASE UNCHANGED outbox
    BY <2>2
  <2> QED BY <1>7, <2>1, <2>2 DEF RegisterInput
<1>8. ASSUME NEW n \in Node, NEW k \in unread[n], RegisterPeer(n, k)
      PROVE  outbox' = outbox \/ \E m \in Msg : /\ outbox' = [outbox EXCEPT ![n] = Append(@, m)]
                                                /\ log' = log /\ QueuedBy(n, m)
  <2>1. log[k] \in Dm /\ log[k].type = "Join"
    BY <1>8, ConsumeType DEF TypeOK, IInv, RegisterPeer, InPeers
  <2>2. PICK m \in Msg : m = Credentials(log[k].npub)
    BY <2>1 DEF Credentials, Msg, Dm
  <2>3. m.type = "Credentials"
    BY <2>2 DEF Credentials
  <2> QED BY <1>8, <2>2, <2>3 DEF QueuedBy, RegisterPeer, SendThenGoto
<1>9. ASSUME NEW d \in Conn, Transmit(d)
      PROVE  outbox'[c] = outbox[c] \/ (c = d /\ outbox[c] # << >> /\ outbox'[c] = Tail(outbox[c]))
  BY <1>0, <1>9 DEF Transmit
<1>10. CASE \E n \in Node : \/ JoinPool(n) \/ RegisterOutput(n) \/ RegisterInput(n)
                            \/ \E k \in unread[n] : RegisterPeer(n, k)
  BY <1>0, <1>1, <1>2, <1>5, <1>6, <1>7, <1>8, <1>10
<1>11. CASE \E d \in Conn : Transmit(d)
  BY <1>9, <1>11
<1> QED BY <1>1, <1>3, <1>4, <1>10, <1>11, OutboxChange

\* A channel that grows keeps what is in it in place.
LEMMA ChannelAppend ==
  ASSUME TypeOK, NEW c \in Conn, NEW m \in Msg, outbox'[c] = Append(outbox[c], m)
  PROVE  /\ Len(outbox[c]) \in Nat /\ Len(outbox'[c]) = Len(outbox[c]) + 1
         /\ DOMAIN outbox[c] = 1..Len(outbox[c]) /\ DOMAIN outbox'[c] = 1..(Len(outbox[c]) + 1)
         /\ outbox'[c][Len(outbox[c]) + 1] = m
         /\ \A k \in DOMAIN outbox[c] : outbox'[c][k] = outbox[c][k]
<1> DEFINE q == outbox[c]
<1>1. q \in Seq(Msg)
  BY DEF TypeOK, DataOK
<1>2. /\ Append(q, m) \in Seq(Msg) /\ Len(Append(q, m)) = Len(q) + 1
      /\ \A k \in 1..Len(q) : Append(q, m)[k] = q[k]
      /\ Append(q, m)[Len(q) + 1] = m
  BY <1>1, AppendProperties
<1>3. Len(q) \in Nat /\ DOMAIN q = 1..Len(q) /\ DOMAIN Append(q, m) = 1..(Len(q) + 1)
  BY <1>1, <1>2, LenProperties
<1> QED BY <1>2, <1>3

\* A channel whose head is sent moves up.
LEMMA ChannelTail ==
  ASSUME TypeOK, NEW c \in Conn, outbox[c] # << >>, outbox'[c] = Tail(outbox[c])
  PROVE  /\ Len(outbox[c]) \in Nat /\ Len(outbox[c]) = Len(outbox'[c]) + 1
         /\ DOMAIN outbox[c] = 1..Len(outbox[c]) /\ DOMAIN outbox'[c] = 1..Len(outbox'[c])
         /\ Len(outbox'[c]) \in Nat
         /\ \A k \in DOMAIN outbox'[c] : /\ k \in Nat /\ k + 1 \in DOMAIN outbox[c]
                                         /\ outbox'[c][k] = outbox[c][k + 1]
<1> DEFINE q == outbox[c]
<1>1. q \in Seq(Msg) /\ q # << >>
  BY DEF TypeOK, DataOK
<1>2. /\ Tail(q) \in Seq(Msg) /\ Len(Tail(q)) = Len(q) - 1
      /\ \A i \in 1..Len(Tail(q)) : Tail(q)[i] = q[i + 1]
  BY <1>1, HeadTailProperties
<1>3. /\ Len(q) \in Nat /\ DOMAIN q = 1..Len(q)
      /\ Len(Tail(q)) \in Nat /\ DOMAIN Tail(q) = 1..Len(Tail(q))
  BY <1>1, <1>2, LenProperties
<1> QED BY <1>2, <1>3

\* What will be stored before a message still will be, wherever the message moves:
\* a connection whose writes do not fail stores all that is queued before it.
LEMMA SentStays ==
  ASSUME IInv, [Next]_vars, NEW c \in Conn, link[c] = "up"
  PROVE  /\ outbox'[c] = outbox[c] \/ (\E m \in Msg : outbox'[c] = Append(outbox[c], m)) =>
              \A k \in Nat : SentBefore(c, k) \subseteq SentBefore(c, k)'
         /\ Transmit(c) /\ outbox[c] # << >> /\ outbox'[c] = Tail(outbox[c]) =>
              \A k \in Nat : SentBefore(c, k + 1) \subseteq SentBefore(c, k)'
<1>0. TypeOK /\ DataOK
  BY DEF IInv, TypeOK
<1>1. RegisteredBefore(NextEntry) \subseteq RegisteredBefore(NextEntry)'
  BY <1>0, BeforeStays
<1>2. ASSUME outbox'[c] = outbox[c] \/ (\E m \in Msg : outbox'[c] = Append(outbox[c], m)), NEW k \in Nat
      PROVE  SentBefore(c, k) \subseteq SentBefore(c, k)'
  <2>1. \A j \in DOMAIN outbox[c] : j \in DOMAIN outbox'[c] /\ outbox'[c][j] = outbox[c][j]
    <3>1. CASE outbox'[c] = outbox[c]
      BY <3>1
    <3>2. ASSUME NEW m \in Msg, outbox'[c] = Append(outbox[c], m)
          PROVE  \A j \in DOMAIN outbox[c] : j \in DOMAIN outbox'[c] /\ outbox'[c][j] = outbox[c][j]
      BY <1>0, <3>2, ChannelAppend
    <3> QED BY <1>2, <3>1, <3>2
  <2>2. QueuedBefore(c, k) \subseteq QueuedBefore(c, k)'
    BY <2>1 DEF QueuedBefore
  <2> QED BY <1>1, <2>2 DEF SentBefore
<1>3. ASSUME Transmit(c), outbox[c] # << >>, outbox'[c] = Tail(outbox[c]), NEW k \in Nat,
             NEW a \in SentBefore(c, k + 1)
      PROVE  a \in SentBefore(c, k)'
  <2>1. CASE a \in RegisteredBefore(NextEntry)
    BY <1>1, <2>1 DEF SentBefore
  <2>2. CASE c \notin Faulty /\ a \in QueuedBefore(c, k + 1)
    <3>1. PICK j \in DOMAIN outbox[c] :
            /\ a \in Address /\ j < k + 1 /\ outbox[c][j].type = "Output" /\ outbox[c][j].addr = a
      BY <2>2 DEF QueuedBefore
    <3>2. /\ DOMAIN outbox[c] = 1..Len(outbox[c]) /\ Len(outbox[c]) \in Nat
          /\ DOMAIN outbox'[c] = 1..Len(outbox'[c]) /\ Len(outbox[c]) = Len(outbox'[c]) + 1
          /\ Len(outbox'[c]) \in Nat
          /\ \A i \in DOMAIN outbox'[c] : outbox'[c][i] = outbox[c][i + 1]
      BY <1>0, <1>3, ChannelTail
    <3>3. CASE j = 1
      <4> PICK m \in Msg : m = outbox[c][1]
        BY <1>0, <3>1, <3>3, ElementOfSeq, LenProperties DEF TypeOK, DataOK
      <4>1. m.type = "Output" /\ m.addr = a
        BY <3>1, <3>3
      <4>2. Head(outbox[c]) = m
        BY <1>0, <1>3, TransmitEffect DEF TypeOK
      <4>3. log' = Append(log, m)
        BY <1>3, <2>2, <4>1, <4>2 DEF Transmit, Stores
      <4>4. log' \in Seq(Dm) /\ log \in Seq(Dm)
        BY <1>0, <1>3, TransmitEffect DEF TypeOK, DataOK
      <4>5. m \in Dm
        BY <4>1 DEF Msg
      <4>6. Len(log) \in Nat /\ Len(log') = Len(log) + 1 /\ log'[Len(log) + 1] = m
        BY <4>3, <4>4, <4>5, AppendProperties, LenProperties
      <4>7. Len(log) + 1 \in DOMAIN log' /\ Len(log) + 1 < Len(log') + 1
        BY <4>4, <4>6, LenProperties
      <4>8. a \in RegisteredBefore(NextEntry)'
        BY <3>1, <4>1, <4>6, <4>7 DEF RegisteredBefore, NextEntry
      <4> QED BY <4>8 DEF SentBefore
    <3>4. CASE j # 1
      <4>1. j - 1 \in DOMAIN outbox'[c] /\ j - 1 < k /\ (j - 1) + 1 = j
        BY <3>1, <3>2, <3>4
      <4>3. outbox'[c][j - 1] = outbox[c][j]
        BY <3>2, <4>1
      <4>2. a \in QueuedBefore(c, k)'
        BY <3>1, <4>1, <4>3 DEF QueuedBefore
      <4> QED BY <2>2, <4>2 DEF SentBefore
    <3> QED BY <3>3, <3>4
  <2> QED BY <1>3, <2>1, <2>2 DEF SentBefore
<1> QED BY <1>2, <1>3

-----------------------------------------------------------------------------
(* The order of the messages                                               *)

\* A message stays caused when more is stored before it.
LEMMA CausedStays ==
  ASSUME TypeOK, TypeOK', [Next]_vars, NEW m, NEW A, NEW B, NEW S, NEW T,
         Caused(m, A, S), A \subseteq B, S \subseteq T, IsFiniteSet(T)
  PROVE  Caused(m, B, T)'
<1>1. clock <= clock' /\ clock' \in Nat
  BY ClockAndLink DEF TypeOK, DataOK
<1>2. PeersOver(S) => PeersOver(T)'
  BY <1>1, OverStays DEF TypeOK
<1> QED BY <1>2 DEF Caused, PeersOver

\* The three parts of OrderInv.
LogOrder   == \A k \in DOMAIN log : Caused(log[k], RegisteredBefore(k), JoinedBefore(k))
QueueOrder ==
  \A c \in Conn : link[c] = "up" => \A k \in DOMAIN outbox[c] :
    Caused(outbox[c][k], SentBefore(c, k), JoinedBefore(NextEntry))
Knows(n) ==
  /\ peers[n] \subseteq JoinedBefore(NextEntry)
  /\ pc[n] = "SendOutput" => PeersOver(peers[n])
  /\ link[n] = "up" => cj[n].outputs \subseteq SentBefore(n, Len(outbox[n]) + 1) \cup MayLack(n)

LEMMA OrderParts == OrderInv <=> LogOrder /\ QueueOrder /\ \A n \in Node : Knows(n)
BY DEF OrderInv, LogOrder, QueueOrder, Knows

LEMMA LogOrderNext ==
  ASSUME IInv, IInv', LogOrder, QueueOrder, [Next]_vars
  PROVE  LogOrder'
<1>0. TypeOK /\ TypeOK' /\ DataOK
  BY DEF IInv, TypeOK
<1>1. /\ NextEntry \in Nat /\ DOMAIN log = 1..Len(log) /\ Len(log) \in Nat
      /\ DOMAIN log' = 1..Len(log') /\ Len(log') \in Nat /\ Len(log) <= Len(log')
      /\ \A j \in DOMAIN log : j \in DOMAIN log' /\ log'[j] = log[j]
      /\ \A j \in DOMAIN log' : j \in DOMAIN log \/ j = NextEntry
  BY <1>0, LogGrows
<1>2. \A k \in Nat : k <= NextEntry =>
        RegisteredBefore(k)' = RegisteredBefore(k) /\ JoinedBefore(k)' = JoinedBefore(k)
  BY <1>0, BeforeStays
<1>3. \A k : IsFiniteSet(JoinedBefore(k))
  BY <1>0, JoinedFinite DEF TypeOK, DataOK, JoinedBefore
<1> SUFFICES ASSUME NEW k \in DOMAIN log'
             PROVE  Caused(log[k], RegisteredBefore(k), JoinedBefore(k))'
  BY DEF LogOrder
<1> PICK m : m = log'[k]
  OBVIOUS
<1> PICK A : A = RegisteredBefore(k)
  OBVIOUS
<1> PICK S : S = JoinedBefore(k)
  OBVIOUS
<1>4. A = RegisteredBefore(k)' /\ S = JoinedBefore(k)' /\ IsFiniteSet(S)
  <2>1. k \in Nat /\ k <= NextEntry
    BY <1>1 DEF NextEntry
  <2> QED BY <1>2, <1>3, <2>1
<1>5. Caused(m, A, S)
  <2>1. CASE k \in DOMAIN log
    BY <1>1, <2>1 DEF LogOrder
  <2>2. CASE k \notin DOMAIN log
    <3>1. k = NextEntry /\ log' # log
      BY <1>1, <2>2
    <3>2. PICK c \in Conn : /\ link[c] = "up" /\ 1 \in DOMAIN outbox[c]
                            /\ outbox[c][1] \in Dm /\ log' = Append(log, outbox[c][1])
      BY <1>0, <3>1, LogStep
    <3>3. m = outbox[c][1]
      BY <1>0, <3>1, <3>2, AppendProperties DEF NextEntry, TypeOK, DataOK
    <3>4. SentBefore(c, 1) = A
      <4>1. QueuedBefore(c, 1) = {}
        BY <1>0, LenProperties DEF QueuedBefore, TypeOK, DataOK
      <4> QED BY <3>1, <4>1 DEF SentBefore
    <3> QED BY <3>1, <3>2, <3>3, <3>4 DEF QueueOrder
  <2> QED BY <2>1, <2>2
<1>6. Caused(m, A, S)'
  BY <1>0, <1>4, <1>5, CausedStays
<1> QED BY <1>4, <1>6

LEMMA QueueOrderNext ==
  ASSUME IInv, IInv', QueueOrder, \A n \in Node : Knows(n), [Next]_vars
  PROVE  QueueOrder'
<1>0. TypeOK /\ TypeOK' /\ DataOK /\ Node \subseteq Conn
  BY DEF IInv, TypeOK, Conn
<1> PICK J : J = JoinedBefore(NextEntry)'
  OBVIOUS
<1>1. IsFiniteSet(J) /\ JoinedBefore(NextEntry) \subseteq J /\ IsFiniteSet(JoinedBefore(NextEntry))
  <2>1. JoinedBefore(NextEntry) \subseteq JoinedBefore(NextEntry)'
    BY <1>0, BeforeStays
  <2>2. \A k : IsFiniteSet(JoinedBefore(k)) /\ IsFiniteSet(JoinedBefore(k)')
    BY <1>0, JoinedFinite DEF TypeOK, DataOK, JoinedBefore
  <2> QED BY <2>1, <2>2 DEF JoinedBefore
<1>2. ASSUME NEW c \in Conn, link'[c] = "up", NEW k \in DOMAIN outbox'[c]
      PROVE  Caused(outbox[c][k], SentBefore(c, k), JoinedBefore(NextEntry))'
  <2>0. link[c] = "up" /\ k \in Nat
    <3>1. outbox'[c] \in Seq(Msg)
      BY <1>0 DEF TypeOK, DataOK
    <3>2. k \in Nat
      BY <1>2, <3>1, LenProperties
    <3> QED BY <1>0, <1>2, <3>2, ClockAndLink
  <2> PICK m : m = outbox'[c][k]
    OBVIOUS
  <2> PICK B : B = SentBefore(c, k)'
    OBVIOUS
  <2>1. ASSUME NEW A, A \subseteq B, Caused(m, A, JoinedBefore(NextEntry))
        PROVE  Caused(m, B, J)'
    BY <1>0, <1>1, <2>1, CausedStays
  <2>2. ASSUME NEW A, A \subseteq B, Caused(m, A, JoinedBefore(NextEntry))
        PROVE  Caused(outbox[c][k], SentBefore(c, k), JoinedBefore(NextEntry))'
    BY <2>1, <2>2
  <2>3. CASE outbox'[c] = outbox[c]
    <3>1. SentBefore(c, k) \subseteq B
      BY <2>0, <2>3, SentStays
    <3>2. Caused(m, SentBefore(c, k), JoinedBefore(NextEntry))
      BY <2>0, <2>3 DEF QueueOrder
    <3> QED BY <2>2, <3>1, <3>2
  <2>4. ASSUME NEW x \in Msg, outbox'[c] = Append(outbox[c], x), log' = log, QueuedBy(c, x)
        PROVE  Caused(outbox[c][k], SentBefore(c, k), JoinedBefore(NextEntry))'
    <3>1. SentBefore(c, k) \subseteq B
      BY <2>0, <2>4, SentStays
    <3>2. /\ Len(outbox[c]) \in Nat /\ DOMAIN outbox[c] = 1..Len(outbox[c])
          /\ DOMAIN outbox'[c] = 1..(Len(outbox[c]) + 1)
          /\ outbox'[c][Len(outbox[c]) + 1] = x
          /\ \A j \in DOMAIN outbox[c] : outbox'[c][j] = outbox[c][j]
      BY <1>0, <2>4, ChannelAppend
    <3>3. CASE k \in DOMAIN outbox[c]
      <4>1. Caused(m, SentBefore(c, k), JoinedBefore(NextEntry))
        BY <2>0, <3>2, <3>3 DEF QueueOrder
      <4> QED BY <2>2, <3>1, <4>1
    <3>4. CASE k \notin DOMAIN outbox[c]
      <4>1. k = Len(outbox[c]) + 1 /\ m = x
        BY <1>2, <3>2, <3>4
      <4>2. Caused(m, SentBefore(c, k), JoinedBefore(NextEntry))
        <5>1. CASE m.type \notin {"Output", "Input"}
          BY <5>1 DEF Caused
        <5>2. CASE c \in Node /\ RegisterOutput(c) /\ m.type = "Output"
          <6>1. PeersOver(peers[c]) /\ peers[c] \subseteq JoinedBefore(NextEntry)
            BY <5>2 DEF RegisterOutput, Knows
          <6>2. PeersOver(JoinedBefore(NextEntry))
            BY <1>0, <1>1, <6>1, ClockAndLink, OverStays DEF TypeOK, DataOK
          <6> QED BY <5>2, <6>2 DEF Caused
        <5>3. CASE /\ c \in Node /\ RegisterInput(c) /\ m.type = "Input"
                   /\ m.input = SignedInput(c) /\ c \in input
          <6>1. cj[c].psbt = {cj[c].outputs}
            BY <5>3, RoundAssumption DEF IInv, NodesInv, NodeInv, OwnInv, RegisterInput
          <6>2. m.input.over = cj[c].outputs /\ m.input.coin = c
            BY <5>3, <6>1 DEF SignedInput, Template
          <6>3. cj[c].outputs \subseteq SentBefore(c, k) \cup MayLack(c)
            BY <2>0, <4>1, <5>3 DEF Knows
          <6> QED BY <5>3, <6>2, <6>3 DEF Caused
        <5> QED BY <2>4, <4>1, <5>1, <5>2, <5>3 DEF QueuedBy
      <4> QED BY <2>2, <3>1, <4>2
    <3> QED BY <3>3, <3>4
  <2>5. CASE Transmit(c) /\ outbox[c] # << >> /\ outbox'[c] = Tail(outbox[c])
    <3>1. SentBefore(c, k + 1) \subseteq B
      BY <2>0, <2>5, SentStays
    <3>2. k + 1 \in DOMAIN outbox[c] /\ m = outbox[c][k + 1]
      BY <1>0, <1>2, <2>5, ChannelTail
    <3>3. Caused(m, SentBefore(c, k + 1), JoinedBefore(NextEntry))
      BY <2>0, <3>2 DEF QueueOrder
    <3> QED BY <2>2, <3>1, <3>3
  <2> QED BY <2>3, <2>4, <2>5, ChannelStep
<1> QED BY <1>2 DEF QueueOrder

\* The steps by which a node comes to its outputs.
LEMMA OutputsStep ==
  ASSUME DataOK, [Next]_vars, NEW n \in Node
  PROVE  \/ cj'[n].outputs = cj[n].outputs
         \/ RegisterOutput(n) /\ n \in WithOutput /\ cj'[n].outputs = cj[n].outputs \cup {AddrOf[n]}
         \/ \E k \in unread[n] : ReceiveOutput(n, k) /\ cj'[n].outputs = cj[n].outputs \cup {log[k].addr}
<1> USE DEF nodeVars, relayVars
<1>0. cj \in [Node -> CJ]
  BY DEF DataOK
<1>1. CASE cj' = cj
  BY <1>1
<1>2. ASSUME NEW p \in Node, RegisterOutput(p)
      PROVE  \/ cj'[n].outputs = cj[n].outputs
             \/ p = n /\ n \in WithOutput /\ cj'[n].outputs = cj[n].outputs \cup {AddrOf[n]}
  <2>1. cj' = cj \/ (p \in WithOutput /\ cj' = [cj EXCEPT ![p] = AddOutput(@, AddrOf[p])])
    BY <1>2 DEF RegisterOutput
  <2>2. AddOutput(cj[p], AddrOf[p]).outputs = cj[p].outputs \cup {AddrOf[p]}
    BY <1>0, AddOutputType, RoundAssumption
  <2> QED BY <1>0, <2>1, <2>2
<1>3. ASSUME NEW p \in Node, LeaveOutputs(p) PROVE cj'[n].outputs = cj[n].outputs
  <2>1. cj' = cj \/ cj' = [cj EXCEPT ![p] = GeneratePsbt(@)]
    BY <1>3 DEF LeaveOutputs
  <2> QED BY <1>0, <2>1, GeneratePsbtType
<1>4. ASSUME NEW p \in Node, NEW k \in unread[p], ReceiveOutput(p, k)
      PROVE  \/ cj'[n].outputs = cj[n].outputs
             \/ p = n /\ cj'[n].outputs = cj[n].outputs \cup {log[k].addr}
  <2>1. log[k].addr \in Address
    <3>1. log[k] \in Dm /\ log[k].type = "Output"
      BY <1>4, ConsumeType DEF TypeOK, IInv, ReceiveOutput, InOutputs
    <3> QED BY <3>1 DEF Dm
  <2>2. cj' = cj \/ cj' = [cj EXCEPT ![p] = AddOutput(@, log[k].addr)]
    BY <1>4 DEF ReceiveOutput
  <2>3. AddOutput(cj[p], log[k].addr).outputs = cj[p].outputs \cup {log[k].addr}
    BY <1>0, <2>1, AddOutputType
  <2> QED BY <1>0, <2>2, <2>3
<1>5. ASSUME NEW p \in Node, NEW k \in unread[p], ReceiveInput(p, k)
      PROVE  cj'[n].outputs = cj[n].outputs
  <2> DEFINE x == log[k].input
             c == IF AddInputResult(cj[p], {}, 0, x) = "ok" THEN AddInput(cj[p], x) ELSE cj[p]
  <2>1. log[k] \in Dm /\ log[k].type = "Input"
    BY <1>5, ConsumeType DEF TypeOK, IInv, ReceiveInput, InInputs
  <2>2. x \in Signed
    BY <2>1 DEF Dm
  <2>3. c \in CJ /\ c.outputs = cj[p].outputs
    BY <1>0, <2>2, AddInputType
  <2>4. cj' = [cj EXCEPT ![p] = TryFinalize(c)]
    BY <1>5 DEF ReceiveInput
  <2>5. TryFinalize(c).outputs = cj[p].outputs
    BY <2>3, TryFinalizeType
  <2> QED BY <1>0, <2>4, <2>5
<1>6. ASSUME NEW p \in Node, \/ RegisterOutput(p) \/ LeaveOutputs(p)
                             \/ \E k \in unread[p] : ReceiveOutput(p, k) \/ ReceiveInput(p, k)
      PROVE  \/ cj'[n].outputs = cj[n].outputs
             \/ RegisterOutput(n) /\ n \in WithOutput /\ cj'[n].outputs = cj[n].outputs \cup {AddrOf[n]}
             \/ \E k \in unread[n] : ReceiveOutput(n, k) /\ cj'[n].outputs = cj[n].outputs \cup {log[k].addr}
  BY <1>2, <1>3, <1>4, <1>5, <1>6
<1> QED BY <1>1, <1>6, CoinJoinChange

\* What the others do leaves a node where it is; time only catches it in a loop
\* whose deadline passes.
Still(n) ==
  /\ pc'[n] = pc[n] /\ peers'[n] = peers[n] /\ cj'[n] = cj[n]
  /\ pc[n] = "Peers" /\ clock >= StartAt /\ n \notin late => n \notin late'

LEMMA OtherStill ==
  ASSUME DataOK, DOMAIN pc = Node, [Next]_vars, NEW n \in Node
  PROVE  Still(n) \/ Step(n) \/ (n = Initiator /\ (Post \/ SendDummy))
<1> USE DEF nodeVars, relayVars, Goto, Fail
<1>0. /\ DOMAIN pc = Node /\ peers \in [Node -> SUBSET Conn] /\ cj \in [Node -> CJ]
      /\ Initiator \in Node
  BY RoundAssumption DEF DataOK
<1>1. ASSUME NEW p \in Node, p # n, \/ JoinPool(p) \/ ReceiveCredentials(p) \/ AbortJoin(p)
                                    \/ JoinTimeout(p) \/ EmptyPoll(p) \/ LeavePeers(p)
      PROVE  Still(n)
  BY <1>0, <1>1 DEF Still, JoinPool, ReceiveCredentials, AbortJoin, JoinTimeout, EmptyPoll, LeavePeers,
                    SendThenGoto
<1>2. ASSUME NEW p \in Node, p # n, NEW k, RegisterPeer(p, k) PROVE Still(n)
  BY <1>0, <1>2 DEF Still, RegisterPeer, InPeers, Consume, SendThenGoto
<1>3. ASSUME NEW p \in Node, p # n, NEW k, \/ DropInPeers(p, k) \/ ReceiveOutput(p, k)
                                           \/ ReceiveEarlyInput(p, k) \/ DropInOutputs(p, k)
      PROVE  Still(n)
  BY <1>0, <1>3 DEF Still, DropInPeers, InPeers, ReceiveOutput, ReceiveEarlyInput, DropInOutputs,
                    InOutputs, Consume
<1>4. ASSUME NEW p \in Node, p # n, NEW k, ReceiveInput(p, k) \/ DropInInputs(p, k)
      PROVE  Still(n)
  BY <1>0, <1>4 DEF Still, ReceiveInput, DropInInputs, InInputs, Consume
<1>5. ASSUME NEW p \in Node, p # n, RegisterOutput(p) \/ LeaveOutputs(p)
      PROVE  Still(n)
  BY <1>0, <1>5 DEF Still, RegisterOutput, LeaveOutputs
<1>6. ASSUME NEW p \in Node, p # n, RegisterInput(p)
      PROVE  Still(n)
  BY <1>0, <1>6 DEF Still, RegisterInput, SendThenGoto
<1>7. ASSUME NEW p \in Node, p # n, LeaveInputs(p) \/ BroadcastFails(p) \/ BroadcastTx(p)
      PROVE  Still(n)
  BY <1>0, <1>7 DEF Still, LeaveInputs, BroadcastFails, BroadcastTx
<1>8. ASSUME NEW p \in Node, p # n, Step(p) PROVE Still(n)
  BY <1>1, <1>2, <1>3, <1>4, <1>5, <1>6, <1>7, <1>8 DEF Step, Receive
<1>9. CASE n # Initiator /\ (Post \/ SendDummy)
  BY <1>0, <1>9 DEF Still, Post, SendDummy, SendThenGoto
<1>10. CASE (\E c \in Conn : Transmit(c) \/ LinkDies(c) \/ ListenStops(c)) \/ UNCHANGED vars
  BY <1>10 DEF Still, Transmit, LinkDies, ListenStops, vars
<1>11. CASE Tick
  <2>1. UNCHANGED <<pc, peers, cj>>
    BY <1>11 DEF Tick
  <2>2. ASSUME pc[n] = "Peers", clock >= StartAt, n \notin late, n \in late' PROVE FALSE
    <3>1. PICK d \in LoopDeadline(n) : clock < d
      BY <1>11, <2>2 DEF Tick
    <3>2. d = StartAt
      BY <2>2, <3>1 DEF LoopDeadline
    <3> QED BY <2>2, <3>1, <3>2, RoundAssumption DEF DataOK, StartAt
  <2> QED BY <2>1, <2>2 DEF Still
<1> QED BY <1>8, <1>9, <1>10, <1>11 DEF Next

\* A node comes to send its output from LeavePeers only.
LEMMA SetsOut ==
  ASSUME TypeOK, NEW n \in Node, Step(n), pc'[n] = "SendOutput"
  PROVE  (LeavePeers(n) \/ pc[n] = "SendOutput") /\ peers'[n] = peers[n]
<1> USE DEF nodeVars, relayVars, Goto, Fail, SendThenGoto
<1>0. pc \in [Node -> PCs]
  BY DEF TypeOK, DataOK, PCs
<1>1. CASE JoinPool(n) \/ ReceiveCredentials(n) \/ AbortJoin(n) \/ JoinTimeout(n)
  BY <1>0, <1>1 DEF JoinPool, ReceiveCredentials, AbortJoin, JoinTimeout
<1>2. ASSUME NEW k, \/ RegisterPeer(n, k) \/ DropInPeers(n, k) \/ ReceiveOutput(n, k)
                    \/ ReceiveEarlyInput(n, k) \/ DropInOutputs(n, k)
      PROVE  FALSE
  BY <1>0, <1>2 DEF RegisterPeer, InPeers, DropInPeers, ReceiveOutput, ReceiveEarlyInput,
                    DropInOutputs, InOutputs
<1>3. ASSUME NEW k, ReceiveInput(n, k) \/ DropInInputs(n, k) PROVE FALSE
  BY <1>0, <1>3 DEF ReceiveInput, DropInInputs, InInputs
<1>4. CASE EmptyPoll(n) \/ LeavePeers(n)
  BY <1>0, <1>4 DEF EmptyPoll, LeavePeers
<1>5. CASE RegisterOutput(n) \/ LeaveOutputs(n)
  BY <1>0, <1>5 DEF RegisterOutput, LeaveOutputs
<1>6. CASE RegisterInput(n) \/ LeaveInputs(n) \/ BroadcastFails(n) \/ BroadcastTx(n)
  BY <1>0, <1>6 DEF RegisterInput, LeaveInputs, BroadcastFails, BroadcastTx
<1> QED BY <1>1, <1>2, <1>3, <1>4, <1>5, <1>6 DEF Step, Receive

LEMMA KnowsNext ==
  ASSUME IInv, IInv', \A n \in Node : Knows(n), [Next]_vars, NEW n \in Node
  PROVE  Knows(n)'
<1> USE DEF nodeVars, relayVars
<1>0. TypeOK /\ TypeOK' /\ DataOK /\ DOMAIN pc = Node /\ n \in Conn /\ Knows(n)
  BY DEF IInv, TypeOK, Conn
<1>1. JoinedBefore(NextEntry) \subseteq JoinedBefore(NextEntry)'
  BY <1>0, BeforeStays
<1>2. peers'[n] \subseteq JoinedBefore(NextEntry)'
  <2>1. ASSUME NEW p \in Node, NEW k \in unread[p], RegisterPeer(p, k)
        PROVE  peers'[n] \subseteq JoinedBefore(NextEntry)
    <3>1. k \in DOMAIN log /\ log[k] \in Dm /\ log[k].type = "Join"
      BY <1>0, <2>1, ConsumeType DEF TypeOK, RegisterPeer, InPeers
    <3>2. log[k].npub \in Conn
      BY <3>1 DEF Dm
    <3>3. k < NextEntry
      <4>1. log \in Seq(Dm)
        BY <1>0 DEF TypeOK, DataOK
      <4> QED BY <3>1, <4>1, LenProperties DEF NextEntry
    <3>4. log[k].npub \in JoinedBefore(NextEntry)
      BY <3>1, <3>2, <3>3 DEF JoinedBefore
    <3>5. peers' = peers \/ peers' = [peers EXCEPT ![p] = @ \cup {log[k].npub}]
      BY <2>1 DEF RegisterPeer
    <3>6. peers'[n] \subseteq peers[n] \cup {log[k].npub}
      BY <1>0, <3>5 DEF TypeOK, DataOK
    <3> QED BY <1>0, <3>4, <3>6 DEF Knows
  <2> QED BY <1>0, <1>1, <2>1, PeersChange DEF Knows
<1>3. pc'[n] = "SendOutput" => PeersOver(peers[n])'
  <2>1. ASSUME pc'[n] = "SendOutput"
        PROVE  peers'[n] = peers[n] /\ (pc[n] = "SendOutput" \/ LeavePeers(n))
    <3>1. CASE Still(n)
      BY <2>1, <3>1 DEF Still
    <3>2. CASE Step(n)
      BY <1>0, <2>1, <3>2, SetsOut
    <3>3. CASE n = Initiator /\ (Post \/ SendDummy)
      BY <1>0, <2>1, <3>3 DEF Post, SendDummy, SendThenGoto, Goto, Fail, TypeOK, DataOK
    <3> QED BY <1>0, <3>1, <3>2, <3>3, OtherStill
  <2>2. ASSUME LeavePeers(n) PROVE PeersOver(peers[n])
    BY <2>2 DEF LeavePeers, After, EnoughPeers, PeersOver
  <2>3. IsFiniteSet(peers[n])
    <3>1. IsFiniteSet(JoinedBefore(NextEntry))
      BY <1>0, JoinedFinite DEF TypeOK, DataOK, JoinedBefore
    <3> QED BY <1>0, <3>1, FS_Subset DEF Knows
  <2>4. ASSUME PeersOver(peers[n]), peers'[n] = peers[n] PROVE PeersOver(peers[n])'
    <3> PICK S : S = peers[n]
      OBVIOUS
    <3>1. PeersOver(S)'
      BY <1>0, <2>3, <2>4, ClockAndLink, OverStays DEF TypeOK, DataOK
    <3> QED BY <2>4, <3>1
  <2> QED BY <1>0, <2>1, <2>2, <2>4 DEF Knows
<1>4. ASSUME link'[n] = "up" PROVE cj'[n].outputs \subseteq SentBefore(n, Len(outbox[n]) + 1)' \cup MayLack(n)
  <2>0. link[n] = "up" /\ cj[n].outputs \subseteq SentBefore(n, Len(outbox[n]) + 1) \cup MayLack(n)
    BY <1>0, <1>4, ClockAndLink DEF Knows
  <2>1. Len(outbox[n]) \in Nat
    BY <1>0, LenProperties DEF TypeOK, DataOK
  <2>2. cj[n].outputs \subseteq SentBefore(n, Len(outbox[n]) + 1)' \cup MayLack(n)
    <3>1. CASE outbox'[n] = outbox[n]
      BY <1>0, <2>0, <2>1, <3>1, SentStays
    <3>2. ASSUME NEW m \in Msg, outbox'[n] = Append(outbox[n], m)
          PROVE  cj[n].outputs \subseteq SentBefore(n, Len(outbox[n]) + 1)' \cup MayLack(n)
      <4>1. Len(outbox'[n]) = Len(outbox[n]) + 1
        BY <1>0, <3>2, ChannelAppend
      <4>2. SentBefore(n, Len(outbox[n]) + 1) \subseteq SentBefore(n, Len(outbox'[n]) + 1)
        BY <2>1, <4>1 DEF SentBefore, QueuedBefore
      <4>3. \A k \in Nat : SentBefore(n, k) \subseteq SentBefore(n, k)'
        BY <1>0, <2>0, <3>2, SentStays
      <4> PICK k \in Nat : k = Len(outbox'[n]) + 1
        BY <2>1, <4>1
      <4> QED BY <2>0, <4>2, <4>3
    <3>3. CASE Transmit(n) /\ outbox[n] # << >> /\ outbox'[n] = Tail(outbox[n])
      <4>1. Len(outbox'[n]) + 1 = Len(outbox[n]) /\ Len(outbox'[n]) \in Nat
        BY <1>0, <3>3, ChannelTail
      <4>2. \A k \in Nat : SentBefore(n, k + 1) \subseteq SentBefore(n, k)'
        BY <1>0, <2>0, <3>3, SentStays
      <4> PICK k \in Nat : k = Len(outbox'[n]) + 1
        BY <4>1
      <4>3. SentBefore(n, k + 1) \subseteq SentBefore(n, k)' /\ k + 1 = Len(outbox[n]) + 1
        BY <4>1, <4>2
      <4> QED BY <2>0, <4>3
    <3> QED BY <1>0, <3>1, <3>2, <3>3, ChannelStep
  <2>3. ASSUME RegisterOutput(n), n \in WithOutput, cj'[n].outputs = cj[n].outputs \cup {AddrOf[n]}
        PROVE  AddrOf[n] \in SentBefore(n, Len(outbox[n]) + 1)' \cup MayLack(n)
    <3>1. PICK m : m = Output(AddrOf[n])
      OBVIOUS
    <3>2. m \in Msg /\ m.type = "Output" /\ m.addr = AddrOf[n] /\ AddrOf[n] \in Address
      BY <3>1, RoundAssumption DEF Output, Msg, Dm
    <3>3. outbox' = [outbox EXCEPT ![n] = Append(@, m)]
      BY <2>0, <2>3, <3>1 DEF RegisterOutput, CanSend
    <3>4. outbox'[n] = Append(outbox[n], m)
      BY <1>0, <3>3 DEF TypeOK, DataOK
    <3>5. /\ Len(outbox'[n]) = Len(outbox[n]) + 1 /\ DOMAIN outbox'[n] = 1..(Len(outbox[n]) + 1)
          /\ outbox'[n][Len(outbox[n]) + 1] = m
      BY <1>0, <3>2, <3>4, ChannelAppend
    <3>6. Len(outbox[n]) + 1 \in DOMAIN outbox'[n] /\ Len(outbox[n]) + 1 < Len(outbox'[n]) + 1
      BY <2>1, <3>5
    <3>7. AddrOf[n] \in QueuedBefore(n, Len(outbox[n]) + 1)'
      BY <3>2, <3>5, <3>6 DEF QueuedBefore
    <3> QED BY <3>7 DEF SentBefore, MayLack
  <2>4. ASSUME NEW k \in unread[n], ReceiveOutput(n, k)
        PROVE  log[k].addr \in SentBefore(n, Len(outbox[n]) + 1)'
    <3>1. k \in DOMAIN log /\ log[k] \in Dm /\ log[k].type = "Output"
      BY <1>0, <2>4, ConsumeType DEF TypeOK, ReceiveOutput, InOutputs
    <3>2. log[k].addr \in Address /\ k < NextEntry
      BY <1>0, <3>1, LenProperties DEF Dm, NextEntry, TypeOK, DataOK
    <3>3. log[k].addr \in RegisteredBefore(NextEntry)
      BY <3>1, <3>2 DEF RegisteredBefore
    <3>4. log[k].addr \in RegisteredBefore(NextEntry)'
      BY <1>0, <3>3, BeforeStays
    <3> QED BY <3>4 DEF SentBefore
  <2> QED BY <1>0, <2>2, <2>3, <2>4, OutputsStep
<1> QED BY <1>2, <1>3, <1>4 DEF Knows, MayLack

LEMMA OrderNext ==
  ASSUME IInv, IInv', OrderInv, [Next]_vars PROVE OrderInv'
<1>1. LogOrder /\ QueueOrder /\ \A n \in Node : Knows(n)
  BY OrderParts
<1>2. LogOrder' /\ QueueOrder' /\ \A n \in Node : Knows(n)'
  BY <1>1, LogOrderNext, QueueOrderNext, KnowsNext
<1>3. OrderInv' <=> (LogOrder /\ QueueOrder /\ \A n \in Node : Knows(n))'
  BY DEF OrderInv, LogOrder, QueueOrder, Knows
<1> QED BY <1>2, <1>3

-----------------------------------------------------------------------------
(* What a node has read                                                    *)

\* Where ReadInv speaks of what node n has read.
Attentive(n) ==
  (n = Initiator /\ pc[n] \in {"Configured", "Posted"}) \/ pc[n] \in {"Peers", "SendOutput", "Outputs"}

\* A step after which no more of the log is read.
Unmoved(n) == \A j \in DOMAIN log' : Passed(n, j)' => j \in DOMAIN log /\ Passed(n, j)

LEMMA UnreadChange ==
  ASSUME [Next]_vars
  PROVE  \/ unread' = unread
         \/ \E p \in Node : ReceiveCredentials(p) \/ Receive(p)
         \/ \E c \in Conn : Transmit(c) \/ LinkDies(c)
BY DEF Next, Step, vars, nodeVars, relayVars, Post, SendDummy, JoinPool,
   AbortJoin, JoinTimeout, EmptyPoll, LeavePeers, RegisterOutput, LeaveOutputs, RegisterInput,
   LeaveInputs, BroadcastFails, BroadcastTx, ListenStops, Tick

\* A node reads in the order of the log.
LEMMA ReadsInOrder ==
  ASSUME DataOK, Ordered, NEW n \in Node, NEW k \in unread[n], Receive(n)
  PROVE  \E i \in unread[n] :
           /\ i \in DOMAIN log /\ n \notin late' /\ UNCHANGED <<log, link>>
           /\ \A j \in DOMAIN log : j < i => Passed(n, j)
           /\ \A j \in DOMAIN log' : Passed(n, j)' => j \in DOMAIN log /\ (j = i \/ Passed(n, j))
           /\ unread' = [unread EXCEPT ![n] = @ \ {i}]
           /\ \/ RegisterPeer(n, i) \/ DropInPeers(n, i) \/ ReceiveOutput(n, i)
              \/ ReceiveEarlyInput(n, i) \/ DropInOutputs(n, i)
              \/ ReceiveInput(n, i) \/ DropInInputs(n, i)
<1>1. PICK i \in unread[n] : \/ RegisterPeer(n, i) \/ DropInPeers(n, i) \/ ReceiveOutput(n, i)
                             \/ ReceiveEarlyInput(n, i) \/ DropInOutputs(n, i)
                             \/ ReceiveInput(n, i) \/ DropInInputs(n, i)
  BY DEF Receive
<1>2. /\ i \in Deliverable(n) /\ unread' = [unread EXCEPT ![n] = @ \ {i}] /\ late' = late \ {n}
      /\ log' = log /\ link' = link
  BY <1>1 DEF RegisterPeer, DropInPeers, InPeers, ReceiveOutput, ReceiveEarlyInput, DropInOutputs,
              InOutputs, ReceiveInput, DropInInputs, InInputs, Consume, relayVars
<1>3. \A j \in unread[n] : i <= j
  BY <1>2 DEF Deliverable
<1>4. unread[n] \subseteq DOMAIN log /\ unread[n] \subseteq Nat /\ unread'[n] = unread[n] \ {i}
      /\ DOMAIN log \subseteq Nat
  BY <1>2, LenProperties DEF DataOK
<1>5. \A j \in DOMAIN log : j < i => Passed(n, j)
  BY <1>3, <1>4 DEF Passed
<1>6. \A j \in DOMAIN log' : Passed(n, j)' => j \in DOMAIN log /\ (j = i \/ Passed(n, j))
  BY <1>2, <1>4 DEF Passed
<1> QED BY <1>1, <1>2, <1>4, <1>5, <1>6

LEMMA UnreadStep ==
  ASSUME DataOK, Ordered, [Next]_vars, NEW n \in Node, Attentive(n)
  PROVE  Unmoved(n) \/ Receive(n)
<1>0. /\ unread \in [Node -> SUBSET Nat] /\ link \in [Conn -> {"up", "dead", "closed"}]
      /\ n \in Conn /\ unread[n] \subseteq DOMAIN log /\ unread[n] \subseteq Nat
  BY DEF DataOK, Conn
<1>1. /\ DOMAIN log = 1..Len(log) /\ Len(log) \in Nat /\ NextEntry = Len(log) + 1
      /\ \A j \in DOMAIN log' : j \in DOMAIN log \/ j = NextEntry
  BY <1>0, LogGrows DEF NextEntry
<1>2. link'[n] = "up" => link[n] = "up"
  BY <1>0, ClockAndLink
<1>3. ASSUME unread'[n] = unread[n], log' = log PROVE Unmoved(n)
  BY <1>2, <1>3 DEF Unmoved, Passed
<1>4. ASSUME NEW c \in Conn, Transmit(c) PROVE Unmoved(n)
  <2>1. link' = link
    BY <1>4 DEF Transmit
  <2>2. Subscribed(n) <=> link[n] = "up"
    BY DEF Attentive, Subscribed, InPool, Ended
  <2>3. \/ log' = log /\ unread' = unread
        \/ /\ log' = Append(log, Head(outbox[c]))
           /\ unread' = [p \in Node |-> IF Subscribed(p) THEN unread[p] \cup {Len(log) + 1} ELSE unread[p]]
    BY <1>4 DEF Transmit, Stores, relayVars
  <2>4. CASE unread' = [p \in Node |-> IF Subscribed(p) THEN unread[p] \cup {Len(log) + 1} ELSE unread[p]]
    <3>1. unread'[n] = IF link[n] = "up" THEN unread[n] \cup {NextEntry} ELSE unread[n]
      BY <1>1, <2>2, <2>4
    <3>2. ASSUME NEW j \in DOMAIN log', Passed(n, j)' PROVE j \in DOMAIN log /\ Passed(n, j)
      <4>1. CASE link[n] = "up"
        BY <1>1, <2>1, <3>1, <3>2, <4>1 DEF Passed
      <4>2. CASE link[n] # "up"
        <5>1. PICK k \in unread[n] : j < k /\ j \notin unread[n]
          BY <2>1, <3>1, <3>2, <4>2 DEF Passed
        <5>2. j # NextEntry
          BY <1>0, <1>1, <5>1
        <5> QED BY <1>1, <3>2, <5>1, <5>2 DEF Passed
      <4> QED BY <4>1, <4>2
    <3> QED BY <3>2 DEF Unmoved
  <2>5. CASE log' = log /\ unread' = unread
    BY <1>3, <2>5
  <2> QED BY <2>3, <2>4, <2>5
<1>5. ASSUME NEW c \in Conn, LinkDies(c) PROVE Unmoved(n)
  <2>1. log' = log
    BY <1>5 DEF LinkDies, relayVars
  <2>2. CASE c # n
    <3>1. unread'[n] = unread[n]
      BY <1>0, <1>5, <2>2 DEF LinkDies
    <3> QED BY <1>3, <2>1, <3>1
  <2>3. CASE c = n
    <3>1. PICK kept \in SUBSET unread[n] :
            /\ \A i \in kept, j \in unread[n] \ kept : i < j
            /\ unread'[n] = kept
      BY <1>0, <1>5, <2>3 DEF LinkDies
    <3>2. link[n] = "up" /\ link'[n] # "up"
      BY <1>0, <1>5, <2>3 DEF LinkDies
    <3>3. ASSUME NEW j \in DOMAIN log', Passed(n, j)' PROVE j \in DOMAIN log /\ Passed(n, j)
      <4>1. PICK k \in kept : j < k /\ j \notin kept
        BY <3>1, <3>2, <3>3 DEF Passed
      <4>2. j \notin unread[n]
        <5>1. ASSUME j \in unread[n] PROVE FALSE
          <6>1. k < j /\ j < k /\ j \in Nat /\ k \in Nat
            BY <1>0, <3>1, <4>1, <5>1
          <6> QED BY <6>1
        <5> QED BY <5>1
      <4> QED BY <2>1, <3>2, <3>3, <4>2 DEF Passed
    <3> QED BY <3>3 DEF Unmoved
  <2> QED BY <2>2, <2>3
<1>6. ASSUME NEW p \in Node, ReceiveCredentials(p) PROVE Unmoved(n)
  <2>1. p # n
    <3>1. pc[p] = "Connecting"
      BY <1>6 DEF ReceiveCredentials
    <3> QED BY <3>1 DEF Attentive
  <2>2. unread'[n] = unread[n] /\ log' = log
    BY <1>0, <1>6, <2>1 DEF ReceiveCredentials, relayVars
  <2> QED BY <1>3, <2>2
<1>7. ASSUME NEW p \in Node, Receive(p) PROVE Unmoved(n) \/ Receive(n)
  <2>1. CASE p = n
    BY <1>7, <2>1
  <2>2. CASE p # n
    <3>1. \E i : unread' = [unread EXCEPT ![p] = @ \ {i}] /\ log' = log
      BY <1>7 DEF Receive, RegisterPeer, DropInPeers, InPeers, ReceiveOutput, ReceiveEarlyInput,
                  DropInOutputs, InOutputs, ReceiveInput, DropInInputs, InInputs, Consume, relayVars
    <3>2. unread'[n] = unread[n] /\ log' = log
      BY <1>0, <2>2, <3>1
    <3> QED BY <1>3, <3>2
  <2> QED BY <2>1, <2>2
<1> QED BY <1>3, <1>4, <1>5, <1>6, <1>7, UnreadChange, LogChange

-----------------------------------------------------------------------------
(* What a node makes of it                                                 *)

\* Every output that node n has read it has registered, but for a late one to a.
AllButLate(n, a) ==
  \A j \in DOMAIN log : Passed(n, j) /\ log[j].type = "Output" =>
    \/ log[j].addr \in cj[n].outputs
    \/ /\ log[j].addr = a /\ Cardinality(peers[n]) < MinPeer
       /\ clock >= StartAt /\ (pc[n] = "Peers" => n \notin late)

LEMMA PeersCount ==
  ASSUME TypeOK, OrderInv, NEW n \in Node
  PROVE  IsFiniteSet(peers[n]) /\ Cardinality(peers[n]) \in Nat
<1>1. IsFiniteSet(JoinedBefore(NextEntry))
  BY JoinedFinite DEF TypeOK, DataOK, JoinedBefore
<1> QED BY <1>1, FS_Subset, FS_CardinalityType DEF OrderInv

\* A step after which no more is read and a node is where it was or further on.
LEMMA UnmovedRead ==
  ASSUME IInv, [Next]_vars, NEW n \in Node, ReadInv(n), Unmoved(n),
         peers'[n] = peers[n], cj[n].outputs \subseteq cj'[n].outputs,
         pc'[n] \in {"Configured", "Posted"} => pc[n] \in {"Configured", "Posted"},
         pc'[n] = "Peers" => pc[n] = "Peers" /\ (clock >= StartAt /\ n \notin late => n \notin late'),
         pc'[n] \in {"Peers", "SendOutput", "Outputs"} => pc[n] \in {"Peers", "SendOutput", "Outputs"}
  PROVE  ReadInv(n)'
<1>1. \A j \in DOMAIN log : log'[j] = log[j]
  BY LogGrows DEF IInv, TypeOK
<1>2. clock <= clock' /\ clock \in Nat /\ StartAt \in Nat /\ StartAt' = StartAt
  BY ClockAndLink, RoundAssumption DEF IInv, TypeOK, DataOK, StartAt
<1>3. \A j \in DOMAIN log' : Passed(n, j)' => j \in DOMAIN log /\ Passed(n, j) /\ log'[j] = log[j]
  BY <1>1 DEF Unmoved
<1>4. clock' \in Nat
  BY ClockAndLink DEF IInv, TypeOK
<1>5. ASSUME pc'[n] \in {"Peers", "SendOutput", "Outputs"}, NEW a \in Address, AllButLate(n, a)
      PROVE  AllButLate(n, a)'
  <2>1. clock >= StartAt => clock' >= StartAt
    BY <1>2, <1>4
  <2>2. pc'[n] = "Peers" /\ clock >= StartAt /\ (pc[n] = "Peers" => n \notin late) => n \notin late'
    OBVIOUS
  <2>3. ASSUME NEW j \in DOMAIN log', Passed(n, j)', log'[j].type = "Output"
        PROVE  \/ log'[j].addr \in cj'[n].outputs
               \/ /\ log'[j].addr = a /\ Cardinality(peers'[n]) < MinPeer
                  /\ clock' >= StartAt /\ (pc'[n] = "Peers" => n \notin late')
    <3>1. j \in DOMAIN log /\ Passed(n, j) /\ log'[j] = log[j]
      BY <1>3, <2>3
    <3>2. \/ log[j].addr \in cj[n].outputs
          \/ /\ log[j].addr = a /\ Cardinality(peers[n]) < MinPeer
             /\ clock >= StartAt /\ (pc[n] = "Peers" => n \notin late)
      BY <1>5, <2>3, <3>1 DEF AllButLate
    <3> QED BY <2>1, <2>2, <3>1, <3>2
  <2> QED BY <1>2, <2>3 DEF AllButLate
<1>6. pc'[n] \in {"Peers", "SendOutput", "Outputs"} => \E a \in Address : AllButLate(n, a)'
  BY <1>5 DEF ReadInv, AllButLate
<1>7. pc'[n] = "Peers" =>
        \A j \in DOMAIN log' : Passed(n, j)' /\ log'[j].type = "Join" => log'[j].npub \in peers'[n]
  BY <1>3 DEF ReadInv
<1>8. n = Initiator /\ pc'[n] \in {"Configured", "Posted"} => \A j \in DOMAIN log' : ~Passed(n, j)'
  BY <1>3 DEF ReadInv
<1> QED BY <1>2, <1>6, <1>7, <1>8 DEF ReadInv, AllButLate

\* Where nothing is claimed of what was read.
LEMMA ReadElsewhere ==
  ASSUME NEW n \in Node, ReadInv(n), peers'[n] = peers[n], ~Attentive(n)'
  PROVE  ReadInv(n)'
BY DEF ReadInv, Attentive

\* An output that a node drops comes when the node's deadline is over: else all
\* the Joins before it are counted, and they are enough.
LEMMA DroppedLate ==
  ASSUME IInv, OrderInv, StartEarly, NEW n \in Node, ReadInv(n), pc[n] = "Peers", ~EnoughPeers(n),
         NEW i \in DOMAIN log, log[i].type = "Output", \A j \in DOMAIN log : j < i => Passed(n, j)
  PROVE  clock >= StartAt
<1>1. PeersOver(JoinedBefore(i))
  BY DEF OrderInv, Caused
<1>2. JoinedBefore(i) \subseteq peers[n]
  BY DEF JoinedBefore, ReadInv
<1>3. IsFiniteSet(peers[n]) /\ Cardinality(peers[n]) \in Nat
  BY PeersCount DEF IInv
<1>4. Cardinality(JoinedBefore(i)) <= Cardinality(peers[n]) /\ Cardinality(JoinedBefore(i)) \in Nat
  BY <1>2, <1>3, FS_Subset, FS_CardinalityType
<1> QED BY <1>1, <1>3, <1>4, OpsAssumption DEF PeersOver, EnoughPeers

LEMMA ReceiveRead ==
  ASSUME IInv, OrderInv, Ordered, StartEarly, \A p \in Node : AddrOf[p] \notin ForeignNet, [Next]_vars,
         NEW n \in Node, ReadInv(n), NEW i \in unread[n],
         i \in DOMAIN log, n \notin late', UNCHANGED <<log, link>>,
         \A j \in DOMAIN log : j < i => Passed(n, j),
         \A j \in DOMAIN log' : Passed(n, j)' => j \in DOMAIN log /\ (j = i \/ Passed(n, j)),
         \/ RegisterPeer(n, i) \/ DropInPeers(n, i) \/ ReceiveOutput(n, i)
         \/ ReceiveEarlyInput(n, i) \/ DropInOutputs(n, i)
         \/ ReceiveInput(n, i) \/ DropInInputs(n, i)
  PROVE  ReadInv(n)'
<1> USE DEF nodeVars, relayVars
<1>0. /\ TypeOK /\ pc \in [Node -> PCs] /\ peers \in [Node -> SUBSET Conn] /\ cj \in [Node -> CJ]
      /\ log[i] \in Dm /\ AddrOf[n] \in Address
  BY RoundAssumption, ElementOfSeq, LenProperties DEF IInv, TypeOK, DataOK, PCs
<1>1. IsFiniteSet(peers[n]) /\ Cardinality(peers[n]) \in Nat /\ MinPeer \in Nat
  BY <1>0, PeersCount, OpsAssumption
<1>2. CASE RegisterPeer(n, i)
  <2> DEFINE x == log[i].npub
  <2>1. /\ pc[n] = "Peers" /\ Before(n, StartAt) /\ Cardinality(peers[n]) < MinPeer
        /\ log[i].type = "Join" /\ UNCHANGED <<clock, cj>>
    BY <1>1, <1>2 DEF RegisterPeer, InPeers, EnoughPeers
  <2>2. peers'[n] = peers[n] \/ peers'[n] = peers[n] \cup {x}
    BY <1>0, <1>2 DEF RegisterPeer
  <2>3. Cardinality(peers'[n]) <= MinPeer
    <3>1. /\ Cardinality(peers[n] \cup {x}) \in Nat
          /\ \/ Cardinality(peers[n] \cup {x}) = Cardinality(peers[n])
             \/ Cardinality(peers[n] \cup {x}) = Cardinality(peers[n]) + 1
      <4>1. PICK S : S = peers[n]
        OBVIOUS
      <4>2. IsFiniteSet(S)
        BY <1>1, <4>1
      <4> HIDE DEF x
      <4>3. IsFiniteSet(S \cup {x})
        BY <4>2, FS_AddElement
      <4>4. Cardinality(S \cup {x}) = IF x \in S THEN Cardinality(S) ELSE Cardinality(S) + 1
        BY <4>2, FS_AddElement
      <4> QED BY <4>1, <4>3, <4>4, FS_CardinalityType
    <3>2. CASE peers'[n] = peers[n]
      BY <1>1, <2>1, <3>2
    <3>3. CASE peers'[n] = peers[n] \cup {x}
      BY <1>1, <2>1, <3>1, <3>3
    <3> QED BY <2>2, <3>2, <3>3
  <2>4. pc'[n] = "Peers" => x \in peers'[n]
    BY <1>0, <1>2 DEF RegisterPeer, SendThenGoto, Goto, Fail
  <2>5. pc'[n] \in {"Peers", "Failed"}
    BY <1>0, <1>2, <2>1 DEF RegisterPeer, SendThenGoto, Goto, Fail
  <2>6. PICK a \in Address : AllButLate(n, a)
    BY <2>1 DEF ReadInv, AllButLate
  <2>7. \A j \in DOMAIN log : Passed(n, j) /\ log[j].type = "Output" => log[j].addr \in cj[n].outputs
    <3>1. clock \in Nat /\ StartAt \in Nat
      BY <1>0, RoundAssumption DEF StartAt, TypeOK, DataOK
    <3>2. ~(clock >= StartAt /\ n \notin late)
      BY <2>1, <3>1 DEF Before
    <3> QED BY <2>1, <2>6, <3>2 DEF AllButLate
  <2>8. \A j \in DOMAIN log' : Passed(n, j)' /\ log'[j].type = "Output" => log'[j].addr \in cj'[n].outputs
    BY <2>1, <2>7
  <2>9. pc'[n] = "Peers" =>
          \A j \in DOMAIN log' : Passed(n, j)' /\ log'[j].type = "Join" => log'[j].npub \in peers'[n]
    BY <2>1, <2>2, <2>4 DEF ReadInv
  <2> QED BY <2>3, <2>5, <2>6, <2>8, <2>9 DEF ReadInv
<1>3. CASE DropInPeers(n, i)
  <2>1. /\ pc[n] = "Peers" /\ Before(n, StartAt) /\ Cardinality(peers[n]) < MinPeer /\ ~EnoughPeers(n)
        /\ log[i].type # "Join" /\ UNCHANGED <<clock, cj, peers, pc>>
    BY <1>1, <1>3 DEF DropInPeers, InPeers, EnoughPeers
  <2>2. PICK b \in Address : AllButLate(n, b)
    BY <2>1 DEF ReadInv, AllButLate
  <2>3. \A j \in DOMAIN log : Passed(n, j) /\ log[j].type = "Output" => log[j].addr \in cj[n].outputs
    <3>1. ~(clock >= StartAt /\ n \notin late)
      BY <1>0, <2>1, RoundAssumption DEF Before, StartAt, TypeOK, DataOK
    <3> QED BY <2>1, <2>2, <3>1 DEF AllButLate
  <2>4. log[i].type = "Output" => clock >= StartAt /\ log[i].addr \in Address
    BY <1>0, <2>1, DroppedLate DEF Dm
  <2>5. PICK a \in Address : log[i].type = "Output" => a = log[i].addr
    BY <1>0, <2>4
  <2>6. \A j \in DOMAIN log' : Passed(n, j)' /\ log'[j].type = "Output" =>
          \/ log'[j].addr \in cj'[n].outputs
          \/ /\ log'[j].addr = a /\ Cardinality(peers'[n]) < MinPeer /\ clock' >= StartAt /\ n \notin late'
    BY <2>1, <2>3, <2>4, <2>5
  <2>7. \A j \in DOMAIN log' : Passed(n, j)' /\ log'[j].type = "Join" => log'[j].npub \in peers'[n]
    BY <2>1 DEF ReadInv
  <2>8. Cardinality(peers'[n]) <= MinPeer
    BY <1>1, <2>1
  <2> QED BY <2>1, <2>6, <2>7, <2>8 DEF ReadInv, StartAt
<1>4. CASE ReceiveOutput(n, i) \/ DropInOutputs(n, i)
  <2>1. pc[n] = "Outputs" /\ UNCHANGED <<clock, peers, pc>>
    BY <1>4 DEF ReceiveOutput, DropInOutputs, InOutputs
  <2>2. PICK a \in Address : AllButLate(n, a)
    BY <2>1 DEF ReadInv, AllButLate
  <2>3. cj[n].outputs \subseteq cj'[n].outputs /\ (log[i].type = "Output" => log[i].addr \in cj'[n].outputs)
    <3>1. CASE DropInOutputs(n, i)
      BY <3>1 DEF DropInOutputs
    <3>2. CASE ReceiveOutput(n, i)
      <4>1. log[i].type = "Output" /\ log[i].addr \in Address /\ log[i].addr \in SeatAddrs
        BY <1>0, <3>2 DEF ReceiveOutput, IInv, MessagesInv, Proper, Dm
      <4>2. log[i].addr \notin ForeignNet
        BY <4>1, RoundAssumption DEF SeatAddrs, Seats
      <4>3. cj'[n] = AddOutput(cj[n], log[i].addr)
        BY <1>0, <3>2, <4>2 DEF ReceiveOutput
      <4> QED BY <1>0, <4>1, <4>3, AddOutputType
    <3> QED BY <1>4, <3>1, <3>2
  <2>4. AllButLate(n, a)'
    <3>1. ASSUME NEW j \in DOMAIN log', Passed(n, j)', log'[j].type = "Output"
          PROVE  \/ log'[j].addr \in cj'[n].outputs
                 \/ /\ log'[j].addr = a /\ Cardinality(peers'[n]) < MinPeer /\ clock' >= StartAt
      BY <2>1, <2>2, <2>3, <3>1 DEF AllButLate
    <3> QED BY <2>1, <3>1 DEF AllButLate, StartAt
  <2> QED BY <2>1, <2>4 DEF ReadInv, AllButLate
<1>5. CASE ReceiveEarlyInput(n, i) \/ ReceiveInput(n, i) \/ DropInInputs(n, i)
  <2>1. peers'[n] = peers[n] /\ pc'[n] \in {"Panicked", "Inputs"}
    BY <1>0, <1>5 DEF ReceiveEarlyInput, ReceiveInput, DropInInputs, InInputs, Goto
  <2> QED BY <2>1, ReadElsewhere DEF Attentive
<1> QED BY <1>2, <1>3, <1>4, <1>5

-----------------------------------------------------------------------------
(* What a node has read, after any step                                    *)

LEMMA NothingRead ==
  ASSUME NEW n \in Node, ReadInv(n), peers'[n] = peers[n], \A j \in DOMAIN log' : ~Passed(n, j)'
  PROVE  ReadInv(n)'
<1>1. AddrOf[n] \in Address
  BY RoundAssumption
<1> QED BY <1>1 DEF ReadInv

LEMMA SamePeers ==
  ASSUME IInv, [Next]_vars, NEW n \in Node, ~Receive(n)
  PROVE  peers'[n] = peers[n]
<1>1. peers \in [Node -> SUBSET Conn]
  BY DEF IInv, TypeOK, DataOK
<1>2. ASSUME NEW p \in Node, NEW k \in unread[p], RegisterPeer(p, k) PROVE peers'[n] = peers[n]
  <2>1. p # n
    BY <1>2 DEF Receive
  <2> QED BY <1>1, <1>2, <2>1 DEF RegisterPeer
<1> QED BY <1>2, PeersChange

\* A node that registers peers or outputs keeps what it has until it leaves.
LEMMA OutputsGrow ==
  ASSUME IInv, [Next]_vars, NEW n \in Node PROVE cj[n].outputs \subseteq cj'[n].outputs
BY OutputsStep DEF IInv, TypeOK

LEMMA ReadNext ==
  ASSUME IInv, OrderInv, Ordered, StartEarly, \A p \in Node : AddrOf[p] \notin ForeignNet,
         [Next]_vars, NEW n \in Node, ReadInv(n)
  PROVE  ReadInv(n)'
<1> USE DEF nodeVars, relayVars, Goto, Fail, SendThenGoto
<1>0. DataOK /\ pc \in [Node -> PCs] /\ Initiator \in Node
  BY RoundAssumption DEF IInv, TypeOK, DataOK, PCs
<1>1. CASE Receive(n)
  <2>1. PICK k \in unread[n] : TRUE
    BY <1>1 DEF Receive
  <2>2. PICK i \in unread[n] :
           /\ i \in DOMAIN log /\ n \notin late' /\ UNCHANGED <<log, link>>
           /\ \A j \in DOMAIN log : j < i => Passed(n, j)
           /\ \A j \in DOMAIN log' : Passed(n, j)' => j \in DOMAIN log /\ (j = i \/ Passed(n, j))
           /\ unread' = [unread EXCEPT ![n] = @ \ {i}]
           /\ \/ RegisterPeer(n, i) \/ DropInPeers(n, i) \/ ReceiveOutput(n, i)
              \/ ReceiveEarlyInput(n, i) \/ DropInOutputs(n, i)
              \/ ReceiveInput(n, i) \/ DropInInputs(n, i)
    BY <1>0, <1>1, <2>1, ReadsInOrder
  <2> QED BY <2>2, ReceiveRead
<1>2. ASSUME ~Receive(n) PROVE peers'[n] = peers[n] /\ cj[n].outputs \subseteq cj'[n].outputs
  BY <1>2, SamePeers, OutputsGrow
<1>3. CASE ~Receive(n) /\ ~Attentive(n)'
  BY <1>2, <1>3, ReadElsewhere
<1>4. ASSUME ~Receive(n), Attentive(n),
             pc'[n] \in {"Configured", "Posted"} => pc[n] \in {"Configured", "Posted"},
             pc'[n] = "Peers" => pc[n] = "Peers" /\ (clock >= StartAt /\ n \notin late => n \notin late'),
             pc'[n] \in {"Peers", "SendOutput", "Outputs"} => pc[n] \in {"Peers", "SendOutput", "Outputs"}
      PROVE  ReadInv(n)'
  <2>1. Unmoved(n)
    BY <1>0, <1>4, UnreadStep
  <2> QED BY <1>2, <1>4, <2>1, UnmovedRead
<1>5. CASE ~Receive(n) /\ Still(n)
  <2>1. Attentive(n)' <=> Attentive(n)
    BY <1>5 DEF Still, Attentive
  <2> QED BY <1>3, <1>4, <1>5, <2>1 DEF Still
<1>6. CASE ~Receive(n) /\ n = Initiator /\ Post
  <2>1. pc[n] = "Configured" /\ pc'[n] \in {"Posted", "Failed"}
    BY <1>0, <1>6 DEF Post
  <2>2. Attentive(n)
    BY <1>6, <2>1 DEF Attentive
  <2> QED BY <1>4, <1>6, <2>1, <2>2
<1>7. CASE ~Receive(n) /\ n = Initiator /\ SendDummy
  <2>1. pc[n] = "Posted" /\ UNCHANGED <<log, unread, link>>
    BY <1>7 DEF SendDummy
  <2>2. \A j \in DOMAIN log' : ~Passed(n, j)'
    BY <1>7, <2>1 DEF ReadInv, Passed
  <2> QED BY <1>2, <1>7, <2>2, NothingRead
<1>8. CASE Step(n) /\ ~Receive(n)
  <2>1. CASE JoinPool(n)
    <3>1. n # Initiator /\ pc'[n] \in {"Connecting", "Failed"}
      BY <1>0, <2>1 DEF JoinPool
    <3> QED BY <1>3, <1>8, <3>1 DEF Attentive
  <2>2. CASE ReceiveCredentials(n)
    <3>1. log' = log /\ unread'[n] = DOMAIN log /\ link'[n] = "up"
      BY <1>0, <2>2 DEF ReceiveCredentials, TypeOK, DataOK
    <3>2. \A j \in DOMAIN log' : ~Passed(n, j)'
      BY <3>1 DEF Passed
    <3> QED BY <1>2, <1>8, <3>2, NothingRead
  <2>3. CASE EmptyPoll(n)
    <3>1. pc' = pc /\ late' \subseteq late
      BY <2>3 DEF EmptyPoll
    <3>2. Attentive(n)' <=> Attentive(n)
      BY <3>1 DEF Attentive
    <3> QED BY <1>3, <1>4, <1>8, <3>1, <3>2
  <2>4. CASE LeavePeers(n)
    <3>1. pc[n] = "Peers" /\ pc'[n] = "SendOutput"
      BY <1>0, <2>4 DEF LeavePeers
    <3>2. Attentive(n)
      BY <3>1 DEF Attentive
    <3> QED BY <1>4, <1>8, <3>1, <3>2
  <2>5. CASE RegisterOutput(n)
    <3>1. pc[n] = "SendOutput" /\ pc'[n] \in {"Outputs", "Failed"}
      BY <1>0, <2>5 DEF RegisterOutput
    <3>2. Attentive(n)
      BY <3>1 DEF Attentive
    <3> QED BY <1>4, <1>8, <3>1, <3>2
  <2>6. CASE AbortJoin(n) \/ JoinTimeout(n) \/ LeaveOutputs(n)
    <3>1. pc'[n] \in {"Failed", "SendInput"}
      BY <1>0, <2>6 DEF AbortJoin, JoinTimeout, LeaveOutputs
    <3> QED BY <1>3, <1>8, <3>1 DEF Attentive
  <2>7. CASE RegisterInput(n) \/ LeaveInputs(n) \/ BroadcastFails(n) \/ BroadcastTx(n)
    <3>1. pc'[n] \notin {"Configured", "Posted", "Peers", "SendOutput", "Outputs"}
      BY <1>0, <2>7 DEF RegisterInput, LeaveInputs, BroadcastFails, BroadcastTx
    <3> QED BY <1>3, <1>8, <3>1 DEF Attentive
  <2> QED BY <1>8, <2>1, <2>2, <2>3, <2>4, <2>5, <2>6, <2>7 DEF Step
<1> QED BY <1>0, <1>1, <1>5, <1>6, <1>7, <1>8, OtherStill

-----------------------------------------------------------------------------
(* No signature is read before the outputs it signs                        *)

\* A node that reads a signature while it registers outputs would have all the
\* outputs it signs, but for one if it counted too few peers, and enough; unless the
\* signer's own output was lost.
LEMMA NoEarlyInput ==
  ASSUME IInv, SignaturesInv, OrderInv, Ordered, NEW n \in Node, ReadInv(n), NEW i \in unread[n]
  PROVE  ReceiveEarlyInput(n, i) => Orphan(i)
<1>0. SUFFICES ASSUME ReceiveEarlyInput(n, i), ~Orphan(i) PROVE FALSE
  OBVIOUS
<1> DEFINE over == log[i].input.over
           outs == cj[n].outputs
<1>1. /\ pc[n] = "Outputs" /\ ~(Cardinality(outs) >= Cardinality(peers[n]))
      /\ i \in Deliverable(n) /\ log[i].type = "Input"
  BY <1>0 DEF ReceiveEarlyInput, InOutputs, EnoughOutputs
<1>2. /\ TypeOK /\ i \in DOMAIN log /\ unread[n] \subseteq Nat /\ DOMAIN log \subseteq Nat
  BY LenProperties DEF IInv, TypeOK, DataOK
<1>3. \A j \in DOMAIN log : j < i => Passed(n, j)
  <2>1. \A j \in unread[n] : i <= j
    BY <1>1 DEF Deliverable
  <2> QED BY <1>2, <2>1 DEF Passed
<1>4. Cardinality(over) >= MinPeer /\ over \subseteq RegisteredBefore(i)
  <2>1. Cardinality(over) >= MinPeer /\ over \subseteq RegisteredBefore(i) \cup MayLack(log[i].input.coin)
    BY <1>1, <1>2 DEF SignaturesInv, SignedMessage, SeatSignature, OrderInv, Caused
  <2>2. AddrOf[log[i].input.coin] \in RegisteredBefore(i)
    BY <1>0, <1>1 DEF Orphan
  <2> QED BY <2>1, <2>2 DEF MayLack
<1>5. /\ IsFiniteSet(outs) /\ Cardinality(outs) \in Nat /\ IsFiniteSet(over) /\ Cardinality(over) \in Nat
      /\ Cardinality(peers[n]) \in Nat /\ MinPeer \in Nat
  <2>1. outs \subseteq Address /\ over \subseteq Address
    BY <1>2, <1>4 DEF TypeOK, DataOK, CJ, RegisteredBefore
  <2> QED BY <1>2, <2>1, PeersCount, FS_Subset, FS_CardinalityType, OpsAssumption
<1>6. PICK a \in Address : AllButLate(n, a)
  BY <1>1 DEF ReadInv, AllButLate
<1>7. \A b \in over : b \in outs \/ (b = a /\ Cardinality(peers[n]) < MinPeer)
  BY <1>3, <1>4, <1>6 DEF RegisteredBefore, AllButLate
<1>8. CASE over \subseteq outs
  <2>1. Cardinality(over) <= Cardinality(outs)
    BY <1>5, <1>8, FS_Subset
  <2> QED BY <1>1, <1>4, <1>5, <2>1 DEF ReadInv
<1>9. CASE ~(over \subseteq outs)
  <2>1. over \subseteq outs \cup {a} /\ Cardinality(peers[n]) < MinPeer
    BY <1>7, <1>9
  <2>2. /\ IsFiniteSet(outs \cup {a}) /\ Cardinality(outs \cup {a}) \in Nat
        /\ Cardinality(outs \cup {a}) <= Cardinality(outs) + 1
    <3> PICK S : S = outs
      OBVIOUS
    <3>1. /\ IsFiniteSet(S \cup {a})
          /\ Cardinality(S \cup {a}) = IF a \in S THEN Cardinality(S) ELSE Cardinality(S) + 1
      BY <1>5, FS_AddElement
    <3>2. Cardinality(S) \in Nat
      BY <1>5
    <3> QED BY <3>1, <3>2
  <2>3. Cardinality(over) <= Cardinality(outs \cup {a})
    BY <2>1, <2>2, FS_Subset
  <2> QED BY <1>1, <1>4, <1>5, <2>1, <2>2, <2>3
<1> QED BY <1>8, <1>9

\* A thread panics where it reads a signature too early only.
LEMMA PanicStep ==
  ASSUME IInv, [Next]_vars, NEW n \in Node, pc[n] # "Panicked", pc'[n] = "Panicked"
  PROVE  \E i \in unread[n] : ReceiveEarlyInput(n, i)
<1> USE DEF nodeVars, relayVars, Goto, Fail, SendThenGoto
<1>0. DataOK /\ pc \in [Node -> PCs] /\ Initiator \in Node
  BY RoundAssumption DEF IInv, TypeOK, DataOK, PCs
<1>1. ~Still(n)
  BY DEF Still
<1>2. ~(n = Initiator /\ (Post \/ SendDummy))
  BY <1>0 DEF Post, SendDummy
<1>3. ~(JoinPool(n) \/ ReceiveCredentials(n) \/ AbortJoin(n) \/ JoinTimeout(n) \/ EmptyPoll(n))
  BY <1>0 DEF JoinPool, ReceiveCredentials, AbortJoin, JoinTimeout, EmptyPoll
<1>4. ~(LeavePeers(n) \/ RegisterOutput(n) \/ LeaveOutputs(n) \/ RegisterInput(n) \/ LeaveInputs(n))
  BY <1>0 DEF LeavePeers, RegisterOutput, LeaveOutputs, RegisterInput, LeaveInputs
<1>5. ~(BroadcastFails(n) \/ BroadcastTx(n))
  BY <1>0 DEF BroadcastFails, BroadcastTx
<1>6. \A i : ~(RegisterPeer(n, i) \/ DropInPeers(n, i) \/ ReceiveOutput(n, i) \/ DropInOutputs(n, i)
               \/ ReceiveInput(n, i) \/ DropInInputs(n, i))
  BY <1>0 DEF RegisterPeer, DropInPeers, ReceiveOutput, DropInOutputs, ReceiveInput, DropInInputs
<1>7. Receive(n)
  BY <1>1, <1>2, <1>3, <1>4, <1>5, <1>0, OtherStill DEF Step
<1> QED BY <1>6, <1>7 DEF Receive

\* What was lost before an entry was stored stays lost.
LEMMA OrphanStays ==
  ASSUME DataOK, [Next]_vars, NEW k \in DOMAIN log, Orphan(k)
  PROVE  k \in DOMAIN log' /\ Orphan(k)'
<1>1. k \in Nat /\ k <= NextEntry /\ k \in DOMAIN log' /\ log'[k] = log[k]
  BY LogGrows DEF NextEntry
<1>2. RegisteredBefore(k)' = RegisteredBefore(k)
  BY <1>1, BeforeStays
<1> QED BY <1>1, <1>2 DEF Orphan

LEMMA PanicNext ==
  ASSUME IInv, SignaturesInv, OrderInv, Ordered, ReadersInv, NoPanic, [Next]_vars
  PROVE  NoPanic'
<1>0. DataOK
  BY DEF IInv, TypeOK
<1>1. ASSUME NEW n \in Node, pc'[n] = "Panicked" PROVE \E k \in DOMAIN log : Orphan(k)
  <2>1. CASE pc[n] = "Panicked"
    BY <2>1 DEF NoPanic
  <2>2. CASE pc[n] # "Panicked"
    <3>1. PICK i \in unread[n] : ReceiveEarlyInput(n, i)
      BY <1>1, <2>2, PanicStep
    <3>2. Orphan(i)
      BY <3>1, NoEarlyInput DEF ReadersInv
    <3>3. i \in DOMAIN log
      BY <1>0 DEF DataOK
    <3> QED BY <3>2, <3>3
  <2> QED BY <2>1, <2>2
<1>2. ASSUME NEW k \in DOMAIN log, Orphan(k) PROVE NoPanic'
  BY <1>0, <1>2, OrphanStays DEF NoPanic
<1> QED BY <1>1, <1>2 DEF NoPanic

\* Only a client whose writes fail leaves an orphan.
LEMMA NoOrphan ==
  ASSUME MessagesInv, OrderInv, Faulty = {}, NEW k \in DOMAIN log
  PROVE  ~Orphan(k)
<1>1. log[k].type = "Input" =>
        PaysOwner(log[k].input) /\ log[k].input.over \subseteq RegisteredBefore(k) \cup MayLack(log[k].input.coin)
  BY DEF MessagesInv, Proper, OrderInv, Caused
<1>2. MayLack(log[k].input.coin) = {}
  BY DEF MayLack
<1> QED BY <1>1, <1>2 DEF Orphan, PaysOwner

-----------------------------------------------------------------------------
LEMMA OrderInit == Init => OrderInv
<1>1. ASSUME Init PROVE OrderInv
  <2>1. /\ DOMAIN log = {} /\ \A c \in Conn : outbox[c] = << >>
        /\ \A n \in Node : peers[n] = {} /\ pc[n] = "Configured" /\ cj[n].outputs = {}
    BY <1>1 DEF Init, NewCoinJoin
  <2> QED BY <2>1 DEF OrderInv
<1> QED BY <1>1

LEMMA ReadersInit == Init => ReadersInv /\ NoPanic
<1>1. ASSUME Init, NEW n \in Node PROVE ReadInv(n) /\ pc[n] # "Panicked"
  <2>1. DOMAIN log = {} /\ peers[n] = {} /\ pc[n] = "Configured"
    BY <1>1 DEF Init
  <2>2. Cardinality(peers[n]) <= MinPeer
    BY <2>1, FS_EmptySet, OpsAssumption
  <2> QED BY <2>1, <2>2 DEF ReadInv
<1> QED BY <1>1 DEF ReadersInv, NoPanic

\* A signature is stored behind the outputs it signs, an output behind the Joins
\* that ended the registration of peers, whatever the timeline and whichever
\* messages are lost; but the signer's own Output may be missing, when a write of
\* its connection failed and a later one did not.
THEOREM OrderKept == Spec => []OrderInv
<1>1. IInv /\ IInv' /\ OrderInv /\ [Next]_vars => OrderInv'
  BY OrderNext
<1> QED BY <1>1, Invariant, OrderInit, PTL DEF Spec

\* A thread reaches the `todo!` of receive_outputs only when the relay stored a
\* signature without its signer's Output: where the relay keeps the order of its
\* log, no peer waits for a fixed start and no node has an address of another
\* network, a node that reads another signature while it still registers outputs
\* has them all.  Each assumption is needed: a relay that reorders may hand over a
\* signature first; with a Fixed start a node whose deadline is late drops the
\* outputs of the others; a foreign address is in the template of its owner only.
THEOREM NeverPanics ==
  ASSUME Ordered, StartEarly, \A n \in Node : AddrOf[n] \notin ForeignNet
  PROVE  Spec => []NoPanic
<1>1. IInv /\ OrderInv /\ ReadersInv /\ [Next]_vars => ReadersInv'
  BY ReadNext DEF ReadersInv
<1>2. IInv /\ SignaturesInv /\ OrderInv /\ ReadersInv /\ NoPanic /\ [Next]_vars => NoPanic'
  BY PanicNext
<1> QED BY <1>1, <1>2, Invariant, SignaturesSound, OrderKept, ReadersInit, PTL DEF Spec

\* And so no thread panics where, besides, no connection fails, nor a single write
\* on one.
THEOREM HealthyNeverPanics ==
  ASSUME Ordered, StartEarly, \A n \in Node : AddrOf[n] \notin ForeignNet, Faulty = {}
  PROVE  Spec => [](\A n \in Node : pc[n] # "Panicked")
<1>1. IInv /\ OrderInv /\ NoPanic => \A n \in Node : pc[n] # "Panicked"
  BY NoOrphan DEF IInv, NoPanic
<1> QED BY <1>1, Invariant, OrderKept, NeverPanics, PTL
=============================================================================
