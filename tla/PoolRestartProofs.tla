------------------------- MODULE PoolRestartProofs -------------------------
(***************************************************************************)
(* Proofs about PoolRestart: whatever a participant's process forgets when *)
(* it ends, and whatever it does again after restart, a coin the network   *)
(* sees spent was paid for; and where the initiator does not lose count of *)
(* its peers, the nodes agree on the template and sign a coin for only one *)
(* transaction.  The seats of PoolRoundProofs do not survive a restart of  *)
(* the initiator, which counts its peers anew; the signatures of OwnersInv *)
(* do, and so do those whom the initiator let in, the first who joined.    *)
(***************************************************************************)
EXTENDS PoolRestart, PoolRoundFinalProofs

CountsFinite == \A n \in Node : IsFiniteSet(peers[n])

RestartInv == RestartTypeOK /\ CountsFinite /\ OwnersInv /\ PaidIfSpent

LEMMA RoundStep == ASSUME RoundNext PROVE Next
BY DEF RoundNext, Next

-----------------------------------------------------------------------------
(* The steps of the round                                                  *)

\* What a step of the round may queue, and by which handler.
Sends(m) ==
  \/ m.type = "Pool" \/ (m.type = "Join" /\ m.npub \notin Node)
  \/ \E n \in Node : JoinPool(n) /\ m.type = "Join"
  \/ \E n \in Node : /\ RegisterOutput(n) /\ n \in WithOutput
                     /\ m.type = "Output" /\ m.addr = AddrOf[n]
  \/ \E n \in Node : /\ RegisterInput(n) /\ n \in input /\ input' = input \ {n}
                     /\ m.type = "Input" /\ m.input = SignedInput(n)
  \/ \E n \in Node : \E k \in unread[n] : /\ RegisterPeer(n, k) /\ n = Initiator /\ CanSend(n)
                                          /\ m.type = "Credentials" /\ m.to = log[k].npub

QueuesOne(m) ==
  \A c \in Conn : \A k \in DOMAIN outbox'[c] :
    outbox'[c][k] = m \/ \E j \in DOMAIN outbox[c] : outbox'[c][k] = outbox[c][j]

LEMMA RoundSends ==
  ASSUME DataOK, input \subseteq WithInput, \A n \in Node : OwnInv(n), [Next]_vars
  PROVE  \E m \in Msg : Sends(m) /\ QueuesOne(m)
<1> USE DEF relayVars
<1>1. PoolEvent \in Msg /\ Sends(PoolEvent)
  BY DEF PoolEvent, Msg, Sends
<1>2. ASSUME NEW m \in Msg, Sends(m), Queues(m) PROVE \E x \in Msg : Sends(x) /\ QueuesOne(x)
  BY <1>2 DEF Queues, QueuesOne
<1>3. ASSUME outbox' = outbox PROVE \E x \in Msg : Sends(x) /\ QueuesOne(x)
  BY <1>1, <1>3 DEF QueuesOne
<1>4. ASSUME NEW n \in Node, NEW m \in Msg, NEW where, Sends(m), SendThenGoto(n, m, where)
      PROVE  \E x \in Msg : Sends(x) /\ QueuesOne(x)
  BY <1>2, <1>4, SendQueues DEF Queues
<1>5. ASSUME NEW d \in Conn, NEW m \in Msg, Sends(m), outbox' = [outbox EXCEPT ![d] = Append(@, m)]
      PROVE  \E x \in Msg : Sends(x) /\ QueuesOne(x)
  BY <1>2, <1>5, AppendEffect DEF Queues
<1>6. CASE Post
  BY <1>1, <1>4, <1>6, RoundAssumption DEF Post
<1>7. CASE SendDummy
  <2>1. Join(Dummy) \in Msg /\ Dummy \in Conn /\ Sends(Join(Dummy))
    BY RoundAssumption DEF Join, Msg, Dm, Conn, Sends
  <2>2. outbox' = [outbox EXCEPT ![Dummy] = Append(@, Join(Dummy))] \/ outbox' = outbox
    BY <1>7 DEF SendDummy
  <2> QED BY <1>3, <1>5, <2>1, <2>2
<1>8. ASSUME NEW n \in Node, JoinPool(n) PROVE \E x \in Msg : Sends(x) /\ QueuesOne(x)
  <2>1. Join(n) \in Msg /\ Sends(Join(n))
    BY <1>8 DEF Join, Msg, Dm, Conn, Sends
  <2> QED BY <1>4, <1>8, <2>1 DEF JoinPool
<1>9. ASSUME NEW n \in Node, RegisterOutput(n) PROVE \E x \in Msg : Sends(x) /\ QueuesOne(x)
  <2>1. Output(AddrOf[n]) \in Msg /\ n \in Conn
    BY RoundAssumption DEF Output, Msg, Dm, Conn
  <2>2. n \in WithOutput => Sends(Output(AddrOf[n]))
    BY <1>9 DEF Output, Sends
  <2>3. outbox' = outbox \/ (n \in WithOutput /\ outbox' = [outbox EXCEPT ![n] = Append(@, Output(AddrOf[n]))])
    BY <1>9 DEF RegisterOutput
  <2> QED BY <1>3, <1>5, <2>1, <2>2, <2>3
<1>10. ASSUME NEW n \in Node, RegisterInput(n) PROVE \E x \in Msg : Sends(x) /\ QueuesOne(x)
  <2>1. CASE n \in input /\ input' = input \ {n} /\ SendThenGoto(n, Input(SignedInput(n)), "Inputs")
    <3>1. SignedInput(n) \in Signed
      BY <1>10, <2>1, SignedInputType DEF RegisterInput
    <3>2. Input(SignedInput(n)) \in Msg /\ Sends(Input(SignedInput(n)))
      BY <1>10, <2>1, <3>1 DEF Input, Msg, Dm, Sends
    <3> QED BY <1>4, <2>1, <3>2
  <2>2. CASE outbox' = outbox
    BY <1>3, <2>2
  <2> QED BY <1>10, <2>1, <2>2 DEF RegisterInput
<1>11. ASSUME NEW n \in Node, NEW k \in unread[n], RegisterPeer(n, k)
       PROVE  \E x \in Msg : Sends(x) /\ QueuesOne(x)
  <2>1. log[k] \in Dm /\ log[k].type = "Join"
    BY <1>11, ConsumeType DEF RegisterPeer, InPeers
  <2>2. Credentials(log[k].npub) \in Msg
    BY <2>1 DEF Credentials, Msg, Dm
  <2>3. CASE outbox' = outbox
    BY <1>3, <2>3
  <2>4. CASE n = Initiator /\ CanSend(n) /\ SendThenGoto(n, Credentials(log[k].npub), "Peers")
    <3>1. Sends(Credentials(log[k].npub))
      BY <1>11, <2>4 DEF Credentials, Sends
    <3> QED BY <1>4, <2>2, <2>4, <3>1
  <2> QED BY <1>11, <2>3, <2>4 DEF RegisterPeer, SendThenGoto
<1>12. ASSUME NEW c \in Conn, Transmit(c) PROVE \E x \in Msg : Sends(x) /\ QueuesOne(x)
  BY <1>1, <1>12, TransmitEffect DEF QueuesOne
<1> QED BY <1>3, <1>6, <1>7, <1>8, <1>9, <1>10, <1>11, <1>12, OutboxChange

LEMMA MessagesPay ==
  ASSUME DataOK, OwnersInv, [Next]_vars
  PROVE  \A c \in Conn : \A k \in DOMAIN outbox'[c] : PaysMessage(outbox'[c][k])
<1>1. PICK m \in Msg : Sends(m) /\ QueuesOne(m)
  BY RoundSends DEF OwnersInv
<1>2. PaysMessage(m)
  <2>1. ASSUME NEW n \in Node, RegisterInput(n), n \in input, m.input = SignedInput(n) PROVE PaysMessage(m)
    BY <2>1, SignedInputType DEF OwnersInv, RegisterInput, PaysMessage
  <2> QED BY <1>1, <2>1 DEF Sends, PaysMessage
<1> QED BY <1>1, <1>2 DEF QueuesOne, OwnersInv

LEMMA StoredPay ==
  ASSUME DataOK, OwnersInv, [Next]_vars
  PROVE  \A k \in DOMAIN log' : PaysMessage(log'[k])
<1>1. \A k \in DOMAIN log : PaysMessage(log[k])
  BY DEF OwnersInv
<1>2. ASSUME NEW c \in Conn, Transmit(c) PROVE \A k \in DOMAIN log' : PaysMessage(log'[k])
  <2>1. PaysMessage(Head(outbox[c]))
    BY <1>2, TransmitEffect DEF OwnersInv
  <2> QED BY <1>1, <1>2, <2>1, TransmitEffect
<1> QED BY <1>1, <1>2, LogChange

\* A coin is spent once it is signed, never taken back.
LEMMA InputShrinks == ASSUME [Next]_vars PROVE input' \subseteq input
BY DEF Next, Step, Receive, vars, nodeVars, relayVars, Post, SendDummy, JoinPool, ReceiveCredentials,
   AbortJoin, JoinTimeout, RegisterPeer, DropInPeers, ReceiveOutput, ReceiveEarlyInput, DropInOutputs,
   ReceiveInput, DropInInputs, EmptyPoll, LeavePeers, RegisterOutput, LeaveOutputs, RegisterInput,
   LeaveInputs, BroadcastFails, BroadcastTx, Transmit, LinkDies, ListenStops, Tick

\* Thread n goes to a place where nothing is claimed of its CoinJoin.
GoesElsewhere(n) ==
  \E w \in (PCs \cup {"Down", "Outside"}) \ {"Outputs", "SendInput"} : pc' = [pc EXCEPT ![n] = w]

\* Other steps than these four leave every CoinJoin alone and bring no node to
\* its outputs or to its signature.
LEMMA ElsewhereStep ==
  ASSUME [Next]_vars
  PROVE  \/ cj' = cj /\ (pc' = pc \/ \E n \in Node : GoesElsewhere(n))
         \/ \E n \in Node : \/ RegisterOutput(n) \/ LeaveOutputs(n)
                            \/ \E k \in unread[n] : ReceiveOutput(n, k) \/ ReceiveInput(n, k)
<1> USE DEF nodeVars, Goto, Fail, SendThenGoto
<1>1. {"Posted", "Connecting", "Peers", "SendOutput", "Inputs", "Broadcast", "Done", "Failed", "Panicked"}
        \subseteq (PCs \cup {"Down", "Outside"}) \ {"Outputs", "SendInput"}
  BY DEF PCs, InPool, Ended
<1>2. ASSUME Post \/ SendDummy PROVE cj' = cj /\ Initiator \in Node /\ GoesElsewhere(Initiator)
  BY <1>1, <1>2, RoundAssumption DEF Post, SendDummy, GoesElsewhere
<1>3. ASSUME NEW n \in Node, \/ JoinPool(n) \/ ReceiveCredentials(n) \/ AbortJoin(n) \/ JoinTimeout(n)
                             \/ LeavePeers(n) \/ LeaveInputs(n)
      PROVE  cj' = cj /\ GoesElsewhere(n)
  BY <1>1, <1>3 DEF JoinPool, ReceiveCredentials, AbortJoin, JoinTimeout, LeavePeers, LeaveInputs,
                    GoesElsewhere
<1>4. ASSUME NEW n \in Node, NEW k, RegisterPeer(n, k) \/ ReceiveEarlyInput(n, k)
      PROVE  cj' = cj /\ (pc' = pc \/ GoesElsewhere(n))
  BY <1>1, <1>4 DEF RegisterPeer, ReceiveEarlyInput, GoesElsewhere
<1>5. ASSUME NEW n \in Node, RegisterInput(n) \/ BroadcastFails(n) \/ BroadcastTx(n)
      PROVE  cj' = cj /\ GoesElsewhere(n)
  BY <1>1, <1>5 DEF RegisterInput, BroadcastFails, BroadcastTx, GoesElsewhere
<1>6. ASSUME NEW n \in Node, NEW k, DropInPeers(n, k) \/ DropInOutputs(n, k) \/ DropInInputs(n, k)
      PROVE  cj' = cj /\ pc' = pc
  BY <1>6 DEF DropInPeers, DropInOutputs, DropInInputs
<1>7. ASSUME NEW n \in Node, EmptyPoll(n) PROVE cj' = cj /\ pc' = pc
  BY <1>7 DEF EmptyPoll
<1>8. ASSUME (\E c \in Conn : Transmit(c) \/ LinkDies(c) \/ ListenStops(c)) \/ Tick \/ UNCHANGED vars
      PROVE  cj' = cj /\ pc' = pc
  BY <1>8 DEF Transmit, LinkDies, ListenStops, Tick, vars
<1>9. CASE \E n \in Node : Step(n)
  BY <1>3, <1>4, <1>5, <1>6, <1>7, <1>9 DEF Step, Receive
<1> QED BY <1>2, <1>8, <1>9 DEF Next

\* What is claimed of a node stays so while its CoinJoin and its place do, and
\* wherever it goes on to where less is claimed of it.
LEMMA OwnElsewhere ==
  ASSUME DOMAIN pc = Node, \A n \in Node : OwnInv(n), cj' = cj,
         pc' = pc \/ \E n \in Node : GoesElsewhere(n)
  PROVE  \A n \in Node : OwnInv(n)'
<1>1. \A n \in Node : pc'[n] = pc[n] \/ pc'[n] \notin {"Outputs", "SendInput"}
  BY DEF GoesElsewhere
<1> QED BY <1>1 DEF OwnInv, PaysOwner

\* A step of one node leaves the others' as they are.
LEMMA OwnOne ==
  ASSUME \A p \in Node : OwnInv(p), NEW n \in Node,
         \A p \in Node \ {n} : pc'[p] = pc[p] /\ cj'[p] = cj[p], OwnInv(n)'
  PROVE  \A p \in Node : OwnInv(p)'
<1>1. ASSUME NEW p \in Node \ {n} PROVE OwnInv(p)'
  BY <1>1 DEF OwnInv, PaysOwner
<1> QED BY <1>1

LEMMA OwnNext ==
  ASSUME DataOK, DOMAIN pc = Node, \A k \in DOMAIN log : PaysMessage(log[k]),
         \A n \in Node : OwnInv(n), [Next]_vars
  PROVE  \A n \in Node : OwnInv(n)'
<1> USE DEF nodeVars, relayVars, Goto, Fail
<1>0. cj \in [Node -> CJ]
  BY DEF DataOK
<1>1. ASSUME NEW n \in Node, RegisterOutput(n) PROVE \A p \in Node : OwnInv(p)'
  <2>1. pc[n] = "SendOutput" /\ \A p \in Node \ {n} : pc'[p] = pc[p] /\ cj'[p] = cj[p]
    BY <1>0, <1>1 DEF RegisterOutput
  <2>2. pc'[n] \in {"Outputs", "Failed"}
    BY <1>1 DEF RegisterOutput
  <2>3. CASE n \in WithOutput
    <3>1. cj'[n] = AddOutput(cj[n], AddrOf[n])
      BY <1>0, <1>1, <2>3 DEF RegisterOutput
    <3>2. AddrOf[n] \in cj'[n].outputs /\ cj'[n].inputs = cj[n].inputs /\ cj'[n].tx = cj[n].tx
      BY <1>0, <3>1, AddOutputType, RoundAssumption
    <3>3. OwnInv(n)'
      BY <2>2, <3>2 DEF OwnInv, PaysOwner
    <3> QED BY <2>1, <3>3, OwnOne
  <2>4. CASE n \notin WithOutput
    <3>1. cj' = cj
      BY <1>1, <2>4 DEF RegisterOutput
    <3>2. OwnInv(n)'
      BY <2>4, <3>1 DEF OwnInv, PaysOwner
    <3> QED BY <2>1, <3>2, OwnOne
  <2> QED BY <2>3, <2>4
<1>2. ASSUME NEW n \in Node, LeaveOutputs(n) PROVE \A p \in Node : OwnInv(p)'
  <2>1. \/ cj' = [cj EXCEPT ![n] = GeneratePsbt(@)] /\ pc' = [pc EXCEPT ![n] = "SendInput"]
        \/ cj' = cj /\ pc' = [pc EXCEPT ![n] = "Failed"]
    BY <1>2 DEF LeaveOutputs
  <2>2. pc[n] = "Outputs" /\ \A p \in Node \ {n} : pc'[p] = pc[p] /\ cj'[p] = cj[p]
    BY <1>0, <1>2, <2>1 DEF LeaveOutputs
  <2>3. OwnInv(n)'
    <3>1. CASE cj' = [cj EXCEPT ![n] = GeneratePsbt(@)]
      <4>1. cj'[n] = GeneratePsbt(cj[n])
        BY <1>0, <3>1
      <4>2. /\ cj'[n].outputs = cj[n].outputs /\ cj'[n].psbt = {cj[n].outputs}
            /\ cj'[n].inputs = cj[n].inputs /\ cj'[n].tx = cj[n].tx
        BY <1>0, <4>1, GeneratePsbtType
      <4> QED BY <2>2, <4>2 DEF OwnInv, PaysOwner
    <3>2. CASE cj' = cj /\ pc' = [pc EXCEPT ![n] = "Failed"]
      BY <3>2 DEF OwnInv, PaysOwner
    <3> QED BY <2>1, <3>1, <3>2
  <2> QED BY <2>2, <2>3, OwnOne
<1>3. ASSUME NEW n \in Node, NEW k \in unread[n], ReceiveOutput(n, k) PROVE \A p \in Node : OwnInv(p)'
  <2>1. log[k] \in Dm /\ log[k].type = "Output"
    BY <1>3, ConsumeType DEF ReceiveOutput, InOutputs
  <2>2. log[k].addr \in Address
    BY <2>1 DEF Dm
  <2>3. cj' = cj \/ cj' = [cj EXCEPT ![n] = AddOutput(@, log[k].addr)]
    BY <1>3 DEF ReceiveOutput
  <2>4. pc' = pc /\ pc[n] = "Outputs" /\ \A p \in Node \ {n} : cj'[p] = cj[p]
    BY <1>0, <1>3, <2>3 DEF ReceiveOutput, InOutputs
  <2>5. cj[n].outputs \subseteq cj'[n].outputs /\ cj'[n].inputs = cj[n].inputs /\ cj'[n].tx = cj[n].tx
    <3>1. CASE cj' = [cj EXCEPT ![n] = AddOutput(@, log[k].addr)]
      <4>1. cj'[n] = AddOutput(cj[n], log[k].addr)
        BY <1>0, <3>1
      <4> QED BY <1>0, <2>2, <4>1, AddOutputType
    <3> QED BY <2>3, <3>1
  <2>6. OwnInv(n)'
    BY <2>4, <2>5 DEF OwnInv, PaysOwner
  <2> QED BY <2>4, <2>6, OwnOne
<1>4. ASSUME NEW n \in Node, NEW k \in unread[n], ReceiveInput(n, k) PROVE \A p \in Node : OwnInv(p)'
  <2> DEFINE x == log[k].input
             c == IF AddInputResult(cj[n], {}, 0, x) = "ok" THEN AddInput(cj[n], x) ELSE cj[n]
  <2>1. k \in DOMAIN log /\ log[k] \in Dm /\ log[k].type = "Input"
    BY <1>4, ConsumeType DEF ReceiveInput, InInputs
  <2>2. x \in Signed /\ PaysOwner(x)
    BY <2>1 DEF Dm, PaysMessage
  <2>3. c \in CJ /\ c.tx = cj[n].tx /\ \A i \in c.inputs : i \in cj[n].inputs \/ i = x
    BY <1>0, <2>2, AddInputType
  <2>4. cj' = [cj EXCEPT ![n] = TryFinalize(c)] /\ pc' = pc /\ pc[n] = "Inputs"
    BY <1>4 DEF ReceiveInput, InInputs
  <2> HIDE DEF c
  <2>5. cj'[n] = TryFinalize(c) /\ \A p \in Node \ {n} : cj'[p] = cj[p]
    BY <1>0, <2>4
  <2>6. cj'[n].inputs = c.inputs /\ \A t \in cj'[n].tx : t \in cj[n].tx \/ t.ins = c.inputs
    BY <2>3, <2>5, TryFinalizeType
  <2>7. \A i \in c.inputs : PaysOwner(i)
    BY <2>2, <2>3 DEF OwnInv
  <2>8. OwnInv(n)'
    BY <2>4, <2>6, <2>7 DEF OwnInv, PaysOwner
  <2> QED BY <2>4, <2>5, <2>8, OwnOne
<1>5. CASE cj' = cj /\ (pc' = pc \/ \E n \in Node : GoesElsewhere(n))
  BY <1>5, OwnElsewhere
<1> QED BY <1>1, <1>2, <1>3, <1>4, <1>5, ElsewhereStep

\* The network accepts a transaction only with signatures made for it.
LEMMA PaidNext ==
  ASSUME \A n \in Node : OwnInv(n), PaidIfSpent, [Next]_vars
  PROVE  PaidIfSpent'
<1>1. ASSUME NEW n \in Node, BroadcastTx(n) PROVE PaidIfSpent'
  <2>1. FinalTx(n) \in cj[n].tx
    BY <1>1 DEF BroadcastTx, Finalized, IsSome, FinalTx
  <2>2. \A i \in FinalTx(n).ins : PaysOwner(i)
    BY <2>1 DEF OwnInv
  <2>3. ASSUME NEW t \in chain', NEW i \in t.ins PROVE AddrOf[i.coin] \in t.outs
    <3>1. CASE t \in chain
      BY <2>3, <3>1 DEF PaidIfSpent
    <3>2. CASE t = FinalTx(n) /\ Valid(t)
      BY <2>2, <2>3, <3>2 DEF Valid, PaysOwner
    <3> QED BY <1>1, <2>3, <3>1, <3>2 DEF BroadcastTx
  <2> QED BY <2>3 DEF PaidIfSpent
<1>2. CASE chain' = chain
  BY <1>2 DEF PaidIfSpent
<1> QED BY <1>1, <1>2, ChainChange

LEMMA CountsNext ==
  ASSUME DataOK, CountsFinite, [Next]_vars
  PROVE  CountsFinite'
<1>1. ASSUME NEW n \in Node, NEW k \in unread[n], RegisterPeer(n, k), NEW p \in Node
      PROVE  IsFiniteSet(peers'[p])
  <2>1. peers' = peers \/ peers' = [peers EXCEPT ![n] = @ \cup {log[k].npub}]
    BY <1>1 DEF RegisterPeer
  <2>2. PICK S : S = peers[p]
    OBVIOUS
  <2>3. PICK x : x = log[k].npub
    OBVIOUS
  <2>4. IsFiniteSet(S) /\ (peers'[p] = S \/ peers'[p] = S \cup {x})
    BY <2>1, <2>2, <2>3 DEF DataOK, CountsFinite
  <2>5. IsFiniteSet(S \cup {x})
    BY <2>4, FS_AddElement
  <2> QED BY <2>4, <2>5
<1> QED BY <1>1, PeersChange DEF CountsFinite

-----------------------------------------------------------------------------
(* The end of a process and its restart                                    *)

LEMMA RoundKeeps ==
  ASSUME RestartInv, RoundNext \/ UNCHANGED vars, UNCHANGED restartVars
  PROVE  RestartInv'
<1>1. DataOK /\ OwnersInv /\ [Next]_vars /\ \A n \in Node : OwnInv(n)
  BY RoundStep DEF RestartInv, RestartTypeOK, OwnersInv
<1>2. DataOK'
  BY <1>1, DataNext DEF OwnersInv
<1>3. RestartTypeOK'
  <2> DEFINE P == {"Configured", "Connecting", "Down", "Outside"} \cup InPool \cup Ended
             E == Errors \cup {"InputParsing", "PoolCorrupted", "CoinjoinMissing"}
  <2>1. PCs \subseteq P /\ Errors \subseteq E /\ pc \in [Node -> P] /\ error \in [Node -> SUBSET E]
    BY DEF PCs, RestartInv, RestartTypeOK
  <2> HIDE DEF P, E
  <2>2. pc' \in [Node -> P] /\ error' \in [Node -> SUBSET E]
    BY <1>1, <2>1, PlaceNext
  <2>3. \A n \in Node : pc'[n] \notin {"Failed", "Done"} => carried'[n] <= MinPeer
    <3>1. ASSUME NEW n \in Node, pc[n] \notin Ended, NEW where, Goto(n, where) \/ Fail(n, where),
                 NEW p \in Node, pc'[p] \notin {"Failed", "Done"}
          PROVE  pc[p] \notin {"Failed", "Done"}
      BY <2>1, <3>1 DEF Goto, Fail, Ended
    <3>2. \A p \in Node : pc'[p] \notin {"Failed", "Done"} => pc[p] \notin {"Failed", "Done"}
      BY <1>1, <3>1, PlaceStep
    <3> QED BY <3>2 DEF RestartInv, RestartTypeOK, restartVars
  <2> QED BY <1>2, <2>2, <2>3 DEF P, E, RestartInv, RestartTypeOK, restartVars
<1>4. OwnersInv'
  <2>1. \A n \in Node : OwnInv(n)'
    BY <1>1, OwnNext DEF OwnersInv, RestartInv, RestartTypeOK
  <2>2. input' \subseteq input
    BY <1>1, InputShrinks
  <2>3. \A m : PaysMessage(m)' <=> PaysMessage(m)
    BY DEF PaysMessage, PaysOwner
  <2> QED BY <1>1, <2>1, <2>2, <2>3, MessagesPay, StoredPay DEF OwnersInv, restartVars
<1>5. CountsFinite'
  BY <1>1, CountsNext DEF RestartInv
<1>6. PaidIfSpent'
  BY <1>1, PaidNext DEF RestartInv
<1> QED BY <1>3, <1>4, <1>5, <1>6 DEF RestartInv

LEMMA SaveKeeps ==
  ASSUME RestartInv, NEW n \in Node, SaveState(n)
  PROVE  RestartInv'
<1>1. State(n) \in SavedState
  <2>1. carried[n] \in Nat /\ IsFiniteSet(peers[n]) /\ pushed[n] \in [outputs : Nat, inputs : Nat]
    BY DEF RestartInv, RestartTypeOK, DataOK, CountsFinite
  <2>2. Cardinality(peers[n]) \in Nat
    BY <2>1, FS_CardinalityType
  <2>3. carried[n] + Cardinality(peers[n]) \in Nat /\ pushed[n].outputs \in Nat /\ pushed[n].inputs \in Nat
    BY <2>1, <2>2
  <2> QED BY <2>3 DEF State, SavedState
<1>2. saved' = [saved EXCEPT ![n] = {State(n)}] /\ UNCHANGED <<vars, carried, restarted>>
  BY DEF SaveState
<1>3. DataOK'
  BY <1>2 DEF vars, DataOK, RestartInv, RestartTypeOK
<1>4. RestartTypeOK'
  <2>1. restarted = {}
    BY DEF SaveState
  <2> QED BY <1>1, <1>2, <1>3, <2>1 DEF vars, RestartInv, RestartTypeOK
<1>5. OwnersInv'
  <2>1. \A p \in Node : OwnInv(p)' <=> OwnInv(p)
    BY <1>2 DEF OwnInv, PaysOwner, vars
  <2>2. \A m : PaysMessage(m)' <=> PaysMessage(m)
    BY DEF PaysMessage, PaysOwner
  <2>3. input' = input /\ outbox' = outbox /\ log' = log
    BY <1>2 DEF vars
  <2>4. State(n).input => n \in WithInput
    BY DEF State, RestartInv, OwnersInv
  <2>5. \A p \in Node : \A s \in saved'[p] : s.input => p \in WithInput
    BY <1>2, <2>4 DEF RestartInv, OwnersInv, RestartTypeOK
  <2> QED BY <2>1, <2>2, <2>3, <2>5 DEF RestartInv, OwnersInv
<1>6. CountsFinite' /\ PaidIfSpent'
  BY <1>2 DEF vars, CountsFinite, PaidIfSpent, RestartInv
<1> QED BY <1>4, <1>5, <1>6 DEF RestartInv

LEMMA CrashKeeps ==
  ASSUME RestartInv, NEW n \in Node, Crash(n)
  PROVE  RestartInv'
<1> USE DEF relayVars, nodeVars, restartVars
<1>1. DataOK /\ OwnersInv
  BY DEF RestartInv, RestartTypeOK
<1>2. \A c \in Conn : outbox'[c] = << >> \/ outbox'[c] = outbox[c]
  BY DEF Crash
<1>3. outbox' \in [Conn -> Seq(Msg)]
  <2>1. << >> \in Seq(Msg) /\ DOMAIN outbox' = Conn /\ outbox' = [c \in Conn |-> outbox'[c]]
    BY DEF Crash
  <2> QED BY <1>1, <1>2, <2>1 DEF DataOK
<1>4. DataOK'
  <2>1. unread' \in [Node -> SUBSET Nat] /\ \A p \in Node : unread'[p] \subseteq DOMAIN log'
    BY <1>1 DEF Crash, DataOK
  <2> QED BY <1>1, <1>3, <2>1 DEF Crash, DataOK
<1>5. RestartTypeOK'
  <2>1. pc' = [pc EXCEPT ![n] = "Down"] /\ UNCHANGED <<error, saved, carried, restarted>>
    BY DEF Crash
  <2>2. carried[n] <= MinPeer
    <3>1. n \notin restarted
      BY DEF Crash, RestartInv, RestartTypeOK
    <3>2. carried[n] = 0
      BY <3>1 DEF RestartInv, RestartTypeOK
    <3> QED BY <3>2, OpsAssumption
  <2> QED BY <1>4, <2>1, <2>2 DEF RestartInv, RestartTypeOK
<1>6. OwnersInv'
  <2>1. pc' = [pc EXCEPT ![n] = "Down"] /\ UNCHANGED <<log, cj, input, saved>>
    BY DEF Crash
  <2>2. \A p \in Node : OwnInv(p)'
    BY <1>1, <2>1 DEF OwnInv, PaysOwner, OwnersInv, RestartInv, RestartTypeOK
  <2>3. \A m : PaysMessage(m)' <=> PaysMessage(m)
    BY DEF PaysMessage, PaysOwner
  <2>4. \A c \in Conn : \A k \in DOMAIN outbox'[c] : PaysMessage(outbox'[c][k])
    BY <1>1, <1>2 DEF OwnersInv
  <2> QED BY <1>1, <2>1, <2>2, <2>3, <2>4 DEF OwnersInv
<1>7. CountsFinite' /\ PaidIfSpent'
  BY DEF Crash, CountsFinite, PaidIfSpent, RestartInv
<1> QED BY <1>5, <1>6, <1>7 DEF RestartInv

\* What is counted of the stored messages is a number.
LEMMA TotalsType ==
  ASSUME DataOK, NEW s \in SavedState, NEW D \in SUBSET DOMAIN log
  PROVE  LET t == Totals(s, D) IN t.peers \in Nat /\ t.outputs \in Nat /\ t.inputs \in Nat
<1>1. DOMAIN log = 1..Len(log) /\ Len(log) \in Nat
  BY DEF DataOK
<1>2. IsFiniteSet(DOMAIN log)
  BY <1>1, FS_Interval
<1>3. ASSUME NEW S \in SUBSET D PROVE Cardinality(S) \in Nat
  <2>1. S \in SUBSET DOMAIN log
    OBVIOUS
  <2>2. IsFiniteSet(S)
    BY <1>2, <2>1, FS_Subset
  <2> QED BY <2>2, FS_CardinalityType
<1> DEFINE J == Of(D, "Join")
           O == {k \in Of(D, "Output") : log[k].addr \notin ForeignNet}
           I == Of(D, "Input")
<1>4. J \in SUBSET D /\ O \in SUBSET D /\ I \in SUBSET D
  BY DEF Of
<1>5. Totals(s, D) = [peers |-> s.peers + Cardinality(J), outputs |-> s.outputs + Cardinality(O),
                      inputs |-> s.inputs + Cardinality(I)]
  BY DEF Totals
<1> HIDE DEF J, O, I
<1>6. Cardinality(J) \in Nat /\ Cardinality(O) \in Nat /\ Cardinality(I) \in Nat
  BY <1>3, <1>4
<1>7. s.peers \in Nat /\ s.outputs \in Nat /\ s.inputs \in Nat
  BY DEF SavedState
<1> QED BY <1>5, <1>6, <1>7

LEMMA RestartKeeps ==
  ASSUME RestartInv, NEW n \in Node, Restart(n)
  PROVE  RestartInv'
<1>1. DataOK /\ OwnersInv /\ RestartTypeOK
  BY DEF RestartInv, RestartTypeOK
<1>2. PICK s \in saved[n] : \E D \in Drainable(s) :
        LET t == Totals(s, D) IN
        /\ unread' = [unread EXCEPT ![n] = IF s.key THEN DOMAIN log \ D ELSE {}]
        /\ input' = IF s.input THEN input \cup {n} ELSE input \ {n}
        /\ carried' = [carried EXCEPT ![n] = t.peers]
        /\ pushed' = [pushed EXCEPT ![n] = [outputs |-> t.outputs, inputs |-> t.inputs]]
        /\ \/ Fail(n, "InputParsing") \/ Fail(n, "PoolCorrupted") \/ Fail(n, "CoinjoinMissing")
           \/ Goto(n, "Done")
           \/ ~Corrupted(t) /\ \E w \in {"Posted", "Peers", "Outside"} : Goto(n, w)
  BY DEF Restart
<1>3. PICK D \in Drainable(s) :
        LET t == Totals(s, D) IN
        /\ unread' = [unread EXCEPT ![n] = IF s.key THEN DOMAIN log \ D ELSE {}]
        /\ input' = IF s.input THEN input \cup {n} ELSE input \ {n}
        /\ carried' = [carried EXCEPT ![n] = t.peers]
        /\ pushed' = [pushed EXCEPT ![n] = [outputs |-> t.outputs, inputs |-> t.inputs]]
        /\ \/ Fail(n, "InputParsing") \/ Fail(n, "PoolCorrupted") \/ Fail(n, "CoinjoinMissing")
           \/ Goto(n, "Done")
           \/ ~Corrupted(t) /\ \E w \in {"Posted", "Peers", "Outside"} : Goto(n, w)
  BY <1>2
<1>4. s \in SavedState
  BY <1>1 DEF RestartTypeOK
<1>5. D \in SUBSET DOMAIN log
  <2>1. DOMAIN log = 1..Len(log) /\ Len(log) \in Nat
    BY <1>1 DEF DataOK
  <2>2. ASSUME NEW k \in 0..Len(log) PROVE 1..k \subseteq 1..Len(log)
    BY <2>1
  <2> QED BY <2>1, <2>2 DEF Drainable
<1>6. PICK t : t = Totals(s, D)
  OBVIOUS
<1>7. t.peers \in Nat /\ t.outputs \in Nat /\ t.inputs \in Nat
  BY <1>1, <1>4, <1>5, <1>6, TotalsType
<1>8. /\ unread' = [unread EXCEPT ![n] = IF s.key THEN DOMAIN log \ D ELSE {}]
      /\ input' = IF s.input THEN input \cup {n} ELSE input \ {n}
      /\ carried' = [carried EXCEPT ![n] = t.peers]
      /\ pushed' = [pushed EXCEPT ![n] = [outputs |-> t.outputs, inputs |-> t.inputs]]
  BY <1>3, <1>6
<1>9. \/ \E w \in {"Done", "Posted", "Peers", "Outside"} :
           Goto(n, w) /\ (w # "Done" => t.peers <= MinPeer)
      \/ \E e \in {"InputParsing", "PoolCorrupted", "CoinjoinMissing"} : Fail(n, e)
  <2>1. ~Corrupted(t) => t.peers <= MinPeer
    BY <1>7, OpsAssumption DEF Corrupted
  <2> QED BY <1>3, <1>6, <2>1
<1>10. /\ peers' = [peers EXCEPT ![n] = {}] /\ cj' = [cj EXCEPT ![n] = NewCoinJoin]
       /\ restarted' = restarted \cup {n} /\ saved' = [saved EXCEPT ![n] = {}]
       /\ link' = [link EXCEPT ![n] = "up"]
       /\ UNCHANGED <<clock, posted, log, mail, outbox, late, inEnd, chain>>
  BY DEF Restart, relayVars
<1>11. /\ pc' \in [Node -> {"Configured", "Connecting", "Down", "Outside"} \cup InPool \cup Ended]
       /\ error' \in [Node -> SUBSET (Errors \cup {"InputParsing", "PoolCorrupted", "CoinjoinMissing"})]
       /\ pc'[n] \notin {"Outputs", "SendInput"} /\ \A p \in Node \ {n} : pc'[p] = pc[p]
       /\ pc'[n] \in {"Failed", "Done"} \/ t.peers <= MinPeer
  <2> DEFINE P == {"Configured", "Connecting", "Down", "Outside"} \cup InPool \cup Ended
             E == Errors \cup {"InputParsing", "PoolCorrupted", "CoinjoinMissing"}
  <2>1. {"Done", "Posted", "Peers", "Outside", "Failed"} \subseteq P
        /\ {"InputParsing", "PoolCorrupted", "CoinjoinMissing"} \subseteq E
    BY DEF InPool, Ended
  <2>2. pc \in [Node -> P] /\ error \in [Node -> SUBSET E]
    BY <1>1 DEF RestartTypeOK
  <2> HIDE DEF P, E
  <2>3. ASSUME NEW w \in {"Done", "Posted", "Peers", "Outside"}, Goto(n, w),
               w # "Done" => t.peers <= MinPeer
        PROVE  /\ pc' \in [Node -> P] /\ error' \in [Node -> SUBSET E]
               /\ pc'[n] \notin {"Outputs", "SendInput"} /\ \A p \in Node \ {n} : pc'[p] = pc[p]
               /\ pc'[n] \in {"Failed", "Done"} \/ t.peers <= MinPeer
    BY <2>1, <2>2, <2>3 DEF Goto
  <2>4. ASSUME NEW e \in {"InputParsing", "PoolCorrupted", "CoinjoinMissing"}, Fail(n, e)
        PROVE  /\ pc' \in [Node -> P] /\ error' \in [Node -> SUBSET E]
               /\ pc'[n] \notin {"Outputs", "SendInput"} /\ \A p \in Node \ {n} : pc'[p] = pc[p]
               /\ pc'[n] \in {"Failed", "Done"} \/ t.peers <= MinPeer
    BY <2>1, <2>2, <2>4 DEF Fail
  <2>5. /\ pc' \in [Node -> P] /\ error' \in [Node -> SUBSET E]
        /\ pc'[n] \notin {"Outputs", "SendInput"} /\ \A p \in Node \ {n} : pc'[p] = pc[p]
        /\ pc'[n] \in {"Failed", "Done"} \/ t.peers <= MinPeer
    BY <1>9, <2>3, <2>4
  <2> QED BY <2>5 DEF P, E
<1>12. DataOK'
  <2>1. NewCoinJoin \in CJ
    BY DEF NewCoinJoin, CJ
  <2>2. cj' \in [Node -> CJ] /\ peers' \in [Node -> SUBSET Conn] /\ input' \subseteq Node
    BY <1>1, <1>8, <1>10, <2>1 DEF DataOK
  <2>3. [outputs |-> t.outputs, inputs |-> t.inputs] \in [outputs : Nat, inputs : Nat]
    BY <1>7
  <2>4. pushed' \in [Node -> [outputs : Nat, inputs : Nat]]
    BY <1>1, <1>8, <2>3 DEF DataOK
  <2>5. DOMAIN log \subseteq Nat
    BY <1>1 DEF DataOK
  <2>6. unread' \in [Node -> SUBSET Nat] /\ \A p \in Node : unread'[p] \subseteq DOMAIN log
    BY <1>1, <1>8, <2>5 DEF DataOK
  <2> QED BY <1>1, <1>10, <2>2, <2>4, <2>6 DEF DataOK
<1>13. RestartTypeOK'
  <2>1. carried' \in [Node -> Nat] /\ carried'[n] = t.peers /\ \A p \in Node \ {n} : carried'[p] = carried[p]
    BY <1>1, <1>7, <1>8 DEF RestartTypeOK
  <2>2. \A p \in Node : pc'[p] \notin {"Failed", "Done"} => carried'[p] <= MinPeer
    BY <1>1, <1>11, <2>1 DEF RestartTypeOK
  <2>3. /\ saved' \in [Node -> SUBSET SavedState] /\ restarted' \subseteq Node
        /\ \A p \in Node : IF p \in restarted' THEN saved'[p] = {} ELSE carried'[p] = 0
    BY <1>1, <1>10, <2>1 DEF RestartTypeOK
  <2> QED BY <1>11, <1>12, <2>1, <2>2, <2>3 DEF RestartTypeOK
<1>14. OwnersInv'
  <2>1. input' \subseteq WithInput
    BY <1>1, <1>8 DEF OwnersInv
  <2>2. \A m : PaysMessage(m)' <=> PaysMessage(m)
    BY DEF PaysMessage, PaysOwner
  <2>3. \A p \in Node : \A x \in saved'[p] : x.input => p \in WithInput
    BY <1>1, <1>10 DEF OwnersInv, RestartTypeOK
  <2>4. ASSUME NEW p \in Node PROVE OwnInv(p)'
    <3>1. CASE p = n
      <4>1. cj'[p] = NewCoinJoin
        BY <1>1, <1>10, <3>1 DEF DataOK
      <4>2. cj'[p].inputs = {} /\ cj'[p].tx = {}
        BY <4>1 DEF NewCoinJoin
      <4> QED BY <1>11, <3>1, <4>2 DEF OwnInv
    <3>2. CASE p # n
      <4>1. cj'[p] = cj[p] /\ pc'[p] = pc[p]
        BY <1>1, <1>10, <1>11, <3>2 DEF DataOK
      <4> QED BY <1>1, <4>1 DEF OwnInv, PaysOwner, OwnersInv
    <3> QED BY <3>1, <3>2
  <2> QED BY <1>1, <1>10, <2>1, <2>2, <2>3, <2>4 DEF OwnersInv
<1>15. CountsFinite'
  BY <1>1, <1>10, FS_EmptySet DEF CountsFinite, RestartInv, DataOK
<1>16. PaidIfSpent'
  BY <1>10 DEF PaidIfSpent, RestartInv
<1> QED BY <1>13, <1>14, <1>15, <1>16 DEF RestartInv

\* The other two steps of register_outputs after a restart: they send no
\* signature and bring the node to where nothing is claimed of it.
LEMMA RegisterAgainKeeps ==
  ASSUME RestartInv, (\E n \in Node : LeaveOutside(n)) \/ (\E d \in Spare : SendSpare(d))
  PROVE  RestartInv'
<1> USE DEF relayVars, nodeVars, restartVars
<1>1. DataOK /\ OwnersInv /\ RestartTypeOK
  BY DEF RestartInv, RestartTypeOK
<1>2. \E n \in Node : \E w \in {"Peers", "SendOutput", "Failed"} :
        pc[n] \notin {"Failed", "Done"} /\ pc' = [pc EXCEPT ![n] = w]
  BY RoundAssumption DEF LeaveOutside, SendSpare, Goto, Fail
<1>3. /\ UNCHANGED <<clock, posted, log, mail, link, unread, late, peers, cj, input, pushed,
                     inEnd, chain, saved, carried, restarted>>
      /\ error' = error \/ error' = [error EXCEPT ![Initiator] = {"Nostr"}]
  BY DEF LeaveOutside, SendSpare, Goto, Fail
<1>4. /\ outbox' \in [Conn -> Seq(Msg)]
      /\ \A c \in Conn : \A k \in DOMAIN outbox'[c] : PaysMessage(outbox'[c][k])
  <2>1. CASE \E n \in Node : LeaveOutside(n)
    BY <1>1, <2>1 DEF LeaveOutside, DataOK, OwnersInv
  <2>2. ASSUME NEW d \in Spare, SendSpare(d)
        PROVE  /\ outbox' \in [Conn -> Seq(Msg)]
               /\ \A c \in Conn : \A k \in DOMAIN outbox'[c] : PaysMessage(outbox'[c][k])
    <3>1. d \in Conn /\ Join(d) \in Msg /\ PaysMessage(Join(d))
      BY DEF Join, Msg, Dm, Conn, PaysMessage
    <3>2. CASE outbox' = outbox
      BY <1>1, <3>2 DEF DataOK, OwnersInv
    <3>3. ASSUME outbox' = [outbox EXCEPT ![d] = Append(@, Join(d))]
          PROVE  /\ outbox' \in [Conn -> Seq(Msg)]
                 /\ \A c \in Conn : \A k \in DOMAIN outbox'[c] : PaysMessage(outbox'[c][k])
      <4>1. /\ outbox' \in [Conn -> Seq(Msg)]
            /\ \A c \in Conn : \A k \in DOMAIN outbox'[c] :
                 outbox'[c][k] = Join(d) \/ (k \in DOMAIN outbox[c] /\ outbox'[c][k] = outbox[c][k])
        BY <1>1, <3>1, <3>3, AppendEffect
      <4> QED BY <1>1, <3>1, <4>1 DEF OwnersInv
    <3> QED BY <2>2, <3>2, <3>3 DEF SendSpare
  <2> QED BY <2>1, <2>2
<1>5. DataOK'
  BY <1>1, <1>3, <1>4 DEF DataOK
<1>6. RestartTypeOK'
  <2>1. {"Peers", "SendOutput", "Failed"} \subseteq InPool \cup Ended /\ "Nostr" \in Errors
    BY DEF InPool, Ended, Errors
  <2> DEFINE P == {"Configured", "Connecting", "Down", "Outside"} \cup InPool \cup Ended
             E == Errors \cup {"InputParsing", "PoolCorrupted", "CoinjoinMissing"}
  <2>2. error' \in [Node -> SUBSET E]
    BY <1>1, <1>3, <2>1 DEF RestartTypeOK
  <2>3. /\ pc' \in [Node -> P]
        /\ \A p \in Node : pc'[p] \notin {"Failed", "Done"} => pc[p] \notin {"Failed", "Done"}
    BY <1>1, <1>2, <2>1 DEF RestartTypeOK
  <2> QED BY <1>1, <1>3, <1>5, <2>2, <2>3 DEF RestartTypeOK
<1>7. OwnersInv'
  <2>1. \A n \in Node : pc'[n] = pc[n] \/ pc'[n] \notin {"Outputs", "SendInput"}
    BY <1>1, <1>2 DEF RestartTypeOK
  <2>2. \A n \in Node : OwnInv(n)'
    BY <1>1, <1>3, <2>1 DEF OwnInv, PaysOwner, OwnersInv
  <2>3. \A m : PaysMessage(m)' <=> PaysMessage(m)
    BY DEF PaysMessage, PaysOwner
  <2> QED BY <1>1, <1>3, <1>4, <2>2, <2>3 DEF OwnersInv
<1>8. CountsFinite' /\ PaidIfSpent'
  BY <1>3 DEF CountsFinite, PaidIfSpent, RestartInv
<1> QED BY <1>6, <1>7, <1>8 DEF RestartInv

-----------------------------------------------------------------------------
LEMMA RestartStart == ASSUME RestartInit PROVE RestartInv
<1>1. Init /\ saved = [n \in Node |-> {}] /\ carried = [n \in Node |-> 0] /\ restarted = {}
  BY DEF RestartInit
<1>2. TypeOK
  BY <1>1, TypeInit
<1>3. RestartTypeOK
  BY <1>1, <1>2, OpsAssumption DEF TypeOK, RestartTypeOK
<1>4. CountsFinite
  BY <1>1, FS_EmptySet DEF Init, CountsFinite
<1>5. OwnersInv
  BY <1>1 DEF Init, OwnersInv, OwnInv, NewCoinJoin
<1>6. PaidIfSpent
  BY <1>1 DEF Init, PaidIfSpent
<1> QED BY <1>3, <1>4, <1>5, <1>6 DEF RestartInv

LEMMA RestartStep ==
  ASSUME RestartInv, [RestartNext]_allVars
  PROVE  RestartInv'
<1>1. CASE UNCHANGED allVars
  BY <1>1, RoundKeeps DEF allVars
<1>2. CASE RestartNext
  BY <1>2, RoundKeeps, SaveKeeps, CrashKeeps, RestartKeeps, RegisterAgainKeeps DEF RestartNext
<1> QED BY <1>1, <1>2

LEMMA RestartInvariant == RestartSpec => []RestartInv
<1>1. RestartInit => RestartInv
  BY RestartStart
<1>2. RestartInv /\ [RestartNext]_allVars => RestartInv'
  BY RestartStep
<1> QED BY <1>1, <1>2, PTL DEF RestartSpec

\* The process of a node may end whenever its state was taken, and restart take
\* it up wherever it was: what it counts, drains and sends keeps its type.
THEOREM RestartTypes == RestartSpec => []RestartTypeOK
<1>1. RestartInv => RestartTypeOK
  BY DEF RestartInv
<1> QED BY <1>1, RestartInvariant, PTL

\* Whenever the process ends and whatever restart forgets, every signature that
\* exists, and every transaction made of signatures, pays the coin's owner.
THEOREM OwnersKept == RestartSpec => []OwnersInv
<1>1. RestartInv => OwnersInv
  BY DEF RestartInv
<1> QED BY <1>1, RestartInvariant, PTL

\* A coin the network sees spent was paid for, in a round whose nodes end and
\* start again: a restarted node that registers and signs once more does so for
\* a template with its own address.
THEOREM PaidThroughRestart == RestartSpec => []PaidIfSpent
<1>1. RestartInv => PaidIfSpent
  BY DEF RestartInv
<1> QED BY <1>1, RestartInvariant, PTL
-----------------------------------------------------------------------------
(* What no step takes back, that of a restart included                     *)

LEMMA StepKinds ==
  ASSUME [RestartNext]_allVars
  PROVE  \/ [Next]_vars /\ UNCHANGED restartVars
         \/ \E n \in Node : SaveState(n) \/ Crash(n) \/ Restart(n) \/ LeaveOutside(n)
         \/ \E d \in Spare : SendSpare(d)
<1>1. CASE RoundNext /\ UNCHANGED restartVars
  BY <1>1, RoundStep
<1> QED BY <1>1 DEF RestartNext, allVars

\* The relay stores, and the keys go out, in a round's step only.
LEMMA RelayChange ==
  ASSUME [RestartNext]_allVars
  PROVE  UNCHANGED relayVars \/ ([Next]_vars /\ \E c \in Conn : Transmit(c))
<1>1. [Next]_vars => UNCHANGED relayVars \/ \E c \in Conn : Transmit(c)
  BY DEF Next, Step, Receive, vars, nodeVars, relayVars, Post, SendDummy, JoinPool, ReceiveCredentials,
     AbortJoin, JoinTimeout, RegisterPeer, DropInPeers, ReceiveOutput, ReceiveEarlyInput, DropInOutputs,
     ReceiveInput, DropInInputs, EmptyPoll, LeavePeers, RegisterOutput, LeaveOutputs, RegisterInput,
     LeaveInputs, BroadcastFails, BroadcastTx, LinkDies, ListenStops, Tick
<1>2. ASSUME NEW n \in Node, SaveState(n) \/ Crash(n) \/ Restart(n) \/ LeaveOutside(n)
      PROVE  UNCHANGED relayVars
  BY <1>2 DEF SaveState, Crash, Restart, LeaveOutside, vars, relayVars
<1>3. ASSUME NEW d \in Spare, SendSpare(d) PROVE UNCHANGED relayVars
  BY <1>3 DEF SendSpare, relayVars
<1> QED BY <1>1, <1>2, <1>3, StepKinds

LEMMA StoreGrows ==
  ASSUME DataOK, [RestartNext]_allVars
  PROVE  /\ NextEntry \in Nat /\ NextEntry' \in Nat /\ NextEntry <= NextEntry'
         /\ \A j \in DOMAIN log : j \in Nat /\ j < NextEntry /\ j \in DOMAIN log' /\ log'[j] = log[j]
         /\ \A j \in DOMAIN log' : j \in DOMAIN log \/ j = NextEntry
         /\ \A k \in Nat : k <= NextEntry => JoinedBefore(k)' = JoinedBefore(k)
         /\ RegisteredBefore(NextEntry) \subseteq RegisteredBefore(NextEntry)'
         /\ JoinedBefore(NextEntry) \subseteq JoinedBefore(NextEntry)'
<1>1. CASE UNCHANGED relayVars
  <2>1. Len(log) \in Nat /\ DOMAIN log = 1..Len(log)
    BY DEF DataOK
  <2> QED BY <1>1, <2>1 DEF relayVars, NextEntry, JoinedBefore, RegisteredBefore
<1>2. CASE [Next]_vars
  <2>1. /\ NextEntry \in Nat /\ DOMAIN log = 1..Len(log) /\ Len(log) \in Nat
        /\ DOMAIN log' = 1..Len(log') /\ Len(log') \in Nat /\ Len(log) <= Len(log')
        /\ \A j \in DOMAIN log : j \in DOMAIN log' /\ log'[j] = log[j]
        /\ \A j \in DOMAIN log' : j \in DOMAIN log \/ j = NextEntry
    BY <1>2, LogGrows
  <2>2. /\ \A k \in Nat : k <= NextEntry => JoinedBefore(k)' = JoinedBefore(k)
        /\ RegisteredBefore(NextEntry) \subseteq RegisteredBefore(NextEntry)'
        /\ JoinedBefore(NextEntry) \subseteq JoinedBefore(NextEntry)'
    BY <1>2, BeforeStays
  <2>3. NextEntry' \in Nat /\ NextEntry <= NextEntry' /\ \A j \in DOMAIN log : j \in Nat /\ j < NextEntry
    BY <2>1 DEF NextEntry
  <2> QED BY <2>1, <2>2, <2>3
<1> QED BY <1>1, <1>2, RelayChange

\* A step queues at most one message, and moves some from a channel to the relay:
\* to its log, or the pool's key to a client.
LEMMA ChannelsNext ==
  ASSUME RestartInv, [RestartNext]_allVars
  PROVE  \E m \in Msg : /\ Sends(m) \/ (m.type = "Join" /\ m.npub \notin Node)
                        /\ Queued' \subseteq Queued \cup {m}
<1>1. DataOK /\ OwnersInv
  BY DEF RestartInv, RestartTypeOK
<1>2. ASSUME NEW m, QueuesOne(m) PROVE Queued' \subseteq Queued \cup {m}
  BY <1>2 DEF QueuesOne, Queued
<1>3. PoolEvent \in Msg /\ Sends(PoolEvent)
  BY DEF PoolEvent, Msg, Sends
<1>4. CASE [Next]_vars
  BY <1>1, <1>2, <1>4, RoundSends DEF OwnersInv
<1>5. ASSUME NEW n \in Node, SaveState(n) \/ Restart(n) \/ LeaveOutside(n) PROVE QueuesOne(PoolEvent)
  <2>1. outbox' = outbox
    BY <1>5 DEF SaveState, Restart, LeaveOutside, vars
  <2> QED BY <2>1 DEF QueuesOne
<1>6. ASSUME NEW n \in Node, Crash(n) PROVE QueuesOne(PoolEvent)
  BY <1>6 DEF Crash, QueuesOne
<1>7. ASSUME NEW d \in Spare, SendSpare(d)
      PROVE  QueuesOne(Join(d)) /\ Join(d) \in Msg /\ Join(d).type = "Join" /\ Join(d).npub \notin Node
  <2>1. d \in Conn /\ Join(d) \in Msg /\ Join(d).type = "Join" /\ Join(d).npub \notin Node
    BY RoundAssumption DEF Join, Msg, Dm, Conn
  <2>2. outbox' = outbox \/ outbox' = [outbox EXCEPT ![d] = Append(@, Join(d))]
    BY <1>7 DEF SendSpare
  <2>3. \A c \in Conn : \A k \in DOMAIN outbox'[c] :
          outbox'[c][k] = Join(d) \/ (k \in DOMAIN outbox[c] /\ outbox'[c][k] = outbox[c][k])
    BY <1>1, <2>1, <2>2, AppendEffect
  <2> QED BY <2>1, <2>3 DEF QueuesOne
<1> QED BY <1>2, <1>3, <1>4, <1>5, <1>6, <1>7, StepKinds

LEMMA RelayNext ==
  ASSUME DataOK, [RestartNext]_allVars
  PROVE  /\ Stored' \subseteq Stored \cup Queued
         /\ mail \subseteq mail'
         /\ \A c \in mail' : c \in mail \/ \E m \in Queued : m.type = "Credentials" /\ m.to = c
<1>1. CASE UNCHANGED relayVars
  BY <1>1 DEF relayVars, Stored
<1>2. ASSUME NEW c \in Conn, Transmit(c)
      PROVE  /\ Stored' \subseteq Stored \cup Queued
             /\ mail \subseteq mail'
             /\ \A x \in mail' : x \in mail \/ \E m \in Queued : m.type = "Credentials" /\ m.to = x
  <2>1. Head(outbox[c]) \in Queued
    BY <1>2, TransmitEffect DEF Queued
  <2> QED BY <1>2, <2>1, TransmitEffect DEF Stored
<1> QED BY <1>1, <1>2, RelayChange

LEMMA KeysGrow ==
  ASSUME DataOK, [RestartNext]_allVars
  PROVE  /\ KeyHolders \subseteq KeyHolders' /\ restarted \subseteq restarted'
         /\ PoolAddrs \subseteq PoolAddrs' /\ clock <= clock' /\ clock \in Nat /\ clock' \in Nat
<1>1. mail \subseteq mail'
  BY RelayNext
<1>2. restarted \subseteq restarted'
  <2>1. [Next]_vars /\ UNCHANGED restartVars => restarted \subseteq restarted'
    BY DEF restartVars
  <2>2. ASSUME NEW n \in Node, SaveState(n) \/ Crash(n) \/ Restart(n) \/ LeaveOutside(n)
        PROVE  restarted \subseteq restarted'
    BY <2>2 DEF SaveState, Crash, Restart, LeaveOutside, restartVars
  <2>3. ASSUME NEW d \in Spare, SendSpare(d) PROVE restarted \subseteq restarted'
    BY <2>3 DEF SendSpare, restartVars
  <2> QED BY <2>1, <2>2, <2>3, StepKinds
<1>3. clock <= clock' /\ clock \in Nat /\ clock' \in Nat
  <2>1. [Next]_vars => clock <= clock' /\ clock' \in Nat
    BY ClockAndLink
  <2>2. ASSUME NEW n \in Node, SaveState(n) \/ Crash(n) \/ Restart(n) \/ LeaveOutside(n)
        PROVE  clock' = clock
    BY <2>2 DEF SaveState, Crash, Restart, LeaveOutside, vars
  <2>3. ASSUME NEW d \in Spare, SendSpare(d) PROVE clock' = clock
    BY <2>3 DEF SendSpare
  <2>4. clock \in Nat
    BY DEF DataOK
  <2> QED BY <2>1, <2>2, <2>3, <2>4, StepKinds
<1> QED BY <1>1, <1>2, <1>3 DEF KeyHolders, PoolAddrs

-----------------------------------------------------------------------------
(* Who acts with the pool's key                                            *)

\* Where restart leads the node, and what it has there.
LEMMA RestartGoes ==
  ASSUME NEW n \in Node, Restart(n)
  PROVE  \E s \in saved[n] : \E D \in Drainable(s) :
           /\ unread' = [unread EXCEPT ![n] = IF s.key THEN DOMAIN log \ D ELSE {}]
           /\ input' = IF s.input THEN input \cup {n} ELSE input \ {n}
           /\ \E w \in {"Done", "Posted", "Peers", "Outside", "Failed"} :
                /\ pc' = [pc EXCEPT ![n] = w]
                /\ w = "Posted" => n = Initiator /\ ~Corrupted(Totals(s, D))
                /\ w = "Peers" => n # Initiator /\ s.key
<1>1. PICK s \in saved[n] : \E D \in Drainable(s) :
        LET t == Totals(s, D) IN
        /\ unread' = [unread EXCEPT ![n] = IF s.key THEN DOMAIN log \ D ELSE {}]
        /\ input' = IF s.input THEN input \cup {n} ELSE input \ {n}
        /\ IF s.inputs > 0 THEN Fail(n, "InputParsing")
           ELSE IF s.final THEN Goto(n, "Done")
           ELSE IF Corrupted(t) THEN Fail(n, "PoolCorrupted")
           ELSE IF t.peers < MinPeer \/ t.outputs < MinPeer
           THEN Goto(n, IF n = Initiator THEN "Posted" ELSE IF s.key THEN "Peers" ELSE "Outside")
           ELSE IF t.inputs < MinPeer THEN Fail(n, "CoinjoinMissing")
           ELSE Goto(n, "Done")
  BY DEF Restart
<1>2. PICK D \in Drainable(s) :
        LET t == Totals(s, D) IN
        /\ unread' = [unread EXCEPT ![n] = IF s.key THEN DOMAIN log \ D ELSE {}]
        /\ input' = IF s.input THEN input \cup {n} ELSE input \ {n}
        /\ IF s.inputs > 0 THEN Fail(n, "InputParsing")
           ELSE IF s.final THEN Goto(n, "Done")
           ELSE IF Corrupted(t) THEN Fail(n, "PoolCorrupted")
           ELSE IF t.peers < MinPeer \/ t.outputs < MinPeer
           THEN Goto(n, IF n = Initiator THEN "Posted" ELSE IF s.key THEN "Peers" ELSE "Outside")
           ELSE IF t.inputs < MinPeer THEN Fail(n, "CoinjoinMissing")
           ELSE Goto(n, "Done")
  BY <1>1
<1>3. \/ pc' = [pc EXCEPT ![n] = "Done"] \/ pc' = [pc EXCEPT ![n] = "Failed"]
      \/ pc' = [pc EXCEPT ![n] = "Posted"] /\ n = Initiator /\ ~Corrupted(Totals(s, D))
      \/ pc' = [pc EXCEPT ![n] = "Peers"] /\ n # Initiator /\ s.key
      \/ pc' = [pc EXCEPT ![n] = "Outside"]
  BY <1>2 DEF Goto, Fail
<1>4. \E w \in {"Done", "Posted", "Peers", "Outside", "Failed"} :
        /\ pc' = [pc EXCEPT ![n] = w]
        /\ w = "Posted" => n = Initiator /\ ~Corrupted(Totals(s, D))
        /\ w = "Peers" => n # Initiator /\ s.key
  BY <1>3
<1> QED BY <1>2, <1>4

\* A node makes its template, of the outputs it has registered, in LeaveOutputs
\* only, and only if it has counted peers.
LEMMA TemplateStep ==
  ASSUME DataOK, CountsFinite, [Next]_vars, NEW n \in Node
  PROVE  \/ cj'[n].psbt = cj[n].psbt
         \/ /\ LeaveOutputs(n) /\ peers[n] # {}
            /\ cj'[n].psbt = {cj[n].outputs} /\ cj'[n].outputs = cj[n].outputs
            /\ Cardinality(cj[n].outputs) >= MinPeer
<1>0. cj \in [Node -> CJ]
  BY DEF DataOK
<1>1. ASSUME NEW p \in Node, RegisterOutput(p) PROVE cj'[n].psbt = cj[n].psbt
  <2>1. cj' = cj \/ cj' = [cj EXCEPT ![p] = AddOutput(@, AddrOf[p])]
    BY <1>1 DEF RegisterOutput
  <2>2. AddOutput(cj[p], AddrOf[p]).psbt = cj[p].psbt
    BY <1>0, AddOutputType, RoundAssumption
  <2> QED BY <1>0, <2>1, <2>2
<1>2. ASSUME NEW p \in Node, NEW k \in unread[p], ReceiveOutput(p, k) PROVE cj'[n].psbt = cj[n].psbt
  <2>1. log[k] \in Dm /\ log[k].type = "Output"
    BY <1>2, ConsumeType DEF ReceiveOutput, InOutputs, relayVars
  <2>2. log[k].addr \in Address
    BY <2>1 DEF Dm
  <2>3. cj' = cj \/ cj' = [cj EXCEPT ![p] = AddOutput(@, log[k].addr)]
    BY <1>2 DEF ReceiveOutput
  <2>4. AddOutput(cj[p], log[k].addr).psbt = cj[p].psbt
    BY <1>0, <2>2, AddOutputType
  <2> QED BY <1>0, <2>3, <2>4
<1>3. ASSUME NEW p \in Node, NEW k \in unread[p], ReceiveInput(p, k) PROVE cj'[n].psbt = cj[n].psbt
  <2> DEFINE x == log[k].input
             c == IF AddInputResult(cj[p], {}, 0, x) = "ok" THEN AddInput(cj[p], x) ELSE cj[p]
  <2>1. log[k] \in Dm /\ log[k].type = "Input"
    BY <1>3, ConsumeType DEF ReceiveInput, InInputs, relayVars
  <2>2. x \in Signed
    BY <2>1 DEF Dm
  <2>3. c \in CJ /\ c.psbt = cj[p].psbt
    BY <1>0, <2>2, AddInputType
  <2>4. cj' = [cj EXCEPT ![p] = TryFinalize(c)]
    BY <1>3 DEF ReceiveInput
  <2> HIDE DEF c
  <2>5. TryFinalize(c).psbt = cj[p].psbt
    BY <2>3, TryFinalizeType
  <2> QED BY <1>0, <2>4, <2>5
<1>4. ASSUME NEW p \in Node, LeaveOutputs(p)
      PROVE  \/ cj'[n].psbt = cj[n].psbt
             \/ /\ p = n /\ peers[n] # {}
                /\ cj'[n].psbt = {cj[n].outputs} /\ cj'[n].outputs = cj[n].outputs
                /\ Cardinality(cj[n].outputs) >= MinPeer
  <2>1. PICK r \in OutputsVerdict(p) : IF r = "ok" THEN cj' = [cj EXCEPT ![p] = GeneratePsbt(@)] ELSE cj' = cj
    BY <1>4 DEF LeaveOutputs
  <2>2. CASE r = "ok" /\ p = n
    <3>1. cj'[n] = GeneratePsbt(cj[n])
      BY <1>0, <2>1, <2>2
    <3>2. cj'[n].psbt = {cj[n].outputs} /\ cj'[n].outputs = cj[n].outputs
      BY <1>0, <3>1, GeneratePsbtType
    <3>3. ~(Cardinality(peers[n]) < MinPeer) /\ "ok" \in GeneratePsbtResults(cj[n], {}, 0)
      BY <2>1, <2>2 DEF OutputsVerdict
    <3>4. peers[n] # {}
      BY <3>3, FS_EmptySet, OpsAssumption
    <3>5. ~(Cardinality(cj[n].outputs) < MinPeer)
      BY <3>3 DEF GeneratePsbtResults
    <3>6. Cardinality(cj[n].outputs) \in Nat /\ MinPeer \in Nat
      <4>1. IsFiniteSet(cj[n].outputs)
        BY <1>0, OpsAssumption, FS_Subset DEF CJ
      <4> QED BY <4>1, FS_CardinalityType, OpsAssumption
    <3> QED BY <2>2, <3>2, <3>4, <3>5, <3>6
  <2>3. CASE ~(r = "ok" /\ p = n)
    BY <1>0, <2>1, <2>3
  <2> QED BY <2>2, <2>3
<1>5. ASSUME NEW p \in Node, \/ RegisterOutput(p)
                             \/ \E k \in unread[p] : ReceiveOutput(p, k) \/ ReceiveInput(p, k)
      PROVE  cj'[n].psbt = cj[n].psbt
  BY <1>1, <1>2, <1>3, <1>5
<1> QED BY <1>4, <1>5, CoinJoinChange

\* A step of the round: a node acts with the key it had, or was just sent it.
LEMMA ActsNext ==
  ASSUME DataOK, DOMAIN pc = Node, CountsFinite, [Next]_vars, UNCHANGED restarted,
         NEW n \in Node, ActsWithKey(n)'
  PROVE  ActsWithKey(n) \/ n \in mail \/ n = Initiator
<1> USE DEF nodeVars, relayVars, Goto, Fail, SendThenGoto
<1>1. CASE Still(n)
  BY <1>1 DEF Still, ActsWithKey
<1>2. CASE cj'[n].psbt # cj[n].psbt
  BY <1>2, TemplateStep DEF ActsWithKey
<1>3. CASE JoinPool(n) \/ AbortJoin(n) \/ JoinTimeout(n) \/ EmptyPoll(n)
  BY <1>3 DEF JoinPool, AbortJoin, JoinTimeout, EmptyPoll, ActsWithKey, InPool
<1>4. CASE ReceiveCredentials(n)
  BY <1>4 DEF ReceiveCredentials
<1>5. ASSUME NEW k \in unread[n], RegisterPeer(n, k) \/ DropInPeers(n, k) PROVE ActsWithKey(n)
  BY <1>5 DEF RegisterPeer, DropInPeers, InPeers, ActsWithKey
<1>6. ASSUME cj'[n].psbt = cj[n].psbt, NEW k \in unread[n],
             \/ ReceiveOutput(n, k) \/ ReceiveEarlyInput(n, k) \/ DropInOutputs(n, k)
             \/ ReceiveInput(n, k) \/ DropInInputs(n, k)
      PROVE  ActsWithKey(n)
  BY <1>6 DEF ReceiveOutput, ReceiveEarlyInput, DropInOutputs, ReceiveInput, DropInInputs,
              ActsWithKey, InPool
<1>7. CASE LeavePeers(n)
  BY <1>7 DEF LeavePeers, ActsWithKey
<1>8. ASSUME cj'[n].psbt = cj[n].psbt, RegisterOutput(n) \/ LeaveOutputs(n) PROVE ActsWithKey(n)
  <2>1. pc[n] \in InPool /\ pc'[n] \in {"Outputs", "SendInput", "Failed"} /\ peers' = peers
    BY <1>8 DEF RegisterOutput, LeaveOutputs, InPool
  <2> QED BY <1>8, <2>1 DEF ActsWithKey
<1>9. CASE RegisterInput(n)
  BY <1>9 DEF RegisterInput, ActsWithKey, InPool
<1>10. CASE LeaveInputs(n) \/ BroadcastFails(n) \/ BroadcastTx(n)
  BY <1>10 DEF LeaveInputs, BroadcastFails, BroadcastTx, ActsWithKey, InPool
<1>11. CASE Step(n)
  BY <1>2, <1>3, <1>4, <1>5, <1>6, <1>7, <1>8, <1>9, <1>10, <1>11 DEF Step, Receive
<1> QED BY <1>1, <1>11, OtherStill

LEMMA KeysNext ==
  ASSUME RestartInv, KeysInv, [RestartNext]_allVars
  PROVE  KeysInv'
<1>0. /\ DataOK /\ DOMAIN pc = Node /\ DOMAIN saved = Node /\ CountsFinite
      /\ pc \in [Node -> {"Configured", "Connecting", "Down", "Outside"} \cup InPool \cup Ended]
      /\ peers \in [Node -> SUBSET Conn] /\ cj \in [Node -> CJ]
  BY DEF RestartInv, RestartTypeOK, DataOK
<1>1. KeyHolders \subseteq KeyHolders' /\ Initiator \in KeyHolders /\ Initiator \in KeyHolders'
  BY <1>0, KeysGrow DEF KeyHolders
<1>2. CASE [Next]_vars /\ UNCHANGED restartVars
  <2>1. UNCHANGED <<saved, restarted>>
    BY <1>2 DEF restartVars
  <2>2. ASSUME NEW n \in Node, ActsWithKey(n)' PROVE n \in KeyHolders'
    <3>1. ActsWithKey(n) \/ n \in mail \/ n = Initiator
      BY <1>0, <1>2, <2>1, <2>2, ActsNext
    <3> QED BY <1>1, <3>1 DEF KeysInv, KeyHolders
  <2>3. \A n \in Node : pc'[n] = "Outside" => pc[n] = "Outside"
    <3>1. "Outside" \notin PCs
      BY DEF PCs, InPool, Ended
    <3> QED BY <1>0, <1>2, <3>1, PlaceStep DEF Goto, Fail
  <2> QED BY <1>1, <2>1, <2>2, <2>3 DEF KeysInv
<1>3. ASSUME NEW n \in Node, SaveState(n) PROVE KeysInv'
  <2>1. /\ saved' = [saved EXCEPT ![n] = {State(n)}] /\ restarted = {} /\ \A m \in Node : saved[m] = {}
        /\ UNCHANGED <<vars, carried, restarted>> /\ pc[n] \in SavedIn[n]
    BY <1>3 DEF SaveState
  <2>2. State(n).key => n \in KeyHolders
    <3>1. pc[n] \in {"Connecting", "Done"} \cup InPool
      BY <2>1, RestartAssumption
    <3>2. State(n).key => ActsWithKey(n)
      BY <2>1, <3>1 DEF State, ActsWithKey
    <3> QED BY <3>2 DEF KeysInv
  <2>3. \A p \in Node : ActsWithKey(p)' <=> ActsWithKey(p)
    BY <2>1 DEF ActsWithKey, vars
  <2>4. \A p \in Node : \A s \in saved'[p] : s.key => p \in KeyHolders
    BY <1>0, <2>1, <2>2
  <2>5. \A p, q \in restarted' \cup {x \in Node : saved'[x] # {}} : p = q
    BY <1>0, <2>1
  <2> QED BY <1>1, <2>1, <2>3, <2>4, <2>5 DEF KeysInv, vars
<1>4. ASSUME NEW n \in Node, Crash(n) PROVE KeysInv'
  <2>1. pc' = [pc EXCEPT ![n] = "Down"] /\ UNCHANGED <<peers, cj, saved, restarted>>
    BY <1>4 DEF Crash, nodeVars, restartVars
  <2>2. \A p \in Node : ActsWithKey(p)' => ActsWithKey(p)
    BY <1>0, <2>1 DEF ActsWithKey, InPool
  <2>3. \A p \in Node : pc'[p] = "Outside" => pc[p] = "Outside"
    BY <1>0, <2>1
  <2> QED BY <1>1, <2>1, <2>2, <2>3 DEF KeysInv
<1>5. ASSUME NEW n \in Node, Restart(n) PROVE KeysInv'
  <2>1. PICK s \in saved[n] : \E w \in {"Done", "Posted", "Peers", "Outside", "Failed"} :
          /\ pc' = [pc EXCEPT ![n] = w]
          /\ w = "Posted" => n = Initiator
          /\ w = "Peers" => s.key
    BY <1>5, RestartGoes
  <2>2. /\ peers' = [peers EXCEPT ![n] = {}] /\ cj' = [cj EXCEPT ![n] = NewCoinJoin]
        /\ restarted' = restarted \cup {n} /\ saved' = [saved EXCEPT ![n] = {}]
    BY <1>5 DEF Restart
  <2>3. n \in {x \in Node : saved[x] # {}}
    BY <2>1
  <2>4. \A p, q \in restarted' \cup {x \in Node : saved'[x] # {}} : p = q
    BY <1>0, <2>2, <2>3 DEF KeysInv
  <2>5. \A p \in Node \ {n} : ActsWithKey(p)' <=> ActsWithKey(p)
    BY <1>0, <2>1, <2>2 DEF ActsWithKey
  <2>6. ActsWithKey(n)' => n \in KeyHolders'
    <3>1. peers'[n] = {} /\ cj'[n].psbt = {} /\ n \in restarted'
      BY <1>0, <2>2 DEF NewCoinJoin
    <3>2. ActsWithKey(n)' => pc'[n] \in {"Posted", "Peers"}
      BY <3>1 DEF ActsWithKey
    <3>3. pc'[n] \in {"Posted", "Peers"} => n = Initiator \/ s.key
      BY <1>0, <2>1
    <3> QED BY <1>1, <2>1, <3>2, <3>3 DEF KeysInv
  <2>7. \A p \in Node : pc'[p] = "Outside" => p \in restarted'
    BY <1>0, <2>1, <2>2 DEF KeysInv
  <2>8. \A p \in Node : \A x \in saved'[p] : x.key => p \in KeyHolders'
    BY <1>0, <1>1, <2>2 DEF KeysInv
  <2> QED BY <1>1, <2>4, <2>5, <2>6, <2>7, <2>8 DEF KeysInv
<1>6. ASSUME NEW n \in Node, LeaveOutside(n) PROVE KeysInv'
  <2>1. pc[n] = "Outside" /\ pc' = [pc EXCEPT ![n] = "SendOutput"] /\ UNCHANGED <<peers, cj, saved, restarted>>
    BY <1>6 DEF LeaveOutside, nodeVars, restartVars, Goto
  <2>2. n \in restarted
    BY <2>1 DEF KeysInv
  <2>3. \A p \in Node : ActsWithKey(p)' => ActsWithKey(p)
    BY <1>0, <2>1, <2>2 DEF ActsWithKey
  <2>4. \A p \in Node : pc'[p] = "Outside" => pc[p] = "Outside"
    BY <1>0, <2>1
  <2> QED BY <1>1, <2>1, <2>3, <2>4 DEF KeysInv
<1>7. ASSUME NEW d \in Spare, SendSpare(d) PROVE KeysInv'
  <2>1. /\ \E w \in {"Peers", "Failed"} : pc' = [pc EXCEPT ![Initiator] = w]
        /\ UNCHANGED <<peers, cj, saved, restarted>>
    BY <1>7 DEF SendSpare, nodeVars, restartVars, Goto, Fail
  <2>2. \A p \in Node \ {Initiator} : ActsWithKey(p)' => ActsWithKey(p)
    BY <1>0, <2>1 DEF ActsWithKey
  <2>3. \A p \in Node : pc'[p] = "Outside" => pc[p] = "Outside"
    BY <1>0, <2>1
  <2> QED BY <1>1, <2>1, <2>2, <2>3 DEF KeysInv
<1> QED BY <1>2, <1>3, <1>4, <1>5, <1>6, <1>7, StepKinds

-----------------------------------------------------------------------------
(* The addresses in the pool                                               *)

LEMMA AddressesNext ==
  ASSUME RestartInv, KeysInv, AddressesInv, [RestartNext]_allVars
  PROVE  AddressesInv'
<1>0. /\ DataOK /\ OwnersInv /\ CountsFinite /\ cj \in [Node -> CJ] /\ DOMAIN pc = Node
  BY DEF RestartInv, RestartTypeOK, DataOK
<1>1. KeyHolders \subseteq KeyHolders' /\ restarted \subseteq restarted' /\ PoolAddrs \subseteq PoolAddrs'
  BY <1>0, KeysGrow
<1>2. ASSUME NEW m, OfThePool(m) PROVE OfThePool(m)'
  BY <1>1, <1>2 DEF OfThePool
<1>3. ASSUME NEW n \in Node, RegisterOutput(n), n \in WithOutput PROVE AddrOf[n] \in PoolAddrs
  <2>1. n \in KeyHolders \cup restarted
    BY <1>3 DEF RegisterOutput, KeysInv, ActsWithKey, InPool
  <2> QED BY <1>3, <2>1 DEF PoolAddrs
<1>4. ASSUME NEW n \in Node, RegisterInput(n), n \in input
      PROVE  /\ SignedInput(n).coin \in KeyHolders /\ SignedInput(n).amount = {CoinValue[n]}
             /\ SignedInput(n).coin = n
             /\ SignedInput(n).over \subseteq PoolAddrs /\ Cardinality(SignedInput(n).over) >= MinPeer
  <2>1. pc[n] = "SendInput" /\ n \in WithOutput /\ OwnInv(n)
    BY <1>0, <1>4, RoundAssumption DEF RegisterInput, OwnersInv
  <2>2. cj[n].psbt = {cj[n].outputs}
    BY <2>1 DEF OwnInv
  <2>3. Template(n) = cj[n].outputs
    BY <2>2 DEF Template
  <2>4. n \in KeyHolders
    BY <2>2 DEF KeysInv, ActsWithKey
  <2>5. cj[n].outputs \subseteq PoolAddrs /\ Cardinality(cj[n].outputs) >= MinPeer
    BY <2>2 DEF AddressesInv, Registered
  <2> QED BY <2>3, <2>4, <2>5 DEF SignedInput
<1>5. ASSUME NEW m, Sends(m) \/ m.type = "Join" PROVE OfThePool(m)
  BY <1>3, <1>4, <1>5 DEF Sends, OfThePool
<1>6. \A m \in Queued' \cup Stored' : OfThePool(m)'
  <2>1. PICK m : Queued' \subseteq Queued \cup {m} /\ OfThePool(m)
    BY <1>5, ChannelsNext
  <2>2. Stored' \subseteq Stored \cup Queued
    BY <1>0, RelayNext
  <2> QED BY <1>2, <2>1, <2>2 DEF AddressesInv
<1>7. RegisteredBefore(NextEntry) \subseteq RegisteredBefore(NextEntry)'
  BY <1>0, StoreGrows
<1>8. ASSUME NEW n \in Node, cj'[n] = cj[n] PROVE Registered(n)'
  BY <1>1, <1>7, <1>8 DEF AddressesInv, Registered
<1>9. ASSUME NEW n \in Node, [Next]_vars PROVE Registered(n)'
  <2>1. /\ cj[n].outputs \subseteq PoolAddrs
        /\ cj[n].outputs \subseteq RegisteredBefore(NextEntry) \cup {AddrOf[p] : p \in {n} \cap WithOutput}
        /\ \A t \in cj[n].psbt : t \subseteq cj[n].outputs /\ Cardinality(t) >= MinPeer
    BY DEF AddressesInv, Registered
  <2>2. cj[n].outputs \subseteq cj'[n].outputs
    BY <1>0, <1>9, OutputsStep
  <2>3. \A t \in cj'[n].psbt : t \subseteq cj'[n].outputs /\ Cardinality(t) >= MinPeer
    BY <1>0, <1>9, <2>1, <2>2, TemplateStep
  <2>4. ASSUME NEW k \in unread[n], ReceiveOutput(n, k)
        PROVE  log[k].addr \in RegisteredBefore(NextEntry) /\ log[k].addr \in PoolAddrs
    <3>1. k \in DOMAIN log /\ log[k] \in Dm /\ log[k].type = "Output"
      BY <1>0, <2>4, ConsumeType DEF ReceiveOutput, InOutputs, relayVars
    <3>2. log[k].addr \in Address /\ k < NextEntry
      BY <1>0, <3>1, StoreGrows DEF Dm
    <3>3. OfThePool(log[k])
      BY <3>1 DEF AddressesInv, Stored
    <3> QED BY <3>1, <3>2, <3>3 DEF RegisteredBefore, OfThePool
  <2>5. /\ cj'[n].outputs \subseteq PoolAddrs
        /\ cj'[n].outputs \subseteq RegisteredBefore(NextEntry) \cup {AddrOf[p] : p \in {n} \cap WithOutput}
    BY <1>0, <1>3, <1>9, <2>1, <2>4, OutputsStep
  <2> QED BY <1>1, <1>7, <2>3, <2>5 DEF Registered
<1>10. ASSUME NEW n \in Node, Restart(n), NEW p \in Node PROVE Registered(p)'
  <2>1. cj' = [cj EXCEPT ![n] = NewCoinJoin]
    BY <1>10 DEF Restart
  <2>2. cj'[n].outputs = {} /\ cj'[n].psbt = {}
    BY <1>0, <2>1 DEF NewCoinJoin
  <2>3. Registered(n)'
    BY <2>2 DEF Registered
  <2>4. p # n => cj'[p] = cj[p]
    BY <1>0, <2>1
  <2> QED BY <1>8, <2>3, <2>4
<1>11. ASSUME NEW n \in Node, SaveState(n) \/ Crash(n) \/ LeaveOutside(n) PROVE cj' = cj
  BY <1>11 DEF SaveState, Crash, LeaveOutside, vars, nodeVars
<1>12. ASSUME NEW d \in Spare, SendSpare(d) PROVE cj' = cj
  BY <1>12 DEF SendSpare, nodeVars
<1>13. \A n \in Node : Registered(n)'
  BY <1>8, <1>9, <1>10, <1>11, <1>12, StepKinds
<1> QED BY <1>6, <1>13 DEF AddressesInv

\* The coin of a node whose process did not end is signed once.
LEMMA OnceNext ==
  ASSUME RestartInv, OnceInv, [RestartNext]_allVars
  PROVE  OnceInv'
<1>0. DataOK
  BY DEF RestartInv, RestartTypeOK
<1>1. PICK m \in Msg : (Sends(m) \/ m.type = "Join") /\ Queued' \subseteq Queued \cup {m}
  BY ChannelsNext
<1>2. Stored' \subseteq Stored \cup Queued
  BY <1>0, RelayNext
<1>3. \A n \in Node \ restarted' : n \in input' => n \in input
  <2>1. [Next]_vars => input' \subseteq input
    BY InputShrinks
  <2>2. ASSUME NEW n \in Node, SaveState(n) \/ Crash(n) \/ LeaveOutside(n) PROVE input' = input
    BY <2>2 DEF SaveState, Crash, LeaveOutside, vars, nodeVars
  <2>3. ASSUME NEW n \in Node, Restart(n)
        PROVE  n \in restarted' /\ (input' = input \cup {n} \/ input' = input \ {n})
    BY <2>3, RestartGoes DEF Restart
  <2>4. ASSUME NEW d \in Spare, SendSpare(d) PROVE input' = input
    BY <2>4 DEF SendSpare, nodeVars
  <2> QED BY <2>1, <2>2, <2>3, <2>4, StepKinds
<1>4. ASSUME NEW n \in Node, m.type = "Input", m.input.coin = n PROVE n \in input /\ n \notin input'
  <2>1. PICK p \in Node : p \in input /\ input' = input \ {p} /\ m.input = SignedInput(p)
    BY <1>1, <1>4 DEF Sends
  <2> QED BY <1>4, <2>1 DEF SignedInput
<1>5. restarted \subseteq restarted'
  BY <1>0, KeysGrow
<1> SUFFICES ASSUME NEW n \in Node \ restarted',
                    NEW x \in Queued' \cup Stored', NEW y \in Queued' \cup Stored',
                    x.type = "Input", x.input.coin = n, y.type = "Input", y.input.coin = n
             PROVE  x = y /\ n \notin input'
  BY DEF OnceInv
<1>6. (x \in Queued \cup Stored \/ x = m) /\ (y \in Queued \cup Stored \/ y = m)
  BY <1>1, <1>2
<1>7. n \in Node \ restarted
  BY <1>5
<1>8. \A z \in Queued \cup Stored : z.type = "Input" /\ z.input.coin = n => n \notin input
  BY <1>7 DEF OnceInv
<1>9. CASE x \in Queued \cup Stored /\ y \in Queued \cup Stored
  BY <1>3, <1>7, <1>9 DEF OnceInv
<1>10. CASE x = m \/ y = m
  <2>1. x = m /\ y = m
    BY <1>4, <1>6, <1>8, <1>10
  <2> QED BY <1>4, <2>1
<1> QED BY <1>6, <1>9, <1>10

-----------------------------------------------------------------------------
(* Whom the initiator lets in                                              *)

LEMMA RememberedNext ==
  ASSUME RestartInv, RememberedInv, SavedIn[Initiator] = {}, [RestartNext]_allVars
  PROVE  RememberedInv'
<1>0. DataOK /\ Initiator \in Node /\ DOMAIN saved = Node /\ peers \in [Node -> SUBSET Conn]
  BY RoundAssumption DEF RestartInv, RestartTypeOK, DataOK
<1>1. ASSUME NEW n \in Node, NEW k, RegisterPeer(n, k)
      PROVE  /\ peers[Initiator] \subseteq peers'[Initiator]
             /\ n = Initiator /\ CanSend(n) => log[k].npub \in peers'[Initiator]
  BY <1>0, <1>1 DEF RegisterPeer
<1>2. saved'[Initiator] = {} /\ peers[Initiator] \subseteq peers'[Initiator]
  <2>1. CASE [Next]_vars /\ UNCHANGED restartVars
    BY <1>1, <2>1, PeersChange DEF RememberedInv, restartVars
  <2>2. ASSUME NEW n \in Node, SaveState(n) \/ Crash(n) \/ LeaveOutside(n)
        PROVE  saved'[Initiator] = {} /\ peers' = peers
    BY <1>0, <2>2 DEF SaveState, Crash, LeaveOutside, vars, nodeVars, restartVars, RememberedInv
  <2>3. ASSUME NEW n \in Node, Restart(n) PROVE saved'[Initiator] = {} /\ peers'[Initiator] = peers[Initiator]
    BY <1>0, <2>3 DEF Restart, RememberedInv
  <2>4. ASSUME NEW d \in Spare, SendSpare(d) PROVE saved' = saved /\ peers' = peers
    BY <2>4 DEF SendSpare, nodeVars, restartVars
  <2> QED BY <2>1, <2>2, <2>3, <2>4, StepKinds DEF RememberedInv
<1>3. PICK m \in Msg : (Sends(m) \/ m.type = "Join") /\ Queued' \subseteq Queued \cup {m}
  BY ChannelsNext
<1>4. m.type = "Credentials" => m.to \in peers'[Initiator]
  BY <1>1, <1>3 DEF Sends
<1>5. \A x \in Queued' : x.type = "Credentials" => x.to \in peers'[Initiator]
  BY <1>2, <1>3, <1>4 DEF RememberedInv
<1>6. mail' \subseteq peers'[Initiator]
  BY <1>0, <1>2, RelayNext DEF RememberedInv
<1> QED BY <1>2, <1>5, <1>6 DEF RememberedInv

LEMMA JoinedTypes ==
  ASSUME DataOK
  PROVE  /\ \A k : IsFiniteSet(JoinedBefore(k)) /\ Cardinality(JoinedBefore(k)) \in Nat
         /\ FirstJoined \subseteq JoinedBefore(NextEntry)
         /\ IsFiniteSet(FirstJoined) /\ Cardinality(FirstJoined) \in Nat
<1>1. log \in Seq(Dm) /\ DOMAIN log = 1..Len(log) /\ Len(log) \in Nat
  BY DEF DataOK
<1>2. \A k : IsFiniteSet(JoinedBefore(k)) /\ Cardinality(JoinedBefore(k)) \in Nat
  <2>1. \A k : IsFiniteSet(JoinedBefore(k))
    BY <1>1, JoinedFinite DEF JoinedBefore
  <2> QED BY <2>1, FS_CardinalityType
<1>3. FirstJoined \subseteq JoinedBefore(NextEntry)
  <2>1. \A k \in DOMAIN log : k < NextEntry
    BY <1>1 DEF NextEntry
  <2>2. \A k \in DOMAIN log : log[k].type = "Join" => log[k].npub \in Conn
    BY <1>1 DEF Dm
  <2> QED BY <2>1, <2>2 DEF FirstJoined, Of, JoinedBefore
<1>4. IsFiniteSet(FirstJoined)
  BY <1>2, <1>3, FS_Subset
<1> QED BY <1>2, <1>3, <1>4, FS_CardinalityType

LEMMA FirstNext ==
  ASSUME RestartInv, Cardinality(FirstJoined) <= MinPeer, [RestartNext]_allVars
  PROVE  FirstJoined \subseteq FirstJoined' /\ Cardinality(FirstJoined') <= MinPeer
<1>0. DataOK
  BY DEF RestartInv, RestartTypeOK
<1>1. /\ NextEntry \in Nat
      /\ \A j \in DOMAIN log : j \in Nat /\ j < NextEntry /\ j \in DOMAIN log' /\ log'[j] = log[j]
      /\ \A j \in DOMAIN log' : j \in DOMAIN log \/ j = NextEntry
      /\ \A k \in Nat : k <= NextEntry => JoinedBefore(k)' = JoinedBefore(k)
  BY <1>0, StoreGrows
<1>2. \A j \in DOMAIN log : JoinedBefore(j)' = JoinedBefore(j)
  BY <1>1
<1>3. FirstJoined \subseteq FirstJoined'
  BY <1>1, <1>2 DEF FirstJoined, Of
<1> PICK N : N = NextEntry
  OBVIOUS
<1> PICK x : x = log'[N].npub
  OBVIOUS
<1> PICK F : F = FirstJoined
  OBVIOUS
<1> PICK J : J = JoinedBefore(N)
  OBVIOUS
<1>4. JoinedBefore(N)' = J
  BY <1>1
<1>5. FirstJoined' \subseteq F \cup {x} /\ (FirstJoined' \subseteq F \/ Cardinality(J) < MinPeer)
  <2>1. ASSUME NEW c \in FirstJoined' PROVE c \in F \/ (c = x /\ Cardinality(J) < MinPeer)
    <3>1. PICK k \in DOMAIN log' : /\ log'[k].type = "Join" /\ log'[k].npub = c
                                   /\ Cardinality(JoinedBefore(k)') < MinPeer
      BY <2>1 DEF FirstJoined, Of
    <3>2. CASE k \in DOMAIN log
      BY <1>1, <1>2, <3>1, <3>2 DEF FirstJoined, Of
    <3>3. CASE k = N
      BY <1>4, <3>1, <3>3
    <3> QED BY <1>1, <3>2, <3>3
  <2> QED BY <2>1
<1>6. F \subseteq J /\ IsFiniteSet(J) /\ Cardinality(J) \in Nat /\ IsFiniteSet(F) /\ Cardinality(F) \in Nat
  BY <1>0, JoinedTypes
<1>7. /\ IsFiniteSet(F \cup {x}) /\ Cardinality(F \cup {x}) \in Nat
      /\ Cardinality(F \cup {x}) <= Cardinality(F) + 1 /\ Cardinality(F) <= Cardinality(J)
  <2>1. IsFiniteSet(F \cup {x}) /\ Cardinality(F \cup {x}) \in {Cardinality(F), Cardinality(F) + 1}
    BY <1>6, FS_AddElement
  <2>2. Cardinality(F) <= Cardinality(J)
    BY <1>6, FS_Subset
  <2> QED BY <1>6, <2>1, <2>2
<1>8. CASE FirstJoined' \subseteq F
  <2>1. Cardinality(FirstJoined') <= Cardinality(F) /\ Cardinality(FirstJoined') \in Nat
    BY <1>6, <1>8, FS_Subset, FS_CardinalityType
  <2> QED BY <1>3, <1>6, <2>1, OpsAssumption
<1>9. CASE FirstJoined' \subseteq F \cup {x} /\ Cardinality(J) < MinPeer
  <2>1. Cardinality(FirstJoined') <= Cardinality(F \cup {x}) /\ Cardinality(FirstJoined') \in Nat
    BY <1>7, <1>9, FS_Subset, FS_CardinalityType
  <2> QED BY <1>3, <1>6, <1>7, <1>9, <2>1, OpsAssumption
<1> QED BY <1>5, <1>8, <1>9

\* Reading in order, the initiator counts one of the first who joined: as long as
\* it counts it has counted all that joined before.
LEMMA CountsFirst ==
  ASSUME RestartInv, CountsAgain, Ordered, StartEarly,
         NEW k \in unread[Initiator], RegisterPeer(Initiator, k)
  PROVE  log[k].npub \in FirstJoined
<1>0. DataOK /\ Initiator \in Node /\ IsFiniteSet(peers[Initiator])
  BY RoundAssumption DEF RestartInv, RestartTypeOK, CountsFinite
<1>1. /\ pc[Initiator] = "Peers" /\ Before(Initiator, StartAt) /\ ~EnoughPeers(Initiator)
      /\ k \in Deliverable(Initiator) /\ log[k].type = "Join"
      /\ k \in DOMAIN log /\ log[k] \in Dm
  BY <1>0, ConsumeType DEF RegisterPeer, InPeers, relayVars
<1>2. \A j \in DOMAIN log : Passed(Initiator, j) /\ log[j].type = "Join" => log[j].npub \in peers[Initiator]
  <2>1. clock \in Nat /\ StartAt \in Nat
    BY <1>0, RoundAssumption DEF DataOK, StartAt
  <2>2. ~(clock >= StartAt /\ Initiator \notin late)
    BY <1>1, <2>1 DEF Before
  <2> QED BY <1>1, <2>2 DEF CountsAgain, HasCounted
<1>3. \A j \in DOMAIN log : j < k => Passed(Initiator, j)
  <2>1. \A i \in unread[Initiator] : k <= i
    BY <1>1 DEF Deliverable
  <2>2. DOMAIN log \subseteq Nat
    BY <1>0 DEF DataOK
  <2> QED BY <1>1, <2>1, <2>2 DEF Passed
<1>4. JoinedBefore(k) \subseteq peers[Initiator]
  BY <1>2, <1>3 DEF JoinedBefore
<1>5. Cardinality(peers[Initiator]) < MinPeer
  <2>1. Cardinality(peers[Initiator]) \in Nat
    BY <1>0, FS_CardinalityType
  <2> QED BY <1>1, <2>1, OpsAssumption DEF EnoughPeers
<1>6. Cardinality(JoinedBefore(k)) < MinPeer
  <2>1. Cardinality(JoinedBefore(k)) <= Cardinality(peers[Initiator])
    BY <1>0, <1>4, FS_Subset
  <2>2. Cardinality(JoinedBefore(k)) \in Nat /\ Cardinality(peers[Initiator]) \in Nat
    BY <1>0, JoinedTypes, FS_CardinalityType
  <2> QED BY <1>5, <2>1, <2>2, OpsAssumption
<1>7. log[k].npub \in Conn
  BY <1>1 DEF Dm
<1> QED BY <1>1, <1>6, <1>7 DEF FirstJoined, Of

LEMMA FirstServedNext ==
  ASSUME RestartInv, FirstServed, CountsAgain, Ordered, StartEarly, [RestartNext]_allVars
  PROVE  FirstServed'
<1>0. DataOK /\ Initiator \in Node /\ peers \in [Node -> SUBSET Conn]
  BY RoundAssumption DEF RestartInv, RestartTypeOK, DataOK
<1>1. FirstJoined \subseteq FirstJoined' /\ Cardinality(FirstJoined') <= MinPeer
  BY FirstNext DEF FirstServed
<1>2. peers'[Initiator] \subseteq FirstJoined
  <2>1. CASE [Next]_vars
    <3>1. ASSUME NEW n \in Node, NEW k \in unread[n], RegisterPeer(n, k)
          PROVE  peers'[Initiator] \subseteq FirstJoined
      <4>1. peers' = peers \/ peers' = [peers EXCEPT ![n] = @ \cup {log[k].npub}]
        BY <3>1 DEF RegisterPeer
      <4>2. n = Initiator => log[k].npub \in FirstJoined
        BY <3>1, CountsFirst
      <4> QED BY <1>0, <4>1, <4>2 DEF FirstServed
    <3> QED BY <2>1, <3>1, PeersChange DEF FirstServed
  <2>2. ASSUME NEW n \in Node, SaveState(n) \/ Crash(n) \/ LeaveOutside(n) PROVE peers' = peers
    BY <2>2 DEF SaveState, Crash, LeaveOutside, vars, nodeVars
  <2>3. ASSUME NEW n \in Node, Restart(n) PROVE peers'[Initiator] \subseteq peers[Initiator]
    BY <1>0, <2>3 DEF Restart
  <2>4. ASSUME NEW d \in Spare, SendSpare(d) PROVE peers' = peers
    BY <2>4 DEF SendSpare, nodeVars
  <2> QED BY <2>1, <2>2, <2>3, <2>4, StepKinds DEF FirstServed
<1>3. PICK m \in Msg : (Sends(m) \/ m.type = "Join") /\ Queued' \subseteq Queued \cup {m}
  BY ChannelsNext
<1>4. m.type = "Credentials" => m.to \in FirstJoined
  BY <1>3, CountsFirst DEF Sends
<1>5. \A x \in Queued' : x.type = "Credentials" => x.to \in FirstJoined'
  BY <1>1, <1>3, <1>4 DEF FirstServed
<1>6. mail' \subseteq FirstJoined'
  BY <1>0, <1>1, RelayNext DEF FirstServed
<1> QED BY <1>1, <1>2, <1>5, <1>6 DEF FirstServed

LEMMA DummyFirstNext ==
  ASSUME RestartInv, DummyFirst, ~EagerJoin, [RestartNext]_allVars
  PROVE  DummyFirst'
<1>0. DataOK /\ Dummy \in Conn
  BY DEF RestartInv, RestartTypeOK, Conn
<1> PICK N : N = NextEntry
  OBVIOUS
<1>1. /\ NextEntry \in Nat
      /\ \A j \in DOMAIN log : j \in Nat /\ j < N /\ j \in DOMAIN log' /\ log'[j] = log[j]
      /\ \A j \in DOMAIN log' : j \in DOMAIN log \/ j = N
      /\ \A k \in Nat : k <= N => JoinedBefore(k)' = JoinedBefore(k)
      /\ JoinedBefore(NextEntry) \subseteq JoinedBefore(NextEntry)'
  BY <1>0, StoreGrows
<1>2. PICK m \in Msg : /\ Sends(m) \/ (m.type = "Join" /\ m.npub \notin Node)
                       /\ Queued' \subseteq Queued \cup {m}
  BY ChannelsNext
<1>3. m.type = "Join" /\ m.npub \in Node => Dummy \in JoinedBefore(NextEntry)
  <2>1. ASSUME NEW n \in Node, JoinPool(n) PROVE Dummy \in JoinedBefore(NextEntry)
    <3>1. PICK k \in DOMAIN log : log[k] = Join(Dummy)
      BY <2>1 DEF JoinPool, DummyStored
    <3> QED BY <1>0, <1>1, <3>1 DEF Join, JoinedBefore
  <2> QED BY <1>2, <2>1 DEF Sends
<1>4. \A x \in Queued' : x.type = "Join" /\ x.npub \in Node => Dummy \in JoinedBefore(NextEntry)'
  BY <1>1, <1>2, <1>3 DEF DummyFirst
<1>5. ASSUME NEW x \in Stored \cup Queued, x.type = "Join", x.npub \in Node
      PROVE  Dummy \in JoinedBefore(N)
  <2>1. ASSUME NEW k \in DOMAIN log, x = log[k] PROVE Dummy \in JoinedBefore(N)
    <3>1. Dummy \in JoinedBefore(k)
      BY <1>5, <2>1 DEF DummyFirst
    <3>2. \A j \in DOMAIN log : j < k => j < N
      BY <1>1
    <3> QED BY <3>1, <3>2 DEF JoinedBefore
  <2> QED BY <1>5, <2>1 DEF DummyFirst, Stored
<1>6. ASSUME NEW k \in DOMAIN log', log'[k].type = "Join", log'[k].npub \in Node
      PROVE  Dummy \in JoinedBefore(k)'
  <2>1. CASE k \in DOMAIN log
    <3>1. JoinedBefore(k)' = JoinedBefore(k) /\ log'[k] = log[k]
      BY <1>1, <2>1
    <3> QED BY <1>6, <2>1, <3>1 DEF DummyFirst
  <2>2. CASE k = N
    <3>1. log'[k] \in Stored \cup Queued
      BY <1>0, <1>6, RelayNext DEF Stored
    <3>2. JoinedBefore(k)' = JoinedBefore(N)
      BY <1>1, <2>2
    <3> QED BY <1>5, <1>6, <3>1, <3>2
  <2> QED BY <1>1, <2>1, <2>2
<1> QED BY <1>4, <1>6 DEF DummyFirst

\* Where the initiator has done with the registration of peers.
Beyond == {"Done"} \cup (InPool \ {"Posted", "Peers"})

LEMMA LateChange ==
  ASSUME [Next]_vars
  PROVE  late' \subseteq late \/ Tick
<1>1. ASSUME NEW n \in Node, \/ JoinPool(n) \/ ReceiveCredentials(n) \/ AbortJoin(n) \/ JoinTimeout(n)
                             \/ EmptyPoll(n) \/ LeavePeers(n)
      PROVE  late' \subseteq late
  BY <1>1 DEF JoinPool, ReceiveCredentials, AbortJoin, JoinTimeout, EmptyPoll, LeavePeers
<1>2. ASSUME NEW n \in Node, \/ RegisterOutput(n) \/ LeaveOutputs(n) \/ RegisterInput(n)
                             \/ LeaveInputs(n) \/ BroadcastFails(n) \/ BroadcastTx(n)
      PROVE  late' \subseteq late
  BY <1>2 DEF RegisterOutput, LeaveOutputs, RegisterInput, LeaveInputs, BroadcastFails, BroadcastTx
<1>3. ASSUME NEW n \in Node, Receive(n) PROVE late' \subseteq late
  BY <1>3 DEF Receive, RegisterPeer, DropInPeers, InPeers, ReceiveOutput, ReceiveEarlyInput,
              DropInOutputs, InOutputs, ReceiveInput, DropInInputs, InInputs, Consume
<1>4. CASE Post \/ SendDummy \/ (\E c \in Conn : Transmit(c) \/ LinkDies(c) \/ ListenStops(c)) \/ UNCHANGED vars
  BY <1>4 DEF Post, SendDummy, Transmit, LinkDies, ListenStops, vars
<1>5. ASSUME NEW n \in Node, Step(n) PROVE late' \subseteq late
  BY <1>1, <1>2, <1>3, <1>5 DEF Step
<1> QED BY <1>4, <1>5 DEF Next

\* A deadline that passed, or is none, catches nobody.
LEMMA LateStays ==
  ASSUME DataOK, [Next]_vars, NEW n \in Node, n \notin late,
         pc[n] \in {"Configured", "Posted", "Down"} \/ (pc[n] = "Peers" /\ clock >= StartAt)
  PROVE  n \notin late'
<1>1. clock \in Nat /\ StartAt \in Nat
  BY RoundAssumption DEF DataOK, StartAt
<1>2. ASSUME Tick PROVE n \notin late'
  <2>1. PICK caught \in SUBSET {p \in Node : \E d \in LoopDeadline(p) : clock < d /\ d <= clock + 1} :
          late' = late \cup caught
    BY <1>2 DEF Tick
  <2>2. ASSUME NEW d \in LoopDeadline(n), clock < d PROVE FALSE
    <3>1. pc[n] \in {"Configured", "Posted", "Down"} => LoopDeadline(n) = {}
      BY DEF LoopDeadline
    <3>2. pc[n] = "Peers" => LoopDeadline(n) \subseteq {StartAt}
      BY DEF LoopDeadline
    <3> QED BY <1>1, <2>2, <3>1, <3>2
  <2> QED BY <2>1, <2>2
<1> QED BY <1>2, LateChange

\* From where the initiator gets to where CountsAgain speaks of it.
LEMMA InitiatorStep ==
  ASSUME DataOK, DOMAIN pc = Node, [Next]_vars, pc[Initiator] # "Connecting"
  PROVE  /\ pc'[Initiator] # "Connecting"
         /\ pc'[Initiator] \in {"Configured", "Posted"} => pc[Initiator] \in {"Configured", "Posted"}
         /\ pc'[Initiator] = "Peers" => pc[Initiator] \in {"Posted", "Peers"}
         /\ pc'[Initiator] = "Down" => pc[Initiator] = "Down"
         /\ pc'[Initiator] \in Beyond => pc[Initiator] \in Beyond \/ LeavePeers(Initiator)
<1> DEFINE Goal == /\ pc'[Initiator] # "Connecting"
                   /\ pc'[Initiator] \in {"Configured", "Posted"} =>
                        pc[Initiator] \in {"Configured", "Posted"}
                   /\ pc'[Initiator] = "Peers" => pc[Initiator] \in {"Posted", "Peers"}
                   /\ pc'[Initiator] = "Down" => pc[Initiator] = "Down"
                   /\ pc'[Initiator] \in Beyond => pc[Initiator] \in Beyond \/ LeavePeers(Initiator)
<1> USE DEF Goto, Fail, SendThenGoto, Beyond, InPool
<1>0. Initiator \in Node
  BY RoundAssumption
<1>1. CASE Still(Initiator)
  BY <1>1 DEF Still
<1>2. CASE Post \/ SendDummy
  BY <1>0, <1>2 DEF Post, SendDummy
<1>3. CASE \/ JoinPool(Initiator) \/ ReceiveCredentials(Initiator)
           \/ AbortJoin(Initiator) \/ JoinTimeout(Initiator)
  BY <1>3 DEF JoinPool, ReceiveCredentials, AbortJoin, JoinTimeout
<1>4. CASE EmptyPoll(Initiator) \/ LeavePeers(Initiator)
  BY <1>0, <1>4 DEF EmptyPoll, LeavePeers
<1>5. ASSUME NEW k \in unread[Initiator], RegisterPeer(Initiator, k) \/ DropInPeers(Initiator, k) PROVE Goal
  BY <1>0, <1>5 DEF RegisterPeer, DropInPeers, InPeers
<1>6. ASSUME NEW k \in unread[Initiator], \/ ReceiveOutput(Initiator, k) \/ ReceiveEarlyInput(Initiator, k)
                                          \/ DropInOutputs(Initiator, k)
      PROVE Goal
  BY <1>0, <1>6 DEF ReceiveOutput, ReceiveEarlyInput, DropInOutputs, InOutputs
<1>7. ASSUME NEW k \in unread[Initiator], ReceiveInput(Initiator, k) \/ DropInInputs(Initiator, k) PROVE Goal
  BY <1>0, <1>7 DEF ReceiveInput, DropInInputs, InInputs
<1>8. CASE RegisterOutput(Initiator) \/ RegisterInput(Initiator)
  BY <1>0, <1>8 DEF RegisterOutput, RegisterInput
<1>9. CASE LeaveOutputs(Initiator) \/ LeaveInputs(Initiator)
  BY <1>0, <1>9 DEF LeaveOutputs, LeaveInputs
<1>10. CASE BroadcastFails(Initiator) \/ BroadcastTx(Initiator)
  BY <1>0, <1>10 DEF BroadcastFails, BroadcastTx
<1> HIDE DEF Goal
<1>11. Goal
  <2>1. CASE Step(Initiator)
    BY <1>3, <1>4, <1>5, <1>6, <1>7, <1>8, <1>9, <1>10, <2>1 DEF Step, Receive, Goal
  <2> QED BY <1>0, <1>1, <1>2, <2>1, OtherStill DEF Goal
<1> QED BY <1>11 DEF Goal

\* The initiator reads nothing: what it has counted is still all that it read.
LEMMA CountedStays ==
  ASSUME DataOK, Ordered, [Next]_vars, ~Receive(Initiator),
         pc[Initiator] \in {"Configured", "Posted", "Peers"},
         NEW S, NEW T, S \subseteq T, HasCounted(S)
  PROVE  HasCounted(T)'
<1>0. Initiator \in Node /\ clock \in Nat /\ clock <= clock' /\ clock' \in Nat
      /\ StartAt \in Nat /\ StartAt' = StartAt
  BY RoundAssumption, ClockAndLink DEF DataOK, StartAt
<1>1. CASE clock >= StartAt /\ Initiator \notin late
  <2>1. Initiator \notin late'
    BY <1>0, <1>1, LateStays
  <2>2. clock' >= StartAt
    BY <1>0, <1>1
  <2> QED BY <1>0, <2>1, <2>2 DEF HasCounted
<1>2. CASE \A j \in DOMAIN log : Passed(Initiator, j) /\ log[j].type = "Join" => log[j].npub \in S
  <2>1. Unmoved(Initiator)
    BY <1>0, UnreadStep DEF Attentive
  <2>2. \A j \in DOMAIN log : log'[j] = log[j]
    BY LogGrows
  <2> QED BY <1>2, <2>1, <2>2 DEF Unmoved, HasCounted
<1> QED BY <1>1, <1>2 DEF HasCounted

\* Or it reads a Join, which it counts.
LEMMA CountedRead ==
  ASSUME DataOK, DOMAIN pc = Node, Ordered, HasCounted(peers[Initiator]), Receive(Initiator),
         pc[Initiator] = "Peers", pc'[Initiator] = "Peers"
  PROVE  HasCounted(peers[Initiator])'
<1>0. Initiator \in Node /\ clock \in Nat /\ StartAt \in Nat /\ peers \in [Node -> SUBSET Conn]
  BY RoundAssumption DEF DataOK, StartAt
<1>1. PICK k \in unread[Initiator] : TRUE
  BY DEF Receive
<1>2. PICK i \in unread[Initiator] :
        /\ i \in DOMAIN log /\ UNCHANGED <<log, link>>
        /\ \A j \in DOMAIN log' : Passed(Initiator, j)' => j \in DOMAIN log /\ (j = i \/ Passed(Initiator, j))
        /\ \/ RegisterPeer(Initiator, i) \/ DropInPeers(Initiator, i) \/ ReceiveOutput(Initiator, i)
           \/ ReceiveEarlyInput(Initiator, i) \/ DropInOutputs(Initiator, i)
           \/ ReceiveInput(Initiator, i) \/ DropInInputs(Initiator, i)
  BY <1>0, <1>1, ReadsInOrder
<1>3. RegisterPeer(Initiator, i) \/ DropInPeers(Initiator, i)
  BY <1>2 DEF ReceiveOutput, ReceiveEarlyInput, DropInOutputs, InOutputs, ReceiveInput, DropInInputs, InInputs
<1>4. \A j \in DOMAIN log : Passed(Initiator, j) /\ log[j].type = "Join" => log[j].npub \in peers[Initiator]
  <2>1. ~(clock >= StartAt /\ Initiator \notin late)
    BY <1>0, <1>3 DEF RegisterPeer, DropInPeers, InPeers, Before
  <2> QED BY <2>1 DEF HasCounted
<1>5. /\ peers[Initiator] \subseteq peers'[Initiator]
      /\ log[i].type = "Join" => log[i].npub \in peers'[Initiator]
  <2>1. CASE RegisterPeer(Initiator, i)
    <3>1. log[i].npub \notin peers[Initiator] => CanSend(Initiator)
      BY <1>0, <2>1 DEF RegisterPeer, SendThenGoto, Fail
    <3> QED BY <1>0, <2>1, <3>1 DEF RegisterPeer
  <2>2. CASE DropInPeers(Initiator, i)
    BY <2>2 DEF DropInPeers, nodeVars
  <2> QED BY <1>3, <2>1, <2>2
<1> QED BY <1>2, <1>4, <1>5 DEF HasCounted

LEMMA CountsAgainRound ==
  ASSUME RestartInv, CountsAgain, Ordered, [Next]_vars, UNCHANGED restartVars
  PROVE  CountsAgain'
<1>0. /\ DataOK /\ DOMAIN pc = Node /\ CountsFinite /\ Initiator \in Node
      /\ peers \in [Node -> SUBSET Conn]
  BY RoundAssumption DEF RestartInv, RestartTypeOK, DataOK
<1>1. clock <= clock' /\ clock \in Nat /\ clock' \in Nat /\ StartAt \in Nat /\ StartAt' = StartAt
  BY <1>0, ClockAndLink, RoundAssumption DEF DataOK, StartAt
<1>2. /\ pc'[Initiator] # "Connecting"
      /\ pc'[Initiator] \in {"Configured", "Posted"} => pc[Initiator] \in {"Configured", "Posted"}
      /\ pc'[Initiator] = "Peers" => pc[Initiator] \in {"Posted", "Peers"}
      /\ pc'[Initiator] = "Down" => pc[Initiator] = "Down"
      /\ pc'[Initiator] \in Beyond => pc[Initiator] \in Beyond \/ LeavePeers(Initiator)
  BY <1>0, InitiatorStep DEF CountsAgain
<1>3. CountsFinite' /\ peers[Initiator] \subseteq peers'[Initiator]
  <2>1. ASSUME NEW n \in Node, NEW k, RegisterPeer(n, k) PROVE peers[Initiator] \subseteq peers'[Initiator]
    BY <1>0, <2>1 DEF RegisterPeer
  <2> QED BY <1>0, <2>1, CountsNext, PeersChange
<1>4. pc'[Initiator] \in {"Configured", "Posted"} => HasCounted({})'
  <2> SUFFICES ASSUME pc'[Initiator] \in {"Configured", "Posted"} PROVE HasCounted({})'
    OBVIOUS
  <2>1. pc[Initiator] \in {"Configured", "Posted"} /\ HasCounted({})
    BY <1>2 DEF CountsAgain
  <2>2. ~Receive(Initiator)
    BY <2>1 DEF Receive, RegisterPeer, DropInPeers, InPeers, ReceiveOutput, ReceiveEarlyInput,
                DropInOutputs, InOutputs, ReceiveInput, DropInInputs, InInputs
  <2> QED BY <1>0, <2>1, <2>2, CountedStays
<1>5. pc'[Initiator] = "Peers" => HasCounted(peers[Initiator])'
  <2> SUFFICES ASSUME pc'[Initiator] = "Peers" PROVE HasCounted(peers[Initiator])'
    OBVIOUS
  <2>1. PICK S \in {{}, peers[Initiator]} : HasCounted(S) /\ (pc[Initiator] = "Peers" => S = peers[Initiator])
    BY <1>2 DEF CountsAgain
  <2>2. CASE Receive(Initiator)
    <3>1. pc[Initiator] = "Peers"
      BY <1>2, <2>2 DEF Receive, RegisterPeer, DropInPeers, InPeers, ReceiveOutput, ReceiveEarlyInput,
                        DropInOutputs, InOutputs, ReceiveInput, DropInInputs, InInputs
    <3> QED BY <1>0, <2>1, <2>2, <3>1, CountedRead
  <2>3. CASE ~Receive(Initiator)
    <3>1. PICK T : T = peers'[Initiator]
      OBVIOUS
    <3>2. HasCounted(T)'
      BY <1>0, <1>2, <1>3, <2>1, <2>3, <3>1, CountedStays
    <3> QED BY <3>1, <3>2 DEF HasCounted
  <2> QED BY <2>2, <2>3
<1>6. pc'[Initiator] = "Down" => Initiator \notin late'
  BY <1>0, <1>2, LateStays DEF CountsAgain
<1>7. Initiator \notin restarted' /\ pc'[Initiator] \in Beyond => PeersOver(peers[Initiator])'
  <2> SUFFICES ASSUME Initiator \notin restarted, pc'[Initiator] \in Beyond
               PROVE  PeersOver(peers[Initiator])'
    BY DEF restartVars
  <2>1. PeersOver(peers[Initiator])
    <3>1. CASE LeavePeers(Initiator)
      BY <3>1 DEF LeavePeers, After, EnoughPeers, PeersOver
    <3>2. CASE pc[Initiator] \in Beyond
      BY <3>2 DEF CountsAgain, Beyond
    <3> QED BY <1>2, <3>1, <3>2
  <2>2. PICK T : T = peers'[Initiator]
    OBVIOUS
  <2>3. IsFiniteSet(T) /\ peers[Initiator] \subseteq T
    BY <1>0, <1>3, <2>2 DEF CountsFinite
  <2>4. PeersOver(T)'
    BY <1>0, <1>1, <2>1, <2>3, OverStays
  <2> QED BY <2>2, <2>4 DEF PeersOver
<1>8. \A s \in saved'[Initiator] : s.key /\ (s.peers >= MinPeer \/ clock' >= StartAt)
  BY <1>1 DEF CountsAgain, restartVars
<1> QED BY <1>1, <1>2, <1>4, <1>5, <1>6, <1>7, <1>8 DEF CountsAgain, Beyond

\* Where restart leads the initiator: it counts from the first Join on, unless
\* nobody is counted any more.
LEMMA CountsAgainRestart ==
  ASSUME RestartInv, CountsAgain, Ordered, Restart(Initiator)
  PROVE  CountsAgain'
<1>0. /\ DataOK /\ DOMAIN pc = Node /\ Initiator \in Node /\ DOMAIN saved = Node
      /\ unread \in [Node -> SUBSET Nat] /\ \A s \in saved[Initiator] : s \in SavedState
  BY RoundAssumption DEF RestartInv, RestartTypeOK, DataOK
<1>1. PICK s \in saved[Initiator] : \E D \in Drainable(s) :
        /\ unread' = [unread EXCEPT ![Initiator] = IF s.key THEN DOMAIN log \ D ELSE {}]
        /\ \E w \in {"Done", "Posted", "Peers", "Outside", "Failed"} :
             /\ pc' = [pc EXCEPT ![Initiator] = w]
             /\ w = "Posted" => ~Corrupted(Totals(s, D))
             /\ w # "Peers"
  BY <1>0, RestartGoes
<1>2. PICK D \in Drainable(s) :
        /\ unread' = [unread EXCEPT ![Initiator] = IF s.key THEN DOMAIN log \ D ELSE {}]
        /\ \E w \in {"Done", "Posted", "Peers", "Outside", "Failed"} :
             /\ pc' = [pc EXCEPT ![Initiator] = w]
             /\ w = "Posted" => ~Corrupted(Totals(s, D))
             /\ w # "Peers"
  BY <1>1
<1>3. /\ saved' = [saved EXCEPT ![Initiator] = {}] /\ restarted' = restarted \cup {Initiator}
      /\ UNCHANGED <<clock, log, late>> /\ pc[Initiator] = "Down"
  BY DEF Restart, relayVars
<1>4. s.key /\ (s.peers >= MinPeer \/ clock >= StartAt) /\ Initiator \notin late
  BY <1>1, <1>3 DEF CountsAgain
<1>5. pc'[Initiator] = "Posted" => HasCounted({})'
  <2>1. CASE clock >= StartAt
    BY <1>3, <1>4, <2>1 DEF HasCounted
  <2>2. CASE s.peers >= MinPeer /\ pc'[Initiator] = "Posted"
    <3> DEFINE J == Of(D, "Join")
    <3>1. ~(Totals(s, D).peers > MinPeer)
      BY <1>0, <1>2, <2>2 DEF Corrupted
    <3>2. ~(s.peers + Cardinality(J) > MinPeer)
      BY <3>1 DEF Totals
    <3>3. D \subseteq DOMAIN log /\ IsFiniteSet(DOMAIN log)
      <4>1. Len(log) \in Nat /\ DOMAIN log = 1..Len(log)
        BY <1>0 DEF DataOK
      <4>2. IsFiniteSet(DOMAIN log)
        BY <4>1, FS_Interval
      <4>3. D \subseteq DOMAIN log
        BY <1>4, <4>1 DEF Drainable
      <4> QED BY <4>2, <4>3
    <3>4. IsFiniteSet(J)
      <4>1. J \subseteq DOMAIN log
        BY <3>3 DEF Of
      <4> QED BY <3>3, <4>1, FS_Subset
    <3>5. s.peers \in Nat
      BY <1>0, <1>1 DEF SavedState
    <3> HIDE DEF J
    <3>6. Cardinality(J) = 0
      BY <2>2, <3>2, <3>4, <3>5, FS_CardinalityType, OpsAssumption
    <3>7. J = {}
      BY <3>4, <3>6, FS_EmptySet
    <3>8. ASSUME NEW j \in DOMAIN log', Passed(Initiator, j)', log'[j].type = "Join" PROVE FALSE
      <4>1. unread'[Initiator] = DOMAIN log \ D
        BY <1>0, <1>2, <1>4
      <4>2. j \in D
        BY <1>3, <3>8, <4>1 DEF Passed
      <4> QED BY <1>3, <3>7, <3>8, <4>2 DEF J, Of
    <3> QED BY <3>8 DEF HasCounted
  <2> QED BY <1>4, <2>1, <2>2
<1>6. pc'[Initiator] \in {"Done", "Posted", "Outside", "Failed"}
  BY <1>0, <1>2
<1>7. saved'[Initiator] = {} /\ Initiator \in restarted'
  BY <1>0, <1>3
<1> QED BY <1>5, <1>6, <1>7 DEF CountsAgain

LEMMA CountsAgainNext ==
  ASSUME RestartInv, KeysInv, CountsAgain, Ordered, SavedIn[Initiator] \cap {"Posted", "Peers"} = {},
         [RestartNext]_allVars
  PROVE  CountsAgain'
<1>0. /\ DataOK /\ DOMAIN pc = Node /\ DOMAIN saved = Node /\ CountsFinite /\ Initiator \in Node
      /\ DOMAIN unread = Node /\ DOMAIN peers = Node /\ carried \in [Node -> Nat]
      /\ DOMAIN link = Conn /\ Initiator \in Conn
  BY RoundAssumption DEF RestartInv, RestartTypeOK, DataOK, Conn
<1>1. ASSUME UNCHANGED <<clock, log>>, link'[Initiator] = link[Initiator], late' \subseteq late, unread'[Initiator] = unread[Initiator],
             pc'[Initiator] = pc[Initiator], peers'[Initiator] = peers[Initiator],
             saved'[Initiator] = saved[Initiator], restarted \subseteq restarted'
      PROVE  CountsAgain'
  <2>1. ASSUME NEW S, HasCounted(S) PROVE HasCounted(S)'
    BY <1>1, <2>1 DEF HasCounted, Passed
  <2>2. HasCounted({}) => HasCounted({})'
    BY <2>1
  <2>3. HasCounted(peers[Initiator]) => HasCounted(peers[Initiator])'
    <3>1. PICK S : S = peers[Initiator]
      OBVIOUS
    <3>2. HasCounted(S) => HasCounted(S)'
      BY <2>1
    <3> QED BY <1>1, <3>1, <3>2 DEF HasCounted
  <2>4. PeersOver(peers[Initiator])' <=> PeersOver(peers[Initiator])
    BY <1>1 DEF PeersOver
  <2> QED BY <1>1, <2>2, <2>3, <2>4 DEF CountsAgain
<1>2. ASSUME NEW n \in Node, SaveState(n) PROVE CountsAgain'
  <2>1. /\ pc[n] \in SavedIn[n] /\ restarted = {} /\ UNCHANGED <<vars, carried, restarted>>
        /\ saved' = [saved EXCEPT ![n] = {State(n)}]
    BY <1>2 DEF SaveState
  <2>2. CASE n # Initiator
    BY <1>0, <1>1, <2>1, <2>2 DEF vars
  <2>3. CASE n = Initiator
    <3>1. pc[Initiator] \in Beyond /\ pc[Initiator] # "Connecting"
      <4>1. /\ SavedIn[Initiator] \subseteq {"Connecting", "Done"} \cup InPool
            /\ "Connecting" \notin SavedIn[Initiator]
        BY <1>0, RestartAssumption
      <4> QED BY <2>1, <2>3, <4>1 DEF Beyond
    <3>2. PeersOver(peers[Initiator])
      BY <2>1, <3>1 DEF CountsAgain, Beyond
    <3>3. State(Initiator).key /\ (State(Initiator).peers >= MinPeer \/ clock >= StartAt)
      <4>1. Cardinality(peers[Initiator]) \in Nat /\ carried[Initiator] \in Nat
        BY <1>0, FS_CardinalityType DEF CountsFinite
      <4>2. Cardinality(peers[Initiator]) >= MinPeer =>
              carried[Initiator] + Cardinality(peers[Initiator]) >= MinPeer
        BY <4>1, OpsAssumption
      <4> QED BY <3>1, <3>2, <4>2 DEF PeersOver, State
    <3>4. \A s \in saved'[Initiator] : s.key /\ (s.peers >= MinPeer \/ clock' >= StartAt)
      BY <1>0, <2>1, <2>3, <3>3 DEF vars
    <3>5. \A S : HasCounted(S)' <=> HasCounted(S)
      BY <2>1 DEF HasCounted, Passed, vars
    <3> QED BY <2>1, <3>1, <3>2, <3>4, <3>5 DEF CountsAgain, Beyond, PeersOver, vars
  <2> QED BY <2>2, <2>3
<1>3. ASSUME NEW n \in Node, Crash(n) PROVE CountsAgain'
  <2>1. /\ pc' = [pc EXCEPT ![n] = "Down"] /\ unread' = [unread EXCEPT ![n] = {}] /\ late' = late \ {n}
        /\ UNCHANGED <<clock, log, link, peers, saved, restarted>>
    BY <1>3 DEF Crash, relayVars, nodeVars, restartVars
  <2>2. CASE n # Initiator
    BY <1>0, <1>1, <2>1, <2>2
  <2>3. CASE n = Initiator
    BY <1>0, <2>1, <2>3 DEF CountsAgain, InPool
  <2> QED BY <2>2, <2>3
<1>4. ASSUME NEW n \in Node, Restart(n) PROVE CountsAgain'
  <2>1. CASE n = Initiator
    BY <1>4, <2>1, CountsAgainRestart
  <2>2. CASE n # Initiator
    <3>1. PICK s \in saved[n] : \E D \in Drainable(s) :
            /\ unread' = [unread EXCEPT ![n] = IF s.key THEN DOMAIN log \ D ELSE {}]
            /\ \E w \in {"Done", "Posted", "Peers", "Outside", "Failed"} : pc' = [pc EXCEPT ![n] = w]
      BY <1>4, RestartGoes
    <3>2. /\ UNCHANGED <<clock, log, late>> /\ peers' = [peers EXCEPT ![n] = {}]
          /\ link' = [link EXCEPT ![n] = "up"]
          /\ saved' = [saved EXCEPT ![n] = {}] /\ restarted' = restarted \cup {n}
      BY <1>4 DEF Restart, relayVars
    <3>3. unread'[Initiator] = unread[Initiator] /\ pc'[Initiator] = pc[Initiator]
      BY <1>0, <2>2, <3>1
    <3> QED BY <1>0, <1>1, <2>2, <3>2, <3>3
  <2> QED BY <2>1, <2>2
<1>5. ASSUME NEW n \in Node, LeaveOutside(n) PROVE CountsAgain'
  <2>1. /\ pc[n] = "Outside" /\ pc' = [pc EXCEPT ![n] = "SendOutput"]
        /\ UNCHANGED <<clock, log, link, unread, late, peers, saved, restarted>>
    BY <1>5 DEF LeaveOutside, Goto, relayVars, nodeVars, restartVars
  <2>2. CASE n # Initiator
    BY <1>0, <1>1, <2>1, <2>2
  <2>3. CASE n = Initiator
    <3>1. Initiator \in restarted
      BY <1>0, <2>1, <2>3 DEF KeysInv
    <3> QED BY <1>0, <2>1, <2>3, <3>1 DEF CountsAgain
  <2> QED BY <2>2, <2>3
<1>6. ASSUME NEW d \in Spare, SendSpare(d) PROVE CountsAgain'
  <2>1. /\ pc[Initiator] = "Posted" /\ \E w \in {"Peers", "Failed"} : pc' = [pc EXCEPT ![Initiator] = w]
        /\ UNCHANGED <<clock, log, link, unread, late, peers, saved, restarted>>
    BY <1>6 DEF SendSpare, Goto, Fail, relayVars, nodeVars, restartVars
  <2>2. HasCounted(peers[Initiator])'
    BY <2>1 DEF CountsAgain, HasCounted, Passed
  <2>3. pc'[Initiator] \in {"Peers", "Failed"}
    BY <1>0, <2>1
  <2> QED BY <2>1, <2>2, <2>3 DEF CountsAgain, InPool
<1> QED BY <1>2, <1>3, <1>4, <1>5, <1>6, CountsAgainRound, StepKinds

-----------------------------------------------------------------------------
(* The invariants of a round with a restart                                *)

\* The initiator's state is not taken while it counts the peers, it reads in the
\* order of the relay's log, the dummy's Join is stored before any other, and the
\* registration of peers ends when they are enough.
CountsKept == /\ Ordered /\ ~EagerJoin /\ StartEarly
              /\ SavedIn[Initiator] \cap {"Posted", "Peers"} = {}

\* What holds whatever the configuration is.
KeptInv == RestartInv /\ KeysInv /\ AddressesInv /\ OnceInv

LEMMA NothingSent ==
  ASSUME RestartInit
  PROVE  Queued = {} /\ Stored = {} /\ DOMAIN log = {}
BY DEF RestartInit, Init, Queued, Stored

LEMMA KeptStart == ASSUME RestartInit PROVE KeptInv
<1>1. RestartInv
  BY RestartStart
<1>2. /\ Queued = {} /\ Stored = {} /\ restarted = {} /\ pc = [n \in Node |-> "Configured"]
      /\ saved = [n \in Node |-> {}] /\ peers = [n \in Node |-> {}] /\ cj = [n \in Node |-> NewCoinJoin]
  BY NothingSent DEF RestartInit, Init
<1>3. KeysInv
  BY <1>2 DEF KeysInv, ActsWithKey, InPool, NewCoinJoin
<1>4. AddressesInv
  BY <1>2 DEF AddressesInv, Registered, NewCoinJoin
<1>5. OnceInv
  BY <1>2 DEF OnceInv
<1> QED BY <1>1, <1>3, <1>4, <1>5 DEF KeptInv

LEMMA KeptInvariant == RestartSpec => []KeptInv
<1>1. RestartInit => KeptInv
  BY KeptStart
<1>2. KeptInv /\ [RestartNext]_allVars => KeptInv'
  BY RestartStep, KeysNext, AddressesNext, OnceNext DEF KeptInv
<1> QED BY <1>1, <1>2, PTL DEF RestartSpec

LEMMA CountsStart == ASSUME RestartInit PROVE FirstServed /\ DummyFirst /\ CountsAgain
<1>1. /\ Queued = {} /\ DOMAIN log = {} /\ mail = {} /\ Initiator \in Node /\ late = {}
      /\ pc = [n \in Node |-> "Configured"] /\ saved = [n \in Node |-> {}] /\ peers = [n \in Node |-> {}]
  BY NothingSent, RoundAssumption DEF RestartInit, Init
<1>2. FirstJoined = {} /\ Cardinality(FirstJoined) <= MinPeer
  <2>1. FirstJoined = {}
    BY <1>1 DEF FirstJoined, Of
  <2> QED BY <2>1, FS_EmptySet, OpsAssumption
<1>3. FirstServed
  BY <1>1, <1>2 DEF FirstServed
<1>4. DummyFirst
  BY <1>1 DEF DummyFirst
<1>5. CountsAgain
  BY <1>1 DEF CountsAgain, HasCounted, InPool
<1> QED BY <1>3, <1>4, <1>5

LEMMA ReplayInvariant == ASSUME CountsKept PROVE RestartSpec => []ReplayInv
<1> DEFINE K == FirstServed /\ DummyFirst /\ CountsAgain
<1>1. RestartInit => K
  BY CountsStart
<1>2. KeptInv /\ K /\ [RestartNext]_allVars => K'
  BY FirstServedNext, DummyFirstNext, CountsAgainNext DEF KeptInv, CountsKept
<1>3. KeptInv /\ K => ReplayInv
  BY DEF KeptInv, ReplayInv
<1> HIDE DEF K
<1> QED BY <1>1, <1>2, <1>3, KeptInvariant, PTL DEF RestartSpec

LEMMA RememberedInvariant == ASSUME SavedIn[Initiator] = {} PROVE RestartSpec => []RememberedInv
<1>1. RestartInit => RememberedInv
  <2> SUFFICES ASSUME RestartInit PROVE RememberedInv
    OBVIOUS
  <2>1. Queued = {} /\ mail = {} /\ saved = [n \in Node |-> {}]
    BY NothingSent DEF RestartInit, Init
  <2> QED BY <2>1, RoundAssumption DEF RememberedInv
<1>2. KeptInv /\ RememberedInv /\ [RestartNext]_allVars => RememberedInv'
  BY RememberedNext DEF KeptInv
<1> QED BY <1>1, <1>2, KeptInvariant, PTL DEF RestartSpec

-----------------------------------------------------------------------------
(* The places in the pool                                                  *)

\* As many addresses of a small set of nodes as the pool is for are all of theirs.
LEMMA WholePool ==
  ASSUME NEW S \in SUBSET Node, Cardinality(S) <= MinPeer,
         NEW t, t \subseteq {AddrOf[n] : n \in S}, Cardinality(t) >= MinPeer
  PROVE  t = {AddrOf[n] : n \in S}
<1> DEFINE A == {AddrOf[n] : n \in S}
           f == [n \in S |-> AddrOf[n]]
<1>1. IsFiniteSet(S) /\ Cardinality(S) \in Nat
  BY RoundAssumption, FS_Subset, FS_CardinalityType
<1>2. f \in Surjection(S, A)
  BY DEF Surjection
<1>3. IsFiniteSet(A) /\ Cardinality(A) <= Cardinality(S)
  BY <1>1, <1>2, FS_Surjection
<1> HIDE DEF A, f
<1>4. t \in SUBSET A
  BY DEF A
<1>5. /\ IsFiniteSet(t) /\ Cardinality(t) <= Cardinality(A)
      /\ Cardinality(A) = Cardinality(t) => A = t
  BY <1>3, <1>4, FS_Subset
<1>6. Cardinality(A) \in Nat /\ Cardinality(t) \in Nat
  BY <1>3, <1>5, FS_CardinalityType
<1>7. A = t
  BY <1>1, <1>3, <1>5, <1>6, OpsAssumption
<1> QED BY <1>7 DEF A

\* The dummy takes the place of the initiator among the first who join.
LEMMA HoldersRoom ==
  ASSUME DataOK, FirstServed, DummyFirst
  PROVE  Cardinality(KeyHolders) <= MinPeer /\ IsFiniteSet(KeyHolders)
<1>1. Initiator \in Node /\ Dummy \notin Node /\ Dummy \in Conn
  BY RoundAssumption DEF Conn
<1> PICK F : F = FirstJoined
  OBVIOUS
<1>2. IsFiniteSet(F) /\ Cardinality(F) \in Nat /\ Cardinality(F) <= MinPeer
  BY JoinedTypes DEF FirstServed
<1>3. mail \cap Node \subseteq F
  BY DEF FirstServed
<1>4. CASE F \cap Node = {}
  <2>1. KeyHolders = {Initiator}
    BY <1>3, <1>4 DEF KeyHolders
  <2>2. Cardinality(KeyHolders) = 1 /\ IsFiniteSet(KeyHolders)
    BY <2>1, FS_Singleton
  <2> QED BY <2>2, OpsAssumption
<1>5. CASE F \cap Node # {}
  <2>1. PICK k \in DOMAIN log : /\ log[k].type = "Join" /\ log[k].npub \in Node
                                /\ Cardinality(JoinedBefore(k)) < MinPeer
    BY <1>5 DEF FirstJoined, Of
  <2>2. PICK j \in DOMAIN log : j < k /\ log[j].type = "Join" /\ log[j].npub = Dummy
    BY <2>1 DEF DummyFirst, JoinedBefore
  <2>3. Cardinality(JoinedBefore(j)) < MinPeer
    <3>1. j \in Nat /\ k \in Nat
      BY <2>1, <2>2 DEF DataOK
    <3>2. JoinedBefore(j) \subseteq JoinedBefore(k)
      <4>1. \A i \in DOMAIN log : i \in Nat
        BY DEF DataOK
      <4>2. \A i \in DOMAIN log : i < j => i < k
        BY <2>2, <3>1, <4>1
      <4> QED BY <4>2 DEF JoinedBefore
    <3>3. /\ IsFiniteSet(JoinedBefore(k)) /\ Cardinality(JoinedBefore(k)) \in Nat
          /\ Cardinality(JoinedBefore(j)) \in Nat
      BY JoinedTypes
    <3>4. Cardinality(JoinedBefore(j)) <= Cardinality(JoinedBefore(k))
      BY <3>2, <3>3, FS_Subset
    <3> QED BY <2>1, <3>3, <3>4, OpsAssumption
  <2>4. Dummy \in F
    BY <1>1, <2>2, <2>3 DEF FirstJoined, Of
  <2> PICK G : G = F \ {Dummy}
    OBVIOUS
  <2>5. IsFiniteSet(G) /\ Cardinality(G) = Cardinality(F) - 1
    BY <1>2, <2>4, FS_RemoveElement
  <2>6. /\ IsFiniteSet(G \cup {Initiator})
        /\ Cardinality(G \cup {Initiator}) \in {Cardinality(G), Cardinality(G) + 1}
    BY <2>5, FS_AddElement
  <2>7. KeyHolders \subseteq G \cup {Initiator}
    BY <1>1, <1>3 DEF KeyHolders
  <2>8. IsFiniteSet(KeyHolders) /\ Cardinality(KeyHolders) <= Cardinality(G \cup {Initiator})
    BY <2>6, <2>7, FS_Subset
  <2>9. Cardinality(KeyHolders) \in Nat
    BY <2>8, FS_CardinalityType
  <2> QED BY <1>2, <2>5, <2>6, <2>8, <2>9, OpsAssumption
<1> QED BY <1>4, <1>5

\* The nodes that have the pool's key and an address are no more than the pool is
\* for: among the first who joined, or counted by an initiator that is not overbooked.
HasRoom == Cardinality(KeyHolders \cap WithOutput) <= MinPeer

LEMMA FirstHaveRoom == ASSUME DataOK, FirstServed, DummyFirst PROVE HasRoom
<1>1. Cardinality(KeyHolders) <= MinPeer /\ IsFiniteSet(KeyHolders)
  BY HoldersRoom
<1> PICK K : K = KeyHolders
  OBVIOUS
<1>2. K \cap WithOutput \in SUBSET K
  OBVIOUS
<1>3. IsFiniteSet(K \cap WithOutput) /\ Cardinality(K \cap WithOutput) <= Cardinality(K)
  BY <1>1, <1>2, FS_Subset
<1>4. Cardinality(K \cap WithOutput) \in Nat /\ Cardinality(K) \in Nat
  BY <1>1, <1>3, FS_CardinalityType
<1> QED BY <1>1, <1>3, <1>4, OpsAssumption DEF HasRoom

LEMMA CountedHaveRoom == ASSUME RememberedInv, ~Overbooked PROVE HasRoom
<1>1. KeyHolders \cap WithOutput \subseteq Seats
  BY DEF KeyHolders, Seats, RememberedInv
<1>2. IsFiniteSet(Seats)
  <2>1. Seats \subseteq Node
    BY RoundAssumption DEF Seats
  <2> QED BY <2>1, FS_Subset, RoundAssumption
<1>3. IsFiniteSet(KeyHolders \cap WithOutput) /\ Cardinality(KeyHolders \cap WithOutput) <= Cardinality(Seats)
  BY <1>1, <1>2, FS_Subset
<1>4. Cardinality(KeyHolders \cap WithOutput) \in Nat /\ Cardinality(Seats) \in Nat
  BY <1>2, <1>3, FS_CardinalityType
<1> QED BY <1>3, <1>4, OpsAssumption DEF HasRoom, Overbooked

HoldersAddrs == {AddrOf[n] : n \in KeyHolders \cap WithOutput}

LEMMA AllOfThem ==
  ASSUME HasRoom, NEW t, t \subseteq HoldersAddrs, Cardinality(t) >= MinPeer
  PROVE  t = HoldersAddrs
<1>1. KeyHolders \cap WithOutput \in SUBSET Node
  BY RoundAssumption
<1> PICK S : S = KeyHolders \cap WithOutput
  OBVIOUS
<1>2. S \in SUBSET Node /\ Cardinality(S) <= MinPeer /\ t \subseteq {AddrOf[n] : n \in S}
  BY <1>1 DEF HasRoom, HoldersAddrs
<1>3. t = {AddrOf[n] : n \in S}
  BY <1>2, WholePool
<1> QED BY <1>3 DEF HoldersAddrs

\* The nodes agree as long as nobody else publishes an address.
LEMMA RoomAgrees == ASSUME KeptInv, HasRoom PROVE InvitedAgree
<1> SUFFICES ASSUME Uninvited = {}, NEW n \in Node, NEW t \in cj[n].psbt PROVE t = HoldersAddrs
  BY DEF InvitedAgree, Agreement
<1>1. t \subseteq cj[n].outputs /\ Cardinality(t) >= MinPeer
  BY DEF KeptInv, AddressesInv, Registered
<1>2. cj[n].outputs \subseteq RegisteredBefore(NextEntry) \cup {AddrOf[p] : p \in {n} \cap WithOutput}
  BY DEF KeptInv, AddressesInv, Registered
<1>3. RegisteredBefore(NextEntry) \subseteq HoldersAddrs
  BY DEF RegisteredBefore, Uninvited, Of, HoldersAddrs
<1>4. n \in KeyHolders
  BY DEF KeptInv, KeysInv, ActsWithKey
<1>5. t \subseteq HoldersAddrs
  BY <1>1, <1>2, <1>3, <1>4 DEF HoldersAddrs
<1> QED BY <1>1, <1>5, AllOfThem

\* A restarted node signs its coin for the template it may have signed it for.
LEMMA RoomSignsOnce == ASSUME KeptInv, HasRoom PROVE OneSignature
<1> SUFFICES ASSUME NEW x \in DOMAIN log, NEW y \in DOMAIN log, log[x].type = "Input", log[y].type = "Input",
                    log[x].input.coin = log[y].input.coin
             PROVE  log[x].input = log[y].input
  BY DEF OneSignature, Signatures
<1>1. log[x] \in Stored /\ log[y] \in Stored
  BY DEF Stored
<1>2. /\ log[x].input \in Signed /\ log[y].input \in Signed /\ log[x].input.coin \in Node
  <2>1. log[x] \in Dm /\ log[y] \in Dm
    BY DEF KeptInv, RestartInv, RestartTypeOK, DataOK
  <2> QED BY <2>1 DEF Dm, Signed
<1>3. CASE log[x].input.coin \notin restarted
  BY <1>1, <1>2, <1>3 DEF KeptInv, OnceInv
<1>4. CASE log[x].input.coin \in restarted
  <2> DEFINE n == log[x].input.coin
  <2>1. OfThePool(log[x]) /\ OfThePool(log[y])
    BY <1>1 DEF KeptInv, AddressesInv
  <2>2. n \in KeyHolders /\ \A p \in restarted : p = n
    BY <1>4, <2>1 DEF OfThePool, KeptInv, KeysInv
  <2>3. PoolAddrs \subseteq HoldersAddrs
    BY <2>2 DEF PoolAddrs, HoldersAddrs
  <2>4. log[x].input.over = HoldersAddrs /\ log[y].input.over = HoldersAddrs
    BY <2>1, <2>3, AllOfThem DEF OfThePool
  <2>5. log[x].input.amount = log[y].input.amount
    BY <2>1 DEF OfThePool
  <2> QED BY <1>2, <2>4, <2>5 DEF Signed
<1> QED BY <1>3, <1>4

LEMMA RoomKept ==
  ASSUME CountsKept \/ SavedIn[Initiator] = {}
  PROVE  RestartSpec => [](KeptInv /\ (HasRoom \/ Overbooked))
<1>1. CASE CountsKept
  <2>1. KeptInv /\ ReplayInv => HasRoom
    BY FirstHaveRoom DEF KeptInv, RestartInv, RestartTypeOK, ReplayInv
  <2> QED BY <1>1, <2>1, KeptInvariant, ReplayInvariant, PTL
<1>2. CASE SavedIn[Initiator] = {}
  <2>1. RememberedInv => HasRoom \/ Overbooked
    BY CountedHaveRoom
  <2> QED BY <1>2, <2>1, KeptInvariant, RememberedInvariant, PTL
<1> QED BY <1>1, <1>2

\* Whatever process ends and is restarted, the addresses and the signatures in the
\* pool stay those of the nodes with the pool's key, and the initiator gives the
\* key to the first who joined: the state of an initiator that has counted its
\* peers makes restart fail or count the same ones again.
THEOREM ReplayKept == ASSUME CountsKept PROVE RestartSpec => []ReplayInv
BY ReplayInvariant

\* In particular a restarted initiator counts its peers from the first Join on, or
\* counts nobody: it never goes on with some of them forgotten.
THEOREM CountedAgain == ASSUME CountsKept PROVE RestartSpec => []CountsAgain
<1>1. ReplayInv => CountsAgain
  BY DEF ReplayInv
<1> QED BY <1>1, ReplayInvariant, PTL

\* The nodes agree on the template although one of them registers again after a
\* restart, unless a node without the pool's key publishes its address: the
\* initiator's state is never taken, or only when it has counted its peers.
THEOREM InvitedAgreed ==
  ASSUME CountsKept \/ SavedIn[Initiator] = {}
  PROVE  RestartSpec => []InvitedAgree
<1>1. KeptInv /\ (HasRoom \/ Overbooked) => InvitedAgree
  BY RoomAgrees DEF InvitedAgree, Agreement
<1> QED BY <1>1, RoomKept, PTL

\* Under the same condition a coin is signed for one transaction only, although
\* restart forgets that it was signed.
THEOREM SignedOnce ==
  ASSUME CountsKept \/ SavedIn[Initiator] = {}
  PROVE  RestartSpec => []OneSignature
<1>1. KeptInv /\ (HasRoom \/ Overbooked) => OneSignature
  BY RoomSignsOnce DEF OneSignature
<1> QED BY <1>1, RoomKept, PTL
=============================================================================
