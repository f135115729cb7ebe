--------------------------- MODULE PoolRoundProofs ---------------------------
(***************************************************************************)
(* Proofs about PoolRound, for any set of nodes, any pool size, timeline,  *)
(* order of delivery and set of faulty clients.                            *)
(***************************************************************************)
EXTENDS PoolRound, FiniteSetTheorems, SequenceTheorems, TLAPS

\* What every reachable state satisfies: the parts are checked by TLC in
\* MCPoolRound and proved inductive together here.
IInv == TypeOK /\ MessagesInv /\ NodesInv /\ PaidIfSpent

-----------------------------------------------------------------------------
(* Operators of CoinJoinOps                                                *)

\* A template, once made, is an element of the option that holds it.
LEMMA SomeType ==
  ASSUME NEW S, NEW opt \in SUBSET S, IsSome(opt)
  PROVE  (CHOOSE x \in opt : TRUE) \in opt
BY DEF IsSome

\* generate_tx succeeds only on a template.
LEMMA GenerateTxNeedsTemplate ==
  ASSUME NEW c \in CJ, GenerateTxResult(c, {}, 0) = "ok"
  PROVE  IsSome(c.psbt)
BY DEF GenerateTxResult

\* try_finalize_coinjoin only sets the final transaction, to an aggregate of the
\* inputs registered.
LEMMA TryFinalizeType ==
  ASSUME NEW c \in CJ
  PROVE  /\ TryFinalize(c) \in CJ
         /\ TryFinalize(c).outputs = c.outputs
         /\ TryFinalize(c).psbt = c.psbt
         /\ TryFinalize(c).inputs = c.inputs
         /\ \A t \in TryFinalize(c).tx : t \in c.tx \/ t.ins = c.inputs
<1>1. CASE TryFinalize(c) = c
  BY <1>1
<1>2. CASE TryFinalize(c) = GenerateTx(c) /\ GenerateTxResult(c, {}, 0) = "ok"
  <2>1. IsSome(c.psbt)
    BY <1>2, GenerateTxNeedsTemplate
  <2>2. (CHOOSE t \in c.psbt : TRUE) \in SUBSET Address
    BY <2>1 DEF CJ, IsSome
  <2>3. Aggregate(c) \in [outs : SUBSET Address, ins : SUBSET Signed] /\ Aggregate(c).ins = c.inputs
    BY <2>2 DEF CJ, Aggregate
  <2> QED BY <1>2, <2>3 DEF GenerateTx, CJ
<1> QED BY <1>1, <1>2 DEF TryFinalize

LEMMA AddOutputType ==
  ASSUME NEW c \in CJ, NEW x \in Address
  PROVE  /\ AddOutput(c, x) \in CJ
         /\ AddOutput(c, x).outputs = c.outputs \cup {x}
         /\ AddOutput(c, x).psbt = c.psbt
         /\ AddOutput(c, x).inputs = c.inputs
         /\ AddOutput(c, x).tx = c.tx
BY DEF AddOutput, CJ

LEMMA AddInputType ==
  ASSUME NEW c \in CJ, NEW x \in Signed
  PROVE  /\ AddInput(c, x) \in CJ
         /\ AddInput(c, x).outputs = c.outputs
         /\ AddInput(c, x).psbt = c.psbt
         /\ AddInput(c, x).inputs = c.inputs \cup {x}
         /\ AddInput(c, x).tx = c.tx
BY DEF AddInput, CJ

LEMMA GeneratePsbtType ==
  ASSUME NEW c \in CJ
  PROVE  /\ GeneratePsbt(c) \in CJ
         /\ GeneratePsbt(c).outputs = c.outputs
         /\ GeneratePsbt(c).psbt = {c.outputs}
         /\ GeneratePsbt(c).inputs = c.inputs
         /\ GeneratePsbt(c).tx = c.tx
BY DEF GeneratePsbt, CJ

\* The signature RegisterInput publishes is a signed input.
LEMMA SignedInputType ==
  ASSUME DataOK, input \subseteq WithInput, NEW n \in Node, OwnInv(n), n \in input, pc[n] = "SendInput"
  PROVE  SignedInput(n) \in Signed /\ PaysOwner(SignedInput(n))
<1>1. n \in WithOutput /\ cj[n].psbt = {cj[n].outputs} /\ AddrOf[n] \in cj[n].outputs
  BY RoundAssumption DEF OwnInv
<1>2. Template(n) = cj[n].outputs
  BY <1>1 DEF Template
<1>3. cj[n].outputs \in SUBSET Address /\ CoinValue[n] \in Nat
  BY RoundAssumption DEF DataOK, CJ
<1> QED BY <1>1, <1>2, <1>3 DEF SignedInput, Signed, PaysOwner

-----------------------------------------------------------------------------
(* Type correctness                                                        *)

LEMMA TypeInit == Init => TypeOK
<1> SUFFICES ASSUME Init PROVE TypeOK OBVIOUS
<1>1. NewCoinJoin \in CJ
  BY DEF NewCoinJoin, CJ
<1>2. << >> \in Seq(Dm) /\ << >> \in Seq(Msg)
  OBVIOUS
<1>3. input \subseteq Node /\ clock \in Nat
  BY RoundAssumption DEF Init
<1> QED BY <1>1, <1>2, <1>3 DEF Init, TypeOK, DataOK, InPool, Ended

PCs == {"Configured", "Connecting"} \cup InPool \cup Ended

\* A step leaves the threads where they are, or one of them that has
\* not ended goes on or fails.
LEMMA PlaceStep ==
  ASSUME [Next]_vars
  PROVE  \/ UNCHANGED <<pc, error>>
         \/ \E n \in Node : /\ pc[n] \notin Ended
                            /\ \/ \E where \in PCs \ {"Failed"} : Goto(n, where)
                               \/ \E e \in Errors : Fail(n, e)
<1> DEFINE Moves(n) == /\ pc[n] \notin Ended
                       /\ \/ \E where \in PCs \ {"Failed"} : Goto(n, where)
                          \/ \E e \in Errors : Fail(n, e)
<1>1. /\ {"Posted", "Connecting", "Peers", "SendOutput", "Outputs", "SendInput", "Inputs",
          "Broadcast", "Done", "Panicked"} \subseteq PCs \ {"Failed"}
      /\ {"Nostr", "PoolConnectionTimeout", "TimelineDuration", "Timeout", "SignerMissing",
          "SigningFail", "MissingFinalTx", "Electrum"} \subseteq Errors
  BY DEF PCs, InPool, Ended, Errors
<1>2. ASSUME Post \/ SendDummy PROVE Initiator \in Node /\ Moves(Initiator)
  BY <1>1, <1>2, RoundAssumption DEF Post, SendDummy, SendThenGoto, Ended
<1>3. ASSUME NEW n \in Node, JoinPool(n) \/ ReceiveCredentials(n) \/ AbortJoin(n) \/ JoinTimeout(n)
      PROVE  Moves(n)
  BY <1>1, <1>3 DEF JoinPool, SendThenGoto, ReceiveCredentials, AbortJoin, JoinTimeout, Ended
<1>4. ASSUME NEW n \in Node, NEW k, RegisterPeer(n, k) \/ ReceiveEarlyInput(n, k)
      PROVE  UNCHANGED <<pc, error>> \/ Moves(n)
  BY <1>1, <1>4 DEF RegisterPeer, InPeers, ReceiveEarlyInput, InOutputs, SendThenGoto, Ended
<1>5. ASSUME NEW n \in Node, LeavePeers(n) \/ RegisterOutput(n) \/ RegisterInput(n) \/ LeaveInputs(n)
      PROVE  Moves(n)
  BY <1>1, <1>5 DEF LeavePeers, RegisterOutput, RegisterInput, LeaveInputs, SendThenGoto, Ended
<1>6. ASSUME NEW n \in Node, LeaveOutputs(n) PROVE Moves(n)
  <2>1. PICK r \in OutputsVerdict(n) : IF r = "ok" THEN Goto(n, "SendInput") ELSE Fail(n, r)
    BY <1>6 DEF LeaveOutputs
  <2>2. r = "ok" \/ r \in Errors
    BY DEF OutputsVerdict, GeneratePsbtResults, Errors
  <2>3. pc[n] \notin Ended
    BY <1>6 DEF LeaveOutputs, Ended
  <2> QED BY <1>1, <2>1, <2>2, <2>3
<1>7. ASSUME NEW n \in Node, BroadcastFails(n) \/ BroadcastTx(n) PROVE Moves(n)
  BY <1>1, <1>7 DEF BroadcastFails, BroadcastTx, Ended
<1>8. ASSUME NEW n \in Node, NEW k, \/ DropInPeers(n, k) \/ ReceiveOutput(n, k) \/ DropInOutputs(n, k)
                                    \/ ReceiveInput(n, k) \/ DropInInputs(n, k)
      PROVE  UNCHANGED <<pc, error>>
  BY <1>8 DEF DropInPeers, ReceiveOutput, DropInOutputs, ReceiveInput, DropInInputs
<1>9. ASSUME NEW n \in Node, EmptyPoll(n) PROVE UNCHANGED <<pc, error>>
  BY <1>9 DEF EmptyPoll
<1>10. ASSUME (\E c \in Conn : Transmit(c) \/ LinkDies(c) \/ ListenStops(c)) \/ Tick \/ UNCHANGED vars
       PROVE  UNCHANGED <<pc, error>>
  BY <1>10 DEF Transmit, LinkDies, ListenStops, Tick, vars
<1> HIDE DEF Moves
<1>11. ASSUME NEW n \in Node, Step(n) PROVE UNCHANGED <<pc, error>> \/ Moves(n)
  BY <1>3, <1>4, <1>5, <1>6, <1>7, <1>8, <1>9, <1>11 DEF Step, Receive
<1>12. UNCHANGED <<pc, error>> \/ \E n \in Node : Moves(n)
  <2>1. CASE Post \/ SendDummy
    BY <1>2, <2>1
  <2>2. CASE \E n \in Node : Step(n)
    BY <1>11, <2>2
  <2> QED BY <1>10, <2>1, <2>2 DEF Next
<1> QED BY <1>12 DEF Moves

\* So a thread is where the code can be, or where it was.
LEMMA PlaceNext ==
  ASSUME [Next]_vars, NEW P, PCs \subseteq P, NEW E, Errors \subseteq E,
         pc \in [Node -> P], error \in [Node -> SUBSET E]
  PROVE  pc' \in [Node -> P] /\ error' \in [Node -> SUBSET E]
<1>1. "Failed" \in P
  BY DEF PCs, Ended
<1>2. ASSUME NEW n \in Node, NEW where \in PCs, Goto(n, where)
      PROVE  pc' \in [Node -> P] /\ error' \in [Node -> SUBSET E]
  BY <1>2 DEF Goto
<1>3. ASSUME NEW n \in Node, NEW e \in Errors, Fail(n, e)
      PROVE  pc' \in [Node -> P] /\ error' \in [Node -> SUBSET E]
  BY <1>1, <1>3 DEF Fail
<1> QED BY <1>2, <1>3, PlaceStep

\* A node ends with an error, or goes on where its code goes on.
LEMMA GotoType ==
  ASSUME TypeOK, NEW n \in Node, NEW where \in PCs, NEW e \in Errors,
         Goto(n, where) \/ Fail(n, e)
  PROVE  pc' \in [Node -> PCs] /\ error' \in [Node -> SUBSET Errors]
<1>1. pc \in [Node -> PCs] /\ error \in [Node -> SUBSET Errors]
  BY DEF TypeOK, DataOK, PCs
<1>2. "Failed" \in PCs
  BY DEF PCs, Ended
<1>3. {e} \in SUBSET Errors
  OBVIOUS
<1> QED BY <1>1, <1>2, <1>3 DEF Goto, Fail

\* Queueing a message adds it to one channel and to no other.
LEMMA AppendEffect ==
  ASSUME DataOK, NEW c \in Conn, NEW m \in Msg, outbox' = [outbox EXCEPT ![c] = Append(@, m)]
  PROVE  /\ outbox' \in [Conn -> Seq(Msg)]
         /\ \A d \in Conn : \A k \in DOMAIN outbox'[d] :
              outbox'[d][k] = m \/ (k \in DOMAIN outbox[d] /\ outbox'[d][k] = outbox[d][k])
<1> DEFINE q == outbox[c]
<1>1. outbox \in [Conn -> Seq(Msg)]
  BY DEF DataOK
<1>2. /\ q \in Seq(Msg) /\ Append(q, m) \in Seq(Msg) /\ Len(Append(q, m)) = Len(q) + 1
      /\ \A k \in 1..Len(q) : Append(q, m)[k] = q[k]
      /\ Append(q, m)[Len(q) + 1] = m
  BY <1>1, AppendProperties
<1>3. Len(q) \in Nat /\ DOMAIN q = 1..Len(q) /\ DOMAIN Append(q, m) = 1..(Len(q) + 1)
  BY <1>2, LenProperties
<1>4. \A k \in DOMAIN Append(q, m) :
        Append(q, m)[k] = m \/ (k \in DOMAIN q /\ Append(q, m)[k] = q[k])
  BY <1>2, <1>3
<1> QED BY <1>1, <1>2, <1>4

LEMMA SendQueues ==
  ASSUME DataOK, NEW n \in Node, NEW m \in Msg, NEW where, SendThenGoto(n, m, where)
  PROVE  /\ outbox' \in [Conn -> Seq(Msg)]
         /\ \A c \in Conn : \A k \in DOMAIN outbox'[c] :
              outbox'[c][k] = m \/ (k \in DOMAIN outbox[c] /\ outbox'[c][k] = outbox[c][k])
<1>1. n \in Conn /\ outbox \in [Conn -> Seq(Msg)]
  BY DEF DataOK, Conn
<1>2. CASE outbox' = outbox
  BY <1>1, <1>2
<1>3. CASE outbox' = [outbox EXCEPT ![n] = Append(@, m)]
  BY <1>1, <1>3, AppendEffect
<1> QED BY <1>2, <1>3 DEF SendThenGoto

\* A send queues its message, or fails and queues nothing.
LEMMA SendEffect ==
  ASSUME TypeOK, NEW n \in Node, NEW m \in Msg, NEW where \in PCs, SendThenGoto(n, m, where)
  PROVE  /\ outbox' \in [Conn -> Seq(Msg)]
         /\ \A c \in Conn : \A k \in DOMAIN outbox'[c] :
              outbox'[c][k] = m \/ (k \in DOMAIN outbox[c] /\ outbox'[c][k] = outbox[c][k])
         /\ pc' \in [Node -> PCs] /\ error' \in [Node -> SUBSET Errors]
         /\ \A p \in Node : pc'[p] = pc[p] \/ (p = n /\ pc'[p] \in {where, "Failed"})
<1>1. DataOK /\ pc \in [Node -> PCs] /\ "Nostr" \in Errors
  BY DEF TypeOK, PCs, Errors
<1>2. Goto(n, where) \/ Fail(n, "Nostr")
  BY DEF SendThenGoto
<1>3. pc' \in [Node -> PCs] /\ error' \in [Node -> SUBSET Errors]
  BY <1>1, <1>2, GotoType
<1>4. \A p \in Node : pc'[p] = pc[p] \/ (p = n /\ pc'[p] \in {where, "Failed"})
  BY <1>1, <1>2 DEF Goto, Fail
<1> QED BY <1>1, <1>3, <1>4, SendQueues

\* What a node reads is a message of the relay's log.
LEMMA ConsumeType ==
  ASSUME DataOK, NEW n \in Node, NEW k \in Deliverable(n), Consume(n, k), UNCHANGED log
  PROVE  /\ k \in DOMAIN log /\ log[k] \in Dm
         /\ unread' \in [Node -> SUBSET Nat] /\ late' \subseteq Node
         /\ \A p \in Node : unread'[p] \subseteq DOMAIN log'
<1>1. k \in unread[n] /\ unread[n] \subseteq DOMAIN log
  BY DEF DataOK, Deliverable
<1> QED BY <1>1 DEF DataOK, Consume

\* The listen thread takes the head of a channel; the relay's log grows only by
\* that message, and by none of another kind.
LEMMA TransmitEffect ==
  ASSUME DataOK, NEW c \in Conn, Transmit(c)
  PROVE  /\ outbox' \in [Conn -> Seq(Msg)]
         /\ \A d \in Conn : \A k \in DOMAIN outbox'[d] :
              \E j \in DOMAIN outbox[d] : outbox'[d][k] = outbox[d][j]
         /\ 1 \in DOMAIN outbox[c] /\ Head(outbox[c]) = outbox[c][1]
         /\ log' \in Seq(Dm)
         /\ \A k \in DOMAIN log' : log'[k] = Head(outbox[c])
                                     \/ (k \in DOMAIN log /\ log'[k] = log[k])
         /\ mail' = mail \/ (/\ Head(outbox[c]).type = "Credentials"
                             /\ mail' = mail \cup {Head(outbox[c]).to})
         /\ mail' \subseteq Conn /\ posted' \in BOOLEAN
         /\ unread' \in [Node -> SUBSET Nat]
         /\ \A n \in Node : unread'[n] \subseteq DOMAIN log'
<1> DEFINE q == outbox[c]
           m == Head(q)
<1>1. q \in Seq(Msg) /\ q # << >> /\ outbox \in [Conn -> Seq(Msg)]
  BY DEF DataOK, Transmit
<1>2. /\ m \in Msg /\ Tail(q) \in Seq(Msg) /\ Len(Tail(q)) = Len(q) - 1
      /\ \A k \in 1..Len(Tail(q)) : Tail(q)[k] = q[k + 1]
  BY <1>1, HeadTailProperties
<1>3. Len(q) \in Nat /\ Len(q) # 0 /\ DOMAIN q = 1..Len(q) /\ DOMAIN Tail(q) = 1..(Len(q) - 1)
  BY <1>1, <1>2, LenProperties, EmptySeq
<1>4. 1 \in DOMAIN q /\ m = q[1]
  BY <1>1, <1>3
<1>5. \A k \in DOMAIN Tail(q) : k + 1 \in DOMAIN q /\ Tail(q)[k] = q[k + 1]
  BY <1>2, <1>3
<1>6. outbox' = [outbox EXCEPT ![c] = Tail(@)]
  BY DEF Transmit
<1>7. \A d \in Conn : \A k \in DOMAIN outbox'[d] :
        \E j \in DOMAIN outbox[d] : outbox'[d][k] = outbox[d][j]
  BY <1>1, <1>5, <1>6
<1>8. CASE UNCHANGED <<relayVars, unread>>
  BY <1>1, <1>2, <1>4, <1>6, <1>7, <1>8 DEF DataOK, relayVars
<1>9. CASE m.type = "Pool" /\ posted' = TRUE /\ UNCHANGED <<log, mail, unread>>
  BY <1>1, <1>2, <1>4, <1>6, <1>7, <1>9 DEF DataOK
<1>10. CASE m.type = "Credentials" /\ mail' = mail \cup {m.to} /\ UNCHANGED <<posted, log, unread>>
  <2>1. m.to \in Conn
    BY <1>2, <1>10 DEF Msg, Dm
  <2> QED BY <2>1, <1>1, <1>2, <1>4, <1>6, <1>7, <1>10 DEF DataOK
<1>11. CASE /\ m.type \notin {"Pool", "Credentials"}
            /\ log' = Append(log, m)
            /\ unread' = [n \in Node |-> IF Subscribed(n) THEN unread[n] \cup {Len(log) + 1}
                                         ELSE unread[n]]
            /\ UNCHANGED <<posted, mail>>
  <2>1. m \in Dm /\ log \in Seq(Dm)
    BY <1>2, <1>11 DEF Msg, DataOK
  <2>2. /\ log' \in Seq(Dm) /\ Len(log') = Len(log) + 1
        /\ \A k \in 1..Len(log) : log'[k] = log[k]
        /\ log'[Len(log) + 1] = m
    BY <2>1, <1>11, AppendProperties
  <2>3. Len(log) \in Nat /\ DOMAIN log = 1..Len(log) /\ DOMAIN log' = 1..(Len(log) + 1)
    BY <2>1, <2>2, LenProperties
  <2>4. \A k \in DOMAIN log' : log'[k] = m \/ (k \in DOMAIN log /\ log'[k] = log[k])
    BY <2>2, <2>3
  <2>5. unread \in [Node -> SUBSET Nat] /\ \A n \in Node : unread[n] \subseteq DOMAIN log
    BY DEF DataOK
  <2>6. unread' \in [Node -> SUBSET Nat] /\ \A n \in Node : unread'[n] \subseteq DOMAIN log'
    BY <2>3, <2>5, <1>11
  <2> QED BY <2>2, <2>4, <2>6, <1>1, <1>2, <1>4, <1>6, <1>7, <1>11 DEF DataOK
<1> QED BY <1>8, <1>9, <1>10, <1>11 DEF Transmit, Stores

\* The lengths of JoinstrInner.outputs and .inputs stay numbers when they grow.
LEMMA PushedType ==
  ASSUME NEW f \in [Node -> [outputs : Nat, inputs : Nat]], NEW n \in Node
  PROVE  /\ [f EXCEPT ![n].outputs = @ + 1] \in [Node -> [outputs : Nat, inputs : Nat]]
         /\ [f EXCEPT ![n].inputs = @ + 1] \in [Node -> [outputs : Nat, inputs : Nat]]
<1>1. f[n].outputs \in Nat /\ f[n].inputs \in Nat
  OBVIOUS
<1>2. f[n].outputs + 1 \in Nat /\ f[n].inputs + 1 \in Nat
  BY <1>1
<1>3. /\ [f[n] EXCEPT !.outputs = f[n].outputs + 1] \in [outputs : Nat, inputs : Nat]
      /\ [f[n] EXCEPT !.inputs = f[n].inputs + 1] \in [outputs : Nat, inputs : Nat]
  BY <1>2
<1> QED BY <1>3

\* Every step keeps the types of the data; what a node signs is a template.
LEMMA DataNext ==
  ASSUME DataOK, input \subseteq WithInput, \A n \in Node : OwnInv(n), [Next]_vars
  PROVE  DataOK'
<1> USE DEF relayVars, nodeVars
<1>1. CASE Post
  <2>1. PoolEvent \in Msg /\ Initiator \in Node
    BY RoundAssumption DEF PoolEvent, Msg
  <2>2. outbox' \in [Conn -> Seq(Msg)]
    BY <1>1, <2>1, SendQueues DEF Post
  <2> QED BY <1>1, <2>2 DEF Post, DataOK
<1>2. CASE SendDummy
  <2>1. Join(Dummy) \in Msg /\ Dummy \in Conn
    BY DEF Join, Msg, Dm, Conn
  <2>2. outbox' \in [Conn -> Seq(Msg)]
    BY <1>2, <2>1, AppendEffect DEF SendDummy, DataOK
  <2> QED BY <1>2, <2>2 DEF SendDummy, DataOK
<1>3. ASSUME NEW n \in Node, JoinPool(n) PROVE DataOK'
  <2>1. Join(n) \in Msg
    BY DEF Join, Msg, Dm, Conn
  <2>2. outbox' \in [Conn -> Seq(Msg)]
    BY <1>3, <2>1, SendQueues DEF JoinPool
  <2> QED BY <1>3, <2>2 DEF JoinPool, DataOK
<1>4. ASSUME NEW n \in Node, ReceiveCredentials(n) PROVE DataOK'
  <2>1. DOMAIN log \in SUBSET Nat
    BY LenProperties DEF DataOK
  <2>2. unread' \in [Node -> SUBSET Nat] /\ \A p \in Node : unread'[p] \subseteq DOMAIN log'
    BY <1>4, <2>1 DEF ReceiveCredentials, DataOK
  <2> QED BY <1>4, <2>2 DEF ReceiveCredentials, DataOK
<1>5. ASSUME NEW n \in Node, AbortJoin(n) \/ JoinTimeout(n) \/ EmptyPoll(n) \/ LeavePeers(n)
                             \/ LeaveInputs(n) \/ BroadcastFails(n)
      PROVE  DataOK'
  BY <1>5 DEF AbortJoin, JoinTimeout, EmptyPoll, LeavePeers, LeaveInputs, BroadcastFails, DataOK
<1>6. ASSUME NEW n \in Node, NEW k, RegisterPeer(n, k) PROVE DataOK'
  <2>1. /\ log[k] \in Dm
        /\ unread' \in [Node -> SUBSET Nat] /\ late' \subseteq Node
        /\ \A p \in Node : unread'[p] \subseteq DOMAIN log'
    BY <1>6, ConsumeType DEF RegisterPeer, InPeers
  <2>2. log[k].npub \in Conn
    BY <1>6, <2>1 DEF RegisterPeer, Dm
  <2>3. Credentials(log[k].npub) \in Msg
    BY <2>2 DEF Credentials, Msg
  <2>4. peers' \in [Node -> SUBSET Conn]
    BY <1>6, <2>2 DEF RegisterPeer, DataOK
  <2>5. outbox' \in [Conn -> Seq(Msg)]
    <3>1. SendThenGoto(n, Credentials(log[k].npub), "Peers") \/ outbox' = outbox
      BY <1>6 DEF RegisterPeer
    <3> QED BY <2>3, <3>1, SendQueues DEF DataOK
  <2> QED BY <1>6, <2>1, <2>4, <2>5 DEF RegisterPeer, DataOK
<1>7. ASSUME NEW n \in Node, NEW k, DropInPeers(n, k) PROVE DataOK'
  BY <1>7, ConsumeType DEF DropInPeers, InPeers, DataOK
<1>8. ASSUME NEW n \in Node, NEW k, ReceiveOutput(n, k) PROVE DataOK'
  <2>1. /\ log[k] \in Dm
        /\ unread' \in [Node -> SUBSET Nat] /\ late' \subseteq Node
        /\ \A p \in Node : unread'[p] \subseteq DOMAIN log'
    BY <1>8, ConsumeType DEF ReceiveOutput, InOutputs
  <2>2. log[k].addr \in Address /\ cj[n] \in CJ
    BY <1>8, <2>1 DEF ReceiveOutput, Dm, DataOK
  <2>3. AddOutput(cj[n], log[k].addr) \in CJ
    BY <2>2, AddOutputType
  <2>4. cj' \in [Node -> CJ]
    BY <1>8, <2>3 DEF ReceiveOutput, DataOK
  <2>5. pushed' \in [Node -> [outputs : Nat, inputs : Nat]]
    BY <1>8, PushedType DEF ReceiveOutput, DataOK
  <2> QED BY <1>8, <2>1, <2>4, <2>5 DEF ReceiveOutput, DataOK
<1>9. ASSUME NEW n \in Node, NEW k, ReceiveEarlyInput(n, k) \/ DropInOutputs(n, k) PROVE DataOK'
  <2>1. /\ unread' \in [Node -> SUBSET Nat] /\ late' \subseteq Node
        /\ \A p \in Node : unread'[p] \subseteq DOMAIN log'
    BY <1>9, ConsumeType DEF ReceiveEarlyInput, DropInOutputs, InOutputs
  <2> QED BY <1>9, <2>1 DEF ReceiveEarlyInput, DropInOutputs, DataOK
<1>10. ASSUME NEW n \in Node, NEW k, ReceiveInput(n, k) PROVE DataOK'
  <2> DEFINE x == log[k].input
             ok == AddInputResult(cj[n], {}, 0, x) = "ok"
             c  == IF ok THEN AddInput(cj[n], x) ELSE cj[n]
  <2>1. /\ log[k] \in Dm
        /\ unread' \in [Node -> SUBSET Nat] /\ late' \subseteq Node
        /\ \A p \in Node : unread'[p] \subseteq DOMAIN log'
    BY <1>10, ConsumeType DEF ReceiveInput, InInputs
  <2>2. x \in Signed /\ cj[n] \in CJ
    BY <1>10, <2>1 DEF ReceiveInput, Dm, DataOK
  <2>3. c \in CJ
    BY <2>2, AddInputType
  <2>4. TryFinalize(c) \in CJ
    BY <2>3, TryFinalizeType
  <2>5. cj' = [cj EXCEPT ![n] = TryFinalize(c)]
    BY <1>10 DEF ReceiveInput
  <2>6. cj' \in [Node -> CJ]
    BY <2>4, <2>5 DEF DataOK
  <2>7. pushed' \in [Node -> [outputs : Nat, inputs : Nat]]
    BY <1>10, PushedType DEF ReceiveInput, DataOK
  <2> QED BY <1>10, <2>1, <2>6, <2>7 DEF ReceiveInput, DataOK
<1>11. ASSUME NEW n \in Node, NEW k, DropInInputs(n, k) PROVE DataOK'
  BY <1>11, ConsumeType DEF DropInInputs, InInputs, DataOK
<1>12. ASSUME NEW n \in Node, RegisterOutput(n) PROVE DataOK'
  <2>1. AddrOf[n] \in Address /\ cj[n] \in CJ /\ n \in Conn
    BY RoundAssumption DEF DataOK, Conn
  <2>2. Output(AddrOf[n]) \in Msg
    BY <2>1 DEF Output, Msg, Dm
  <2>3. AddOutput(cj[n], AddrOf[n]) \in CJ
    BY <2>1, AddOutputType
  <2>4. outbox' \in [Conn -> Seq(Msg)]
    BY <1>12, <2>1, <2>2, AppendEffect DEF RegisterOutput, DataOK
  <2>5. cj' \in [Node -> CJ]
    BY <1>12, <2>3 DEF RegisterOutput, DataOK
  <2>6. pushed' \in [Node -> [outputs : Nat, inputs : Nat]]
    <3>1. pushed' = pushed \/ pushed' = [pushed EXCEPT ![n].outputs = @ + 1]
      BY <1>12 DEF RegisterOutput
    <3>2. pushed \in [Node -> [outputs : Nat, inputs : Nat]]
      BY DEF DataOK
    <3> QED BY <3>1, <3>2, PushedType
  <2> QED BY <1>12, <2>4, <2>5, <2>6 DEF RegisterOutput, DataOK
<1>13. ASSUME NEW n \in Node, LeaveOutputs(n) PROVE DataOK'
  <2>1. cj' = [cj EXCEPT ![n] = GeneratePsbt(@)] \/ cj' = cj
    BY <1>13 DEF LeaveOutputs
  <2>2. cj[n] \in CJ
    BY DEF DataOK
  <2>3. GeneratePsbt(cj[n]) \in CJ
    BY <2>2, GeneratePsbtType
  <2>4. cj' \in [Node -> CJ]
    BY <2>1, <2>3 DEF DataOK
  <2> QED BY <1>13, <2>4 DEF LeaveOutputs, DataOK
<1>14. ASSUME NEW n \in Node, RegisterInput(n) PROVE DataOK'
  <2>1. InputsEnd \in Nat
    <3>1. Timeline.at \in Nat /\ Timeline.max_duration \in Nat /\ clock \in Nat
      BY RoundAssumption DEF DataOK
    <3> QED BY <3>1 DEF InputsEnd, EndAt
  <2>2. inEnd' \in [Node -> Nat] /\ input' \subseteq Node
    BY <1>14, <2>1 DEF RegisterInput, DataOK
  <2>3. pushed' \in [Node -> [outputs : Nat, inputs : Nat]]
    <3>1. pushed' = pushed \/ pushed' = [pushed EXCEPT ![n].inputs = @ + 1]
      BY <1>14 DEF RegisterInput
    <3>2. pushed \in [Node -> [outputs : Nat, inputs : Nat]]
      BY DEF DataOK
    <3> QED BY <3>1, <3>2, PushedType
  <2>4. outbox' \in [Conn -> Seq(Msg)]
    <3>1. CASE n \in input /\ SendThenGoto(n, Input(SignedInput(n)), "Inputs")
      <4>1. SignedInput(n) \in Signed
        BY <1>14, <3>1, SignedInputType DEF RegisterInput
      <4>2. Input(SignedInput(n)) \in Msg
        BY <4>1 DEF Input, Msg, Dm
      <4> QED BY <3>1, <4>2, SendQueues
    <3>2. CASE outbox' = outbox
      BY <3>2 DEF DataOK
    <3> QED BY <1>14, <3>1, <3>2 DEF RegisterInput
  <2> QED BY <1>14, <2>2, <2>3, <2>4 DEF RegisterInput, DataOK
<1>15. ASSUME NEW n \in Node, BroadcastTx(n) PROVE DataOK'
  <2>1. FinalTx(n) \in cj[n].tx
    BY <1>15 DEF BroadcastTx, Finalized, IsSome, FinalTx
  <2>2. FinalTx(n) \in [outs : SUBSET Address, ins : SUBSET Signed]
    BY <2>1 DEF DataOK, CJ
  <2>3. chain' \subseteq [outs : SUBSET Address, ins : SUBSET Signed]
    BY <1>15, <2>2 DEF BroadcastTx, DataOK
  <2> QED BY <1>15, <2>3 DEF BroadcastTx, DataOK
<1>16. ASSUME NEW c \in Conn, Transmit(c) PROVE DataOK'
  BY <1>16, TransmitEffect DEF Transmit, DataOK
<1>17. ASSUME NEW c \in Conn, LinkDies(c) PROVE DataOK'
  BY <1>17 DEF LinkDies, DataOK
<1>18. ASSUME NEW c \in Conn, ListenStops(c) PROVE DataOK'
  BY <1>18 DEF ListenStops, DataOK
<1>19. CASE Tick
  BY <1>19 DEF Tick, DataOK
<1>20. CASE UNCHANGED vars
  BY <1>20 DEF vars, DataOK
<1> QED
  BY <1>1, <1>2, <1>3, <1>4, <1>5, <1>6, <1>7, <1>8, <1>9, <1>10, <1>11, <1>12, <1>13, <1>14,
     <1>15, <1>16, <1>17, <1>18, <1>19, <1>20
     DEF Next, Step, Receive

LEMMA TypeNext ==
  ASSUME TypeOK, NodesInv, [Next]_vars
  PROVE  TypeOK'
<1>1. DataOK'
  BY DataNext DEF TypeOK, NodesInv, NodeInv
<1>2. pc' \in [Node -> PCs] /\ error' \in [Node -> SUBSET Errors]
  BY PlaceNext DEF TypeOK, PCs
<1>3. \A n \in Node : error'[n] # {} <=> pc'[n] = "Failed"
  <2>1. ASSUME NEW n \in Node, pc[n] \notin Ended, NEW where \in PCs \ {"Failed"}, Goto(n, where)
        PROVE  \A p \in Node : error'[p] # {} <=> pc'[p] = "Failed"
    BY <2>1 DEF TypeOK, Goto, Ended
  <2>2. ASSUME NEW n \in Node, NEW e \in Errors, Fail(n, e)
        PROVE  \A p \in Node : error'[p] # {} <=> pc'[p] = "Failed"
    BY <2>2 DEF TypeOK, Fail
  <2>3. CASE UNCHANGED <<pc, error>>
    BY <2>3 DEF TypeOK
  <2> QED BY <2>1, <2>2, <2>3, PlaceStep
<1> QED BY <1>1, <1>2, <1>3 DEF TypeOK, PCs

-----------------------------------------------------------------------------
(* Messages and nodes                                                      *)

\* A step after which at most the message m is new to the channels keeps the
\* messages proper, if m is.
LEMMA MessagesNext ==
  ASSUME MessagesInv, NEW m,
         UNCHANGED <<log, mail>>, peers[Initiator] \subseteq peers'[Initiator],
         SeatAddrs \subseteq SeatAddrs', Proper(m)',
         \A c \in Conn : \A k \in DOMAIN outbox'[c] :
           outbox'[c][k] = m \/ (k \in DOMAIN outbox[c] /\ outbox'[c][k] = outbox[c][k])
  PROVE  MessagesInv'
BY DEF MessagesInv, Proper, PaysOwner

\* The peers the initiator counts, and the seats with them, only grow.
LEMMA SeatsGrow ==
  ASSUME TypeOK, peers[Initiator] \subseteq peers'[Initiator]
  PROVE  SeatAddrs \subseteq SeatAddrs'
BY DEF SeatAddrs, Seats

\* A step that moves threads out of the pool, or on to where nothing is claimed
\* of them, and touches nothing else that the invariant speaks of.
Quiet ==
  /\ UNCHANGED <<log, mail, outbox, peers, cj, input, chain>>
  /\ \A n \in Node : \/ pc'[n] = pc[n]
                     \/ /\ pc'[n] \notin {"Outputs", "SendInput"}
                        /\ pc'[n] \in InPool => pc[n] \in InPool

LEMMA QuietStep ==
  ASSUME IInv, Quiet
  PROVE  MessagesInv' /\ NodesInv' /\ PaidIfSpent'
<1>1. SeatAddrs' = SeatAddrs
  BY DEF SeatAddrs, Seats, Quiet
<1>2. MessagesInv'
  BY <1>1 DEF IInv, Quiet, MessagesInv, Proper, PaysOwner
<1>3. ASSUME NEW n \in Node PROVE NodeInv(n)'
  BY <1>1, RoundAssumption DEF IInv, Quiet, NodesInv, NodeInv, OwnInv, PaysOwner
<1>4. NodesInv' /\ PaidIfSpent'
  BY <1>3 DEF IInv, NodesInv, Quiet, PaidIfSpent
<1> QED BY <1>2, <1>4

\* The steps that only receive, drop, wait, give up or end.
LEMMA QuietActions ==
  ASSUME IInv, NEW n \in Node,
         \/ AbortJoin(n) \/ JoinTimeout(n) \/ EmptyPoll(n) \/ LeavePeers(n)
         \/ LeaveInputs(n) \/ BroadcastFails(n)
         \/ \E k \in unread[n] : \/ DropInPeers(n, k) \/ ReceiveEarlyInput(n, k)
                                 \/ DropInOutputs(n, k) \/ DropInInputs(n, k)
  PROVE  Quiet
<1> USE DEF nodeVars, relayVars
<1>1. pc \in [Node -> PCs]
  BY DEF IInv, TypeOK, DataOK, PCs
<1>2. CASE AbortJoin(n) \/ JoinTimeout(n)
  BY <1>1, <1>2 DEF AbortJoin, JoinTimeout, Quiet, Fail, InPool
<1>3. CASE EmptyPoll(n)
  BY <1>1, <1>3 DEF EmptyPoll, Quiet
<1>4. CASE LeavePeers(n)
  BY <1>1, <1>4 DEF LeavePeers, Quiet, Goto, InPool
<1>5. CASE LeaveInputs(n)
  BY <1>1, <1>5 DEF LeaveInputs, Quiet, Goto, Fail, InPool
<1>6. CASE BroadcastFails(n)
  BY <1>1, <1>6 DEF BroadcastFails, Quiet, Fail, InPool
<1>7. ASSUME NEW k \in unread[n], DropInPeers(n, k) PROVE Quiet
  BY <1>1, <1>7 DEF DropInPeers, Quiet
<1>8. ASSUME NEW k \in unread[n], ReceiveEarlyInput(n, k) PROVE Quiet
  BY <1>1, <1>8 DEF ReceiveEarlyInput, Quiet, Goto, InPool
<1>9. ASSUME NEW k \in unread[n], DropInOutputs(n, k) PROVE Quiet
  BY <1>1, <1>9 DEF DropInOutputs, Quiet
<1>10. ASSUME NEW k \in unread[n], DropInInputs(n, k) PROVE Quiet
  BY <1>1, <1>10 DEF DropInInputs, Quiet
<1> QED BY <1>2, <1>3, <1>4, <1>5, <1>6, <1>7, <1>8, <1>9, <1>10

\* The steps of the environment that carry no message.
LEMMA QuietEnvironment ==
  ASSUME IInv,
         \/ \E c \in Conn : LinkDies(c) \/ ListenStops(c)
         \/ Tick \/ UNCHANGED vars
  PROVE  Quiet
BY DEF LinkDies, ListenStops, Tick, vars, nodeVars, relayVars, Quiet

\* A step of node n that leaves the other nodes and the initiator's count as
\* they were keeps NodesInv if it keeps it of n.
LEMMA OneNode ==
  ASSUME IInv, NEW n \in Node,
         UNCHANGED peers, input' \subseteq input,
         \A p \in Node \ {n} : pc'[p] = pc[p] /\ cj'[p] = cj[p],
         NodeInv(n)'
  PROVE  NodesInv'
<1>1. SeatAddrs' = SeatAddrs
  BY DEF SeatAddrs, Seats
<1>2. ASSUME NEW p \in Node \ {n} PROVE NodeInv(p)'
  BY <1>1, <1>2 DEF IInv, NodesInv, NodeInv, OwnInv, PaysOwner
<1> QED BY <1>2 DEF IInv, NodesInv

-----------------------------------------------------------------------------
(* The steps that send, register, finalise or broadcast                    *)

\* A step that leaves peers as it was keeps the seats.
LEMMA SameSeats == ASSUME UNCHANGED peers PROVE SeatAddrs' = SeatAddrs
BY DEF SeatAddrs, Seats

LEMMA PostStep ==
  ASSUME IInv, Post PROVE MessagesInv' /\ NodesInv' /\ PaidIfSpent'
<1> USE DEF nodeVars, relayVars
<1>1. PoolEvent \in Msg /\ "Posted" \in PCs /\ Initiator \in Node
  BY RoundAssumption DEF PoolEvent, Msg, PCs, InPool
<1>2. SeatAddrs' = SeatAddrs /\ Proper(PoolEvent)'
  BY SameSeats DEF Post, Proper, PoolEvent
<1>3. /\ \A c \in Conn : \A k \in DOMAIN outbox'[c] :
           outbox'[c][k] = PoolEvent \/ (k \in DOMAIN outbox[c] /\ outbox'[c][k] = outbox[c][k])
      /\ \A p \in Node : pc'[p] = pc[p] \/ (p = Initiator /\ pc'[p] \in {"Posted", "Failed"})
  BY <1>1, SendEffect DEF IInv, Post
<1>4. MessagesInv'
  BY <1>2, <1>3, MessagesNext DEF IInv, Post
<1>5. NodeInv(Initiator)'
  BY <1>1, <1>2, <1>3 DEF IInv, NodesInv, NodeInv, OwnInv, Post, PaysOwner
<1>6. NodesInv'
  BY <1>1, <1>3, <1>5, OneNode DEF Post
<1> QED BY <1>4, <1>6 DEF IInv, Post, PaidIfSpent

LEMMA SendDummyStep ==
  ASSUME IInv, SendDummy PROVE MessagesInv' /\ NodesInv' /\ PaidIfSpent'
<1> USE DEF nodeVars, relayVars
<1>1. Join(Dummy) \in Msg /\ Dummy \in Conn /\ Initiator \in Node
  BY RoundAssumption DEF Join, Msg, Dm, Conn
<1>2. SeatAddrs' = SeatAddrs /\ Proper(Join(Dummy))'
  BY SameSeats DEF SendDummy, Proper, Join
<1>3. \A c \in Conn : \A k \in DOMAIN outbox'[c] :
        outbox'[c][k] = Join(Dummy) \/ (k \in DOMAIN outbox[c] /\ outbox'[c][k] = outbox[c][k])
  BY <1>1, AppendEffect DEF TypeOK, IInv, SendDummy
<1>4. MessagesInv'
  BY <1>2, <1>3, MessagesNext DEF IInv, SendDummy
<1>5. \A p \in Node : pc'[p] = pc[p] \/ (p = Initiator /\ pc'[p] \in {"Peers", "Failed"})
  BY <1>1 DEF IInv, TypeOK, DataOK, SendDummy, Goto, Fail
<1>6. NodeInv(Initiator)'
  BY <1>1, <1>2, <1>5 DEF IInv, NodesInv, NodeInv, OwnInv, SendDummy, PaysOwner
<1>7. NodesInv'
  BY <1>1, <1>5, <1>6, OneNode DEF SendDummy
<1> QED BY <1>4, <1>7 DEF IInv, SendDummy, PaidIfSpent

LEMMA JoinPoolStep ==
  ASSUME IInv, NEW n \in Node, JoinPool(n) PROVE MessagesInv' /\ NodesInv' /\ PaidIfSpent'
<1> USE DEF nodeVars, relayVars
<1>1. Join(n) \in Msg /\ "Connecting" \in PCs
  BY DEF Join, Msg, Dm, Conn, PCs
<1>2. SeatAddrs' = SeatAddrs /\ Proper(Join(n))'
  BY SameSeats DEF JoinPool, Proper, Join
<1>3. /\ \A c \in Conn : \A k \in DOMAIN outbox'[c] :
           outbox'[c][k] = Join(n) \/ (k \in DOMAIN outbox[c] /\ outbox'[c][k] = outbox[c][k])
      /\ \A p \in Node : pc'[p] = pc[p] \/ (p = n /\ pc'[p] \in {"Connecting", "Failed"})
  BY <1>1, SendEffect DEF IInv, JoinPool
<1>4. MessagesInv'
  BY <1>2, <1>3, MessagesNext DEF IInv, JoinPool
<1>5. NodeInv(n)'
  BY <1>2, <1>3 DEF IInv, NodesInv, NodeInv, OwnInv, JoinPool, PaysOwner, InPool
<1>6. NodesInv'
  BY <1>3, <1>5, OneNode DEF JoinPool
<1> QED BY <1>4, <1>6 DEF IInv, JoinPool, PaidIfSpent

\* Credentials reach only nodes that the initiator has counted.
LEMMA ReceiveCredentialsStep ==
  ASSUME IInv, NEW n \in Node, ReceiveCredentials(n)
  PROVE  MessagesInv' /\ NodesInv' /\ PaidIfSpent'
<1> USE DEF nodeVars, relayVars
<1>1. SeatAddrs' = SeatAddrs
  BY SameSeats DEF ReceiveCredentials
<1>2. \A p \in Node : pc'[p] = pc[p] \/ (p = n /\ pc'[p] = "Peers")
  BY DEF IInv, TypeOK, DataOK, ReceiveCredentials, Goto
<1>3. n \in peers[Initiator]
  BY DEF IInv, MessagesInv, ReceiveCredentials
<1>4. NodeInv(n)'
  BY <1>1, <1>2, <1>3 DEF IInv, NodesInv, NodeInv, OwnInv, ReceiveCredentials, PaysOwner
<1>5. NodesInv'
  BY <1>2, <1>4, OneNode DEF ReceiveCredentials
<1>6. MessagesInv'
  BY <1>1 DEF IInv, MessagesInv, ReceiveCredentials, Proper, PaysOwner
<1> QED BY <1>5, <1>6 DEF IInv, ReceiveCredentials, PaidIfSpent

\* The initiator counts a peer in the step that sends it the pool's key.
LEMMA RegisterPeerStep ==
  ASSUME IInv, NEW n \in Node, NEW k, RegisterPeer(n, k)
  PROVE  MessagesInv' /\ NodesInv' /\ PaidIfSpent'
<1> USE DEF nodeVars, relayVars
<1>1. log[k] \in Dm /\ log[k].type = "Join" /\ peers \in [Node -> SUBSET Conn]
  BY ConsumeType DEF IInv, TypeOK, DataOK, RegisterPeer, InPeers
<1> PICK npub \in Conn : npub = log[k].npub
  BY <1>1 DEF Dm
<1>2. Credentials(npub) \in Msg /\ "Peers" \in PCs
  BY DEF Credentials, Msg, Dm, PCs, InPool
<1>3. peers[Initiator] \subseteq peers'[Initiator] /\ SeatAddrs \subseteq SeatAddrs'
  <2>1. peers' = peers \/ peers' = [peers EXCEPT ![n] = @ \cup {npub}]
    BY DEF RegisterPeer
  <2>2. peers[Initiator] \subseteq peers'[Initiator]
    BY <1>1, <2>1, RoundAssumption
  <2> QED BY <2>2, SeatsGrow DEF IInv
<1>4. \A p \in Node : pc'[p] = pc[p] \/ pc'[p] = "Failed"
  BY DEF IInv, TypeOK, DataOK, RegisterPeer, InPeers, SendThenGoto, Goto, Fail
<1>5. NodesInv'
  <2>1. ASSUME NEW p \in Node PROVE NodeInv(p)'
    BY <1>3, <1>4 DEF IInv, NodesInv, NodeInv, OwnInv, RegisterPeer, PaysOwner, InPool
  <2> QED BY <2>1 DEF IInv, NodesInv, RegisterPeer
<1>6. CASE n = Initiator /\ npub \notin peers[n] /\ CanSend(n)
  <2>1. npub \in peers'[Initiator]
    BY <1>1, <1>6 DEF RegisterPeer
  <2>2. Proper(Credentials(npub))'
    BY <2>1 DEF Proper, Credentials
  <2>3. SendThenGoto(n, Credentials(npub), "Peers")
    BY <1>6 DEF RegisterPeer
  <2>4. \A c \in Conn : \A j \in DOMAIN outbox'[c] :
          outbox'[c][j] = Credentials(npub)
            \/ (j \in DOMAIN outbox[c] /\ outbox'[c][j] = outbox[c][j])
    BY <1>2, <2>3, SendEffect DEF IInv
  <2>5. MessagesInv'
    BY <1>3, <2>2, <2>4, MessagesNext DEF IInv, RegisterPeer
  <2> QED BY <1>5, <2>5 DEF IInv, RegisterPeer, PaidIfSpent
<1>7. CASE ~(n = Initiator /\ npub \notin peers[n] /\ CanSend(n))
  <2>1. outbox' = outbox
    BY <1>7 DEF RegisterPeer, SendThenGoto
  <2>2. Proper(PoolEvent)'
    BY DEF Proper, PoolEvent
  <2>3. MessagesInv'
    BY <1>3, <2>1, <2>2, MessagesNext DEF IInv, RegisterPeer
  <2> QED BY <1>5, <2>3 DEF IInv, RegisterPeer, PaidIfSpent
<1> QED BY <1>6, <1>7

LEMMA ReceiveOutputStep ==
  ASSUME IInv, NEW n \in Node, NEW k, ReceiveOutput(n, k)
  PROVE  MessagesInv' /\ NodesInv' /\ PaidIfSpent'
<1> USE DEF nodeVars, relayVars
<1> DEFINE x == log[k].addr
<1>1. k \in DOMAIN log /\ log[k] \in Dm /\ log[k].type = "Output"
  BY ConsumeType DEF TypeOK, IInv, ReceiveOutput, InOutputs
<1>2. x \in Address /\ x \in SeatAddrs /\ cj[n] \in CJ /\ pc[n] = "Outputs"
  BY <1>1 DEF IInv, TypeOK, DataOK, MessagesInv, Proper, Dm, ReceiveOutput, InOutputs
<1>3. SeatAddrs' = SeatAddrs
  BY SameSeats DEF ReceiveOutput
<1>4. /\ \A p \in Node \ {n} : cj'[p] = cj[p]
      /\ cj'[n] = cj[n] \/ cj'[n] = AddOutput(cj[n], x)
  BY DEF IInv, TypeOK, DataOK, ReceiveOutput
<1>5. NodeInv(n)'
  BY <1>2, <1>3, <1>4, AddOutputType DEF IInv, NodesInv, NodeInv, OwnInv, ReceiveOutput, PaysOwner
<1>6. NodesInv'
  BY <1>4, <1>5, OneNode DEF ReceiveOutput
<1>7. MessagesInv'
  BY <1>3 DEF IInv, MessagesInv, ReceiveOutput, Proper, PaysOwner
<1> QED BY <1>6, <1>7 DEF IInv, ReceiveOutput, PaidIfSpent

\* A node publishes its own address, and it is a seat.
LEMMA RegisterOutputStep ==
  ASSUME IInv, NEW n \in Node, RegisterOutput(n)
  PROVE  MessagesInv' /\ NodesInv' /\ PaidIfSpent'
<1> USE DEF nodeVars, relayVars
<1>1. /\ AddrOf[n] \in Address /\ cj[n] \in CJ /\ n \in Conn
      /\ pc[n] = "SendOutput" /\ pc \in [Node -> PCs] /\ cj \in [Node -> CJ]
  BY RoundAssumption DEF IInv, TypeOK, DataOK, Conn, RegisterOutput, PCs
<1>2. SeatAddrs' = SeatAddrs
  BY SameSeats DEF RegisterOutput
<1>3. Output(AddrOf[n]) \in Msg
  BY <1>1 DEF Output, Msg, Dm
<1>4. \A p \in Node : pc'[p] = pc[p] \/ (p = n /\ pc'[p] \in {"Outputs", "Failed"})
  BY <1>1 DEF RegisterOutput, Goto, Fail
<1>5. CASE n \in WithOutput
  <2>1. n \in Seats
    BY <1>1, <1>5 DEF IInv, NodesInv, NodeInv, OwnInv, Seats, InPool
  <2>2. AddrOf[n] \in SeatAddrs
    BY <2>1 DEF SeatAddrs
  <2>3. Proper(Output(AddrOf[n]))'
    BY <1>2, <2>2 DEF Proper, Output
  <2>4. \A c \in Conn : \A k \in DOMAIN outbox'[c] :
          outbox'[c][k] = Output(AddrOf[n])
            \/ (k \in DOMAIN outbox[c] /\ outbox'[c][k] = outbox[c][k])
    BY <1>1, <1>3, <1>5, AppendEffect DEF TypeOK, IInv, RegisterOutput
  <2>5. MessagesInv'
    BY <1>2, <2>3, <2>4, MessagesNext DEF IInv, RegisterOutput
  <2>6. cj' = [cj EXCEPT ![n] = AddOutput(@, AddrOf[n])]
    BY <1>5 DEF RegisterOutput
  <2>7. cj'[n] = AddOutput(cj[n], AddrOf[n]) /\ \A p \in Node \ {n} : cj'[p] = cj[p]
    BY <1>1, <2>6
  <2>8. NodeInv(n)'
    BY <1>1, <1>2, <1>4, <2>2, <2>7, AddOutputType
    DEF IInv, NodesInv, NodeInv, OwnInv, RegisterOutput, PaysOwner, InPool
  <2>9. NodesInv'
    BY <1>4, <2>7, <2>8, OneNode DEF RegisterOutput
  <2> QED BY <2>5, <2>9 DEF IInv, RegisterOutput, PaidIfSpent
<1>6. CASE n \notin WithOutput
  <2>1. UNCHANGED <<outbox, cj>>
    BY <1>6 DEF RegisterOutput
  <2>2. NodeInv(n)'
    BY <1>1, <1>2, <1>4, <1>6, <2>1 DEF IInv, NodesInv, NodeInv, OwnInv, RegisterOutput, PaysOwner, InPool
  <2>3. NodesInv'
    BY <1>4, <2>1, <2>2, OneNode DEF RegisterOutput
  <2>4. MessagesInv'
    BY <1>2, <2>1 DEF IInv, MessagesInv, RegisterOutput, Proper, PaysOwner
  <2> QED BY <2>3, <2>4 DEF IInv, RegisterOutput, PaidIfSpent
<1> QED BY <1>5, <1>6

\* The template is all the outputs a node has, and at least MinPeer of them.
LEMMA LeaveOutputsStep ==
  ASSUME IInv, NEW n \in Node, LeaveOutputs(n)
  PROVE  MessagesInv' /\ NodesInv' /\ PaidIfSpent'
<1> USE DEF nodeVars, relayVars
<1>1. cj[n] \in CJ /\ pc \in [Node -> PCs] /\ cj \in [Node -> CJ] /\ pc[n] = "Outputs"
  BY DEF IInv, TypeOK, DataOK, PCs, LeaveOutputs
<1>2. SeatAddrs' = SeatAddrs
  BY SameSeats DEF LeaveOutputs
<1>3. MessagesInv'
  BY <1>2 DEF IInv, MessagesInv, LeaveOutputs, Proper, PaysOwner
<1>4. PICK r \in OutputsVerdict(n) :
        IF r = "ok" THEN cj' = [cj EXCEPT ![n] = GeneratePsbt(@)] /\ Goto(n, "SendInput")
        ELSE UNCHANGED cj /\ Fail(n, r)
  BY DEF LeaveOutputs
<1>5. CASE r = "ok"
  <2>1. ~(Cardinality(cj[n].outputs) < MinPeer)
    BY <1>4, <1>5 DEF OutputsVerdict, GeneratePsbtResults
  <2>2. IsFiniteSet(cj[n].outputs)
    BY <1>1, OpsAssumption, FS_Subset DEF CJ
  <2>3. Cardinality(cj[n].outputs) >= MinPeer
    BY <2>1, <2>2, FS_CardinalityType, OpsAssumption
  <2>4. cj'[n] = GeneratePsbt(cj[n]) /\ \A p \in Node \ {n} : cj'[p] = cj[p] /\ pc'[p] = pc[p]
    BY <1>1, <1>4, <1>5 DEF Goto
  <2>5. NodeInv(n)'
    BY <1>1, <1>2, <2>3, <2>4, GeneratePsbtType
    DEF IInv, NodesInv, NodeInv, OwnInv, LeaveOutputs, PaysOwner, InPool
  <2>6. NodesInv'
    BY <2>4, <2>5, OneNode DEF LeaveOutputs
  <2> QED BY <1>3, <2>6 DEF IInv, LeaveOutputs, PaidIfSpent
<1>6. CASE r # "ok"
  <2>1. UNCHANGED cj /\ pc'[n] = "Failed" /\ \A p \in Node \ {n} : pc'[p] = pc[p]
    BY <1>1, <1>4, <1>6 DEF Fail
  <2>2. NodeInv(n)'
    BY <1>2, <2>1 DEF IInv, NodesInv, NodeInv, OwnInv, LeaveOutputs, PaysOwner, InPool
  <2>3. NodesInv'
    BY <2>1, <2>2, OneNode DEF LeaveOutputs
  <2> QED BY <1>3, <2>3 DEF IInv, LeaveOutputs, PaidIfSpent
<1> QED BY <1>5, <1>6

\* A coin is signed for a template that pays its owner.
LEMMA RegisterInputStep ==
  ASSUME IInv, NEW n \in Node, RegisterInput(n)
  PROVE  MessagesInv' /\ NodesInv' /\ PaidIfSpent'
<1> USE DEF nodeVars, relayVars
<1>1. pc \in [Node -> PCs] /\ "Inputs" \in PCs /\ pc[n] = "SendInput"
  BY DEF IInv, TypeOK, DataOK, PCs, RegisterInput, InPool
<1>2. SeatAddrs' = SeatAddrs
  BY SameSeats DEF RegisterInput
<1>3. \A p \in Node : pc'[p] = pc[p] \/ (p = n /\ pc'[p] \in {"Inputs", "Failed"})
  BY <1>1 DEF RegisterInput, SendThenGoto, Goto, Fail
<1>4. NodeInv(n)'
  BY <1>1, <1>2, <1>3 DEF IInv, NodesInv, NodeInv, OwnInv, RegisterInput, PaysOwner, InPool
<1>5. input' \subseteq input
  BY DEF RegisterInput
<1>6. NodesInv'
  BY <1>3, <1>4, <1>5, OneNode DEF RegisterInput
<1>7. CASE n \in input /\ SendThenGoto(n, Input(SignedInput(n)), "Inputs")
  <2>1. SignedInput(n) \in Signed /\ PaysOwner(SignedInput(n))
    BY <1>1, <1>7, SignedInputType DEF IInv, TypeOK, NodesInv, NodeInv
  <2>2. Input(SignedInput(n)) \in Msg /\ Proper(Input(SignedInput(n)))
    BY <2>1 DEF Input, Msg, Dm, Proper
  <2>3. \A c \in Conn : \A k \in DOMAIN outbox'[c] :
          \/ outbox'[c][k] = Input(SignedInput(n))
          \/ k \in DOMAIN outbox[c] /\ outbox'[c][k] = outbox[c][k]
    BY <1>1, <1>7, <2>2, SendEffect DEF IInv
  <2>4. MessagesInv'
    BY <1>2, <2>2, <2>3 DEF IInv, MessagesInv, RegisterInput, Proper, PaysOwner
  <2> QED BY <1>6, <2>4 DEF IInv, RegisterInput, PaidIfSpent
<1>8. CASE UNCHANGED outbox
  <2>1. MessagesInv'
    BY <1>2, <1>8 DEF IInv, MessagesInv, RegisterInput, Proper, PaysOwner
  <2> QED BY <1>6, <2>1 DEF IInv, RegisterInput, PaidIfSpent
<1> QED BY <1>7, <1>8 DEF RegisterInput

LEMMA ReceiveInputStep ==
  ASSUME IInv, NEW n \in Node, NEW k, ReceiveInput(n, k)
  PROVE  MessagesInv' /\ NodesInv' /\ PaidIfSpent'
<1> USE DEF nodeVars, relayVars
<1> DEFINE x  == log[k].input
           ok == AddInputResult(cj[n], {}, 0, x) = "ok"
           c  == IF ok THEN AddInput(cj[n], x) ELSE cj[n]
<1>1. k \in DOMAIN log /\ log[k] \in Dm /\ log[k].type = "Input"
  BY ConsumeType DEF TypeOK, IInv, ReceiveInput, InInputs
<1>2. x \in Signed /\ PaysOwner(x) /\ cj[n] \in CJ /\ pc[n] = "Inputs" /\ cj \in [Node -> CJ]
  BY <1>1 DEF IInv, TypeOK, DataOK, MessagesInv, Proper, Dm, ReceiveInput, InInputs
<1>3. SeatAddrs' = SeatAddrs
  BY SameSeats DEF ReceiveInput
<1>4. cj' = [cj EXCEPT ![n] = TryFinalize(c)]
  BY DEF ReceiveInput
<1>5. cj'[n] = TryFinalize(c) /\ \A p \in Node \ {n} : cj'[p] = cj[p]
  BY <1>2, <1>4
<1>6. /\ c \in CJ /\ c.outputs = cj[n].outputs /\ c.psbt = cj[n].psbt /\ c.tx = cj[n].tx
      /\ \A i \in c.inputs : i \in cj[n].inputs \/ i = x
  BY <1>2, AddInputType
<1>7. /\ cj'[n].outputs = cj[n].outputs /\ cj'[n].psbt = cj[n].psbt
      /\ cj'[n].inputs = c.inputs
      /\ \A t \in cj'[n].tx : t \in cj[n].tx \/ t.ins = c.inputs
  BY <1>5, <1>6, TryFinalizeType
<1>8. \A i \in c.inputs : PaysOwner(i)
  BY <1>2, <1>6 DEF IInv, NodesInv, NodeInv, OwnInv
<1>9. NodeInv(n)'
  BY <1>2, <1>3, <1>7, <1>8 DEF IInv, NodesInv, NodeInv, OwnInv, ReceiveInput, PaysOwner
<1>10. NodesInv'
  BY <1>5, <1>9, OneNode DEF ReceiveInput
<1>11. MessagesInv'
  BY <1>3 DEF IInv, MessagesInv, ReceiveInput, Proper, PaysOwner
<1> QED BY <1>10, <1>11 DEF IInv, ReceiveInput, PaidIfSpent

\* The network accepts a transaction only with signatures made for it.
LEMMA BroadcastTxStep ==
  ASSUME IInv, NEW n \in Node, BroadcastTx(n)
  PROVE  MessagesInv' /\ NodesInv' /\ PaidIfSpent'
<1> USE DEF nodeVars, relayVars
<1>1. SeatAddrs' = SeatAddrs
  BY SameSeats DEF BroadcastTx
<1>2. \A p \in Node : pc'[p] = pc[p] \/ (p = n /\ pc'[p] \in {"Done", "Failed"})
  BY DEF IInv, TypeOK, DataOK, BroadcastTx, Goto, Fail
<1>3. NodeInv(n)'
  BY <1>1, <1>2 DEF IInv, NodesInv, NodeInv, OwnInv, BroadcastTx, PaysOwner, InPool
<1>4. NodesInv'
  BY <1>2, <1>3, OneNode DEF BroadcastTx
<1>5. MessagesInv'
  BY <1>1 DEF IInv, MessagesInv, BroadcastTx, Proper, PaysOwner
<1>6. FinalTx(n) \in cj[n].tx
  BY DEF BroadcastTx, Finalized, IsSome, FinalTx
<1>7. \A i \in FinalTx(n).ins : PaysOwner(i)
  BY <1>6 DEF IInv, NodesInv, NodeInv, OwnInv
<1>8. ASSUME NEW t \in chain', NEW i \in t.ins PROVE AddrOf[i.coin] \in t.outs
  <2>1. CASE t \in chain
    BY <2>1, <1>8 DEF IInv, PaidIfSpent
  <2>2. CASE t = FinalTx(n) /\ Valid(t)
    BY <1>7, <1>8, <2>2 DEF Valid, PaysOwner
  <2> QED BY <1>8, <2>1, <2>2 DEF BroadcastTx
<1> QED BY <1>4, <1>5, <1>8 DEF PaidIfSpent

LEMMA TransmitStep ==
  ASSUME IInv, NEW c \in Conn, Transmit(c)
  PROVE  MessagesInv' /\ NodesInv' /\ PaidIfSpent'
<1> USE DEF nodeVars, relayVars
<1>1. SeatAddrs' = SeatAddrs /\ UNCHANGED <<peers, cj, input, pc, chain>>
  BY SameSeats DEF Transmit
<1>2. Proper(Head(outbox[c]))
  BY TransmitEffect DEF TypeOK, IInv, MessagesInv
<1>3. MessagesInv'
  <2>1. mail' \subseteq peers'[Initiator]
    BY <1>1, <1>2, TransmitEffect DEF TypeOK, IInv, MessagesInv, Proper
  <2>2. \A d \in Conn : \A k \in DOMAIN outbox'[d] : Proper(outbox[d][k])'
    <3>1. ASSUME NEW m, Proper(m) PROVE Proper(m)'
      BY <1>1, <3>1 DEF Proper, PaysOwner
    <3> QED BY <3>1, TransmitEffect DEF TypeOK, IInv, MessagesInv
  <2>3. \A k \in DOMAIN log' : Proper(log[k])'
    BY <1>1, <1>2, TransmitEffect DEF TypeOK, IInv, MessagesInv, Proper, PaysOwner
  <2> QED BY <2>1, <2>2, <2>3 DEF MessagesInv
<1>4. ASSUME NEW n \in Node PROVE NodeInv(n)'
  BY <1>1 DEF IInv, NodesInv, NodeInv, OwnInv, PaysOwner
<1> QED BY <1>1, <1>3, <1>4 DEF IInv, NodesInv, PaidIfSpent

-----------------------------------------------------------------------------
(* The theorems                                                            *)

LEMMA InvInit == Init => IInv
<1> SUFFICES ASSUME Init PROVE IInv
  OBVIOUS
<1>1. TypeOK
  BY TypeInit
<1>2. MessagesInv
  BY DEF Init, MessagesInv
<1>3. NodesInv
  BY DEF Init, NodesInv, NodeInv, OwnInv, NewCoinJoin, InPool
<1>4. PaidIfSpent
  BY DEF Init, PaidIfSpent
<1> QED BY <1>1, <1>2, <1>3, <1>4 DEF IInv

LEMMA InvNext == IInv /\ [Next]_vars => IInv'
<1> SUFFICES ASSUME IInv, [Next]_vars PROVE MessagesInv' /\ NodesInv' /\ PaidIfSpent'
  BY TypeNext DEF IInv
<1>1. CASE Post
  BY <1>1, PostStep
<1>2. CASE SendDummy
  BY <1>2, SendDummyStep
<1>3. ASSUME NEW n \in Node, Step(n) PROVE MessagesInv' /\ NodesInv' /\ PaidIfSpent'
  <2>1. CASE Quiet
    BY <2>1, QuietStep
  <2>2. CASE \/ JoinPool(n) \/ ReceiveCredentials(n) \/ RegisterOutput(n) \/ LeaveOutputs(n)
             \/ RegisterInput(n) \/ BroadcastTx(n)
    BY <2>2, JoinPoolStep, ReceiveCredentialsStep, RegisterOutputStep, LeaveOutputsStep,
       RegisterInputStep, BroadcastTxStep
  <2>3. ASSUME NEW k \in unread[n], RegisterPeer(n, k) \/ ReceiveOutput(n, k) \/ ReceiveInput(n, k)
        PROVE  MessagesInv' /\ NodesInv' /\ PaidIfSpent'
    BY <2>3, RegisterPeerStep, ReceiveOutputStep, ReceiveInputStep
  <2> QED BY <1>3, <2>1, <2>2, <2>3, QuietActions DEF Step, Receive
<1>4. ASSUME NEW c \in Conn, Transmit(c) PROVE MessagesInv' /\ NodesInv' /\ PaidIfSpent'
  BY <1>4, TransmitStep
<1>5. CASE (\E c \in Conn : LinkDies(c) \/ ListenStops(c)) \/ Tick \/ UNCHANGED vars
  BY <1>5, QuietEnvironment, QuietStep
<1> QED BY <1>1, <1>2, <1>3, <1>4, <1>5 DEF Next

\* The conjunction of the four parts is inductive.
LEMMA Invariant == Spec => []IInv
BY InvInit, InvNext, PTL DEF Spec

\* All variables keep their types, and no node is left to read a message that
\* the relay has not stored (ReceiveCredentials, Transmit).  The signature of a
\* node is typed because a node that signs has a template.
THEOREM TypeCorrect == Spec => []TypeOK
<1>1. IInv => TypeOK
  BY DEF IInv
<1> QED BY <1>1, Invariant, PTL

\* Only peers the initiator has counted get the pool's key, only addresses of
\* such nodes are registered, and every signature that travels was made for
\* outputs that pay the owner of its coin (RegisterPeer, RegisterOutput and
\* RegisterInput are the senders).
THEOREM MessagesProper == Spec => []MessagesInv
<1>1. IInv => MessagesInv
  BY DEF IInv
<1> QED BY <1>1, Invariant, PTL

\* What every node holds is in order: its outputs are addresses of seats, its
\* template has at least MinPeer of them and, while it is to sign, its own; the
\* signatures it received pay their signers.
THEOREM NodesSound == Spec => []NodesInv
<1>1. IInv => NodesInv
  BY DEF IInv
<1> QED BY <1>1, Invariant, PTL

\* No accepted transaction spends a coin without paying its owner's address:
\* the node added its own address before it signed the outputs it then had, and
\* the network accepts a signature only with the outputs it was made for.
THEOREM PaidSafe == Spec => []PaidIfSpent
<1>1. IInv => PaidIfSpent
  BY DEF IInv
<1> QED BY <1>1, Invariant, PTL

\* There are at most as many seat addresses as seats.
LEMMA SeatsBound ==
  ASSUME TypeOK
  PROVE  /\ IsFiniteSet(SeatAddrs) /\ Cardinality(SeatAddrs) \in Nat
         /\ IsFiniteSet(Seats) /\ Cardinality(Seats) \in Nat
         /\ Cardinality(SeatAddrs) <= Cardinality(Seats)
<1> DEFINE f == [n \in Seats |-> AddrOf[n]]
<1>1. Seats \subseteq Node
  BY RoundAssumption DEF Seats
<1>2. IsFiniteSet(Seats)
  BY <1>1, FS_Subset, RoundAssumption
<1>3. f \in Surjection(Seats, SeatAddrs)
  BY DEF Surjection, SeatAddrs
<1>4. IsFiniteSet(SeatAddrs) /\ Cardinality(SeatAddrs) <= Cardinality(Seats)
  BY <1>2, <1>3, FS_Surjection
<1> QED BY <1>2, <1>4, FS_CardinalityType

\* Unless the initiator gave its key to more nodes than the pool is for, any two
\* templates are equal: each is a set of at least MinPeer seat addresses, of
\* which there are no more than MinPeer.
THEOREM AgreementHolds == Spec => []Agreement
<1>1. ASSUME IInv PROVE Agreement
  <2> SUFFICES ASSUME ~Overbooked,
                      NEW n \in Node, NEW t \in cj[n].psbt
               PROVE  t = SeatAddrs
    BY DEF Agreement
  <2>1. t \subseteq SeatAddrs /\ Cardinality(t) >= MinPeer
    BY <1>1 DEF IInv, NodesInv, NodeInv, OwnInv
  <2>2. /\ IsFiniteSet(SeatAddrs) /\ Cardinality(SeatAddrs) \in Nat
        /\ Cardinality(SeatAddrs) <= MinPeer
    BY <1>1, SeatsBound, OpsAssumption DEF IInv, Overbooked
  <2>3. Cardinality(t) \in Nat /\ Cardinality(t) <= Cardinality(SeatAddrs)
        /\ (Cardinality(t) = Cardinality(SeatAddrs) => t = SeatAddrs)
    BY <2>1, <2>2, FS_Subset, FS_CardinalityType
  <2> QED BY <2>1, <2>2, <2>3, OpsAssumption
<1> QED BY <1>1, Invariant, PTL
=============================================================================
