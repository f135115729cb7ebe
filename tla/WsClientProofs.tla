--------------------------- MODULE WsClientProofs ---------------------------
(***************************************************************************)
(* Proofs about WsClient, for any texts, any number of events and any      *)
(* number of intervals after which the listen thread gives up.             *)
(***************************************************************************)
EXTENDS WsClient, SequenceTheorems, TLAPS

\* A thread runs only behind a handle that was connected, and a handle that was
\* never connected has accepted nothing.
ThreadInv ==
  /\ handle = "none" <=> thread = "none"
  /\ handle # "held" => ~connected
  /\ handle = "none" => posted = << >> /\ toListen = << >>

\* What every reachable state satisfies.
WsInv == WsTypeOK /\ QueueInv /\ ThreadInv /\ Flushed

-----------------------------------------------------------------------------
(* Type correctness                                                        *)

\* The head of a channel is one of its elements and its tail a channel.
LEMMA HeadTailIn ==
  ASSUME NEW S, NEW q \in Seq(S), q # << >>
  PROVE  /\ Head(q) \in S /\ Tail(q) \in Seq(S)
         /\ Len(q) \in Nat \ {0} /\ Len(Tail(q)) = Len(q) - 1
         /\ \A k \in 1..Len(q) - 1 : Tail(q)[k] = q[k + 1]
         /\ Head(q) = q[1]
OBVIOUS

LEMMA AppendIn ==
  ASSUME NEW S, NEW q \in Seq(S), NEW x \in S
  PROVE  Append(q, x) \in Seq(S)
OBVIOUS

LEMMA WsTypeInit == WsInit => WsTypeOK
<1> SUFFICES ASSUME WsInit PROVE WsTypeOK
  OBVIOUS
<1>1. << >> \in Seq(Text) /\ << >> \in Seq(Nat) /\ << >> \in Seq(0..MaxEvents + 1)
        /\ << >> \in Seq(0..MaxEvents) /\ << >> \in Seq(1..MaxEvents)
  OBVIOUS
<1>2. connected \in BOOLEAN /\ pinged \in BOOLEAN /\ calm \in BOOLEAN
  BY DEF WsInit
<1>3. events \in 0..MaxEvents /\ sincePing \in 0..1 /\ sincePong \in 0..PongIntervals
  BY WsAssumption DEF WsInit
<1> QED BY <1>1, <1>2, <1>3 DEF WsInit, WsTypeOK

LEMMA WsTypeNext == WsTypeOK /\ [WsNext]_wsVars => WsTypeOK'
<1> SUFFICES ASSUME WsTypeOK, [WsNext]_wsVars PROVE WsTypeOK'
  OBVIOUS
<1> USE WsAssumption
<1>1. CASE Connect
  BY <1>1 DEF Connect, WsTypeOK, Looping
<1>2. ASSUME NEW t \in Text, SendRaw(t) PROVE WsTypeOK'
  <2>1. posted' \in Seq(Text) /\ toListen' \in Seq(Nat)
    BY <1>2 DEF SendRaw, WsTypeOK
  <2> QED BY <1>2, <2>1 DEF SendRaw, WsTypeOK
<1>3. CASE TryReceive
  <2>1. Head(toApp) \in 0..MaxEvents /\ toApp' \in Seq(0..MaxEvents)
    BY <1>3, HeadTailIn DEF TryReceive, WsTypeOK
  <2>2. got' \in Seq(1..MaxEvents) /\ connected' \in BOOLEAN
    <3>1. CASE Head(toApp) = Close
      BY <1>3, <3>1 DEF TryReceive, WsTypeOK
    <3>2. CASE Head(toApp) # Close
      <4>1. Head(toApp) \in 1..MaxEvents
        BY <2>1, <3>2 DEF Close
      <4>2. got' = Append(got, Head(toApp)) /\ connected' = connected
        BY <1>3, <3>2 DEF TryReceive
      <4>3. got' \in Seq(1..MaxEvents)
        BY <4>1, <4>2 DEF WsTypeOK
      <4> QED BY <4>2, <4>3 DEF WsTypeOK
    <3> QED BY <3>1, <3>2
  <2> QED BY <1>3, <2>1, <2>2 DEF TryReceive, WsTypeOK
<1>4. ASSUME Stopped PROVE toListen' \in Seq(Nat) /\ connected' \in BOOLEAN
  <2>1. toListen' = toListen \/ toListen' = Append(toListen, 0)
    BY <1>4 DEF Stopped, Stop
  <2>2. toListen' \in Seq(Nat)
    <3>1. toListen \in Seq(Nat) /\ 0 \in Nat
      BY DEF WsTypeOK
    <3> QED BY <2>1, <3>1, AppendIn
  <2> QED BY <1>4, <2>2 DEF Stopped
<1>41. CASE StopClient
  BY <1>4, <1>41 DEF StopClient, WsTypeOK
<1>42. CASE DropClient
  <2>1. toApp' \in Seq(0..MaxEvents)
    BY <1>42 DEF DropClient
  <2> QED BY <1>4, <1>42, <2>1 DEF DropClient, WsTypeOK
<1>5. CASE ListenSend
  <2>1. Head(toListen) \in Nat /\ toListen' \in Seq(Nat)
    BY <1>5, HeadTailIn DEF ListenSend, WsTypeOK
  <2>2. arrived' \in Seq(Nat) /\ taken' \in Nat
    BY <1>5, <2>1 DEF ListenSend, WsTypeOK
  <2> QED BY <1>5, <2>1, <2>2 DEF ListenSend, WsTypeOK, Looping
<1>6. CASE ListenIdle \/ ListenReturn \/ ListenWouldBlock
  BY <1>6 DEF ListenIdle, ListenReturn, ListenWouldBlock, WsTypeOK, Looping, Over
<1>7. CASE ListenRecv
  <2>1. Head(inbound) \in 0..MaxEvents + 1 /\ inbound' \in Seq(0..MaxEvents + 1)
    BY <1>7, HeadTailIn DEF ListenRecv, WsTypeOK
  <2>2. toApp' \in Seq(0..MaxEvents)
    <3>1. CASE Head(inbound) = Pong \/ handle = "dropped"
      BY <1>7, <3>1 DEF ListenRecv, WsTypeOK
    <3>2. CASE Head(inbound) # Pong /\ handle # "dropped"
      <4>1. Head(inbound) \in 0..MaxEvents
        BY <2>1, <3>2 DEF Pong
      <4>2. toApp' = Append(toApp, Head(inbound))
        BY <1>7, <3>2 DEF ListenRecv
      <4> QED BY <4>1, <4>2 DEF WsTypeOK
    <3> QED BY <3>1, <3>2
  <2>3. thread' \in {"none"} \cup Looping \cup Over
    BY <1>7 DEF ListenRecv, Looping, Over
  <2>4. sincePong' \in 0..PongIntervals
    BY <1>7 DEF ListenRecv, WsTypeOK
  <2> QED BY <1>7, <2>1, <2>2, <2>3, <2>4 DEF ListenRecv, WsTypeOK
<1>8. CASE ListenTimers
  <2>1. toApp' \in Seq(0..MaxEvents)
    <3>1. toApp' = toApp \/ toApp' = Append(toApp, 0)
      BY <1>8 DEF ListenTimers, Close
    <3>2. toApp \in Seq(0..MaxEvents) /\ 0 \in 0..MaxEvents
      BY DEF WsTypeOK
    <3> QED BY <3>1, <3>2, AppendIn
  <2>2. thread' \in {"none"} \cup Looping \cup Over
    BY <1>8 DEF ListenTimers, Looping, Over
  <2>3. pinged' \in BOOLEAN
    BY <1>8, Zenon DEF ListenTimers, WsTypeOK
  <2>4. sincePing' \in 0..1
    <3>1. sincePing' = 0
      BY <1>8, Zenon DEF ListenTimers
    <3> QED BY <3>1
  <2>5. UNCHANGED <<handle, connected, posted, toListen, taken, arrived, socket, events, inbound,
                    got, sincePong, calm>>
    BY <1>8 DEF ListenTimers
  <2> QED BY <2>1, <2>2, <2>3, <2>4, <2>5 DEF WsTypeOK
<1>9. CASE RelaySends
  <2>1. events' \in 0..MaxEvents /\ events + 1 \in 0..MaxEvents + 1
    BY <1>9 DEF RelaySends, WsTypeOK
  <2>2. inbound' \in Seq(0..MaxEvents + 1)
    BY <1>9, <2>1 DEF RelaySends, WsTypeOK
  <2> QED BY <1>9, <2>1, <2>2 DEF RelaySends, WsTypeOK
<1>91. CASE RelayPongs
  <2>1. inbound' \in Seq(0..MaxEvents + 1)
    <3>1. MaxEvents + 1 \in 0..MaxEvents + 1
      OBVIOUS
    <3> QED BY <1>91, <3>1 DEF RelayPongs, Pong, WsTypeOK
  <2> QED BY <1>91, <2>1 DEF RelayPongs, WsTypeOK
<1>10. CASE Disturbance
  <2>1. CASE RelayCloses
    <3>1. inbound' \in Seq(0..MaxEvents + 1)
      BY <2>1 DEF RelayCloses, Close, WsTypeOK
    <3> QED BY <2>1, <3>1 DEF RelayCloses, WsTypeOK
  <2>2. CASE SocketDies
    <3>1. PICK n \in 0..Len(inbound) : inbound' = SubSeq(inbound, 1, n)
      BY <2>2 DEF SocketDies
    <3>2. inbound' \in Seq(0..MaxEvents + 1)
      BY <3>1 DEF WsTypeOK
    <3> QED BY <2>2, <3>2 DEF SocketDies, WsTypeOK
  <2>3. CASE SocketFills
    BY <2>3 DEF SocketFills, WsTypeOK
  <2> QED BY <1>10, <2>1, <2>2, <2>3 DEF Disturbance
<1>11. CASE Tick
  BY <1>11 DEF Tick, WsTypeOK
<1>12. CASE UNCHANGED wsVars
  BY <1>12 DEF wsVars, WsTypeOK
<1> QED BY <1>1, <1>2, <1>3, <1>41, <1>42, <1>5, <1>6, <1>7, <1>8, <1>9, <1>91, <1>10, <1>11, <1>12
        DEF WsNext, Application, Listen, Relay

-----------------------------------------------------------------------------
(* The channel to the thread and the end of the thread                     *)

LEMMA WsInvInit == WsInit => WsInv
<1> SUFFICES ASSUME WsInit PROVE WsInv
  OBVIOUS
<1>1. Len(posted) = 0 /\ taken = 0 /\ Len(toListen) = 0
  BY DEF WsInit
<1>2. QueueInv
  BY <1>1 DEF QueueInv
<1>3. ThreadInv /\ Flushed
  BY DEF WsInit, ThreadInv, Flushed
<1> QED BY <1>2, <1>3, WsTypeInit DEF WsInv

\* A step that leaves the posted texts, the channel, what was taken and the handle
\* alone, and does not stop the thread, keeps the channel's invariants.
LEMMA QueueUnchanged ==
  ASSUME WsInv, UNCHANGED <<posted, toListen, taken>>, connected' => connected
  PROVE  QueueInv'
BY DEF WsInv, QueueInv

\* What the thread finds at the head of its channel.
LEMMA QueueHead ==
  ASSUME WsInv, toListen # << >>
  PROVE  /\ Head(toListen) = Stop <=> taken = Len(posted)
         /\ Head(toListen) # Stop => Head(toListen) = taken + 1 /\ taken < Len(posted)
<1>1. /\ Len(posted) \in Nat /\ taken \in Nat /\ Len(toListen) \in Nat \ {0}
      /\ Head(toListen) = toListen[1]
  BY HeadTailIn DEF WsInv, WsTypeOK
<1>2. CASE taken = Len(posted)
  BY <1>1, <1>2 DEF WsInv, QueueInv, Stop
<1>3. CASE taken < Len(posted)
  <2>1. toListen[1] = taken + 1
    BY <1>1, <1>3 DEF WsInv, QueueInv
  <2> QED BY <1>1, <1>3, <2>1 DEF Stop
<1> QED BY <1>1, <1>2, <1>3 DEF WsInv, QueueInv

LEMMA QueueNext == WsInv /\ [WsNext]_wsVars => QueueInv'
<1> SUFFICES ASSUME WsInv, [WsNext]_wsVars PROVE QueueInv'
  OBVIOUS
<1>0. /\ posted \in Seq(Text) /\ toListen \in Seq(Nat) /\ taken \in Nat
      /\ Len(posted) \in Nat /\ Len(toListen) \in Nat
  BY DEF WsInv, WsTypeOK
<1>1. CASE Connect
  <2>1. posted = << >>
    BY <1>1 DEF Connect, WsInv, ThreadInv
  <2>2. toListen = << >> /\ taken = 0
    BY <1>0, <1>1, <2>1 DEF Connect, WsInv, ThreadInv, QueueInv
  <2> QED BY <1>1, <2>1, <2>2 DEF Connect, QueueInv
<1>2. ASSUME NEW t \in Text, SendRaw(t) PROVE QueueInv'
  <2>1. connected /\ connected' = connected /\ taken' = taken
    BY <1>2 DEF SendRaw, CanPost
  <2>2. Len(toListen) = Len(posted) - taken /\ taken <= Len(posted)
    BY <2>1, <1>0 DEF WsInv, QueueInv
  <2>3. /\ Len(posted') = Len(posted) + 1 /\ Len(toListen') = Len(toListen) + 1
        /\ \A k \in 1..Len(toListen) : toListen'[k] = toListen[k]
        /\ toListen'[Len(toListen) + 1] = Len(posted) + 1
    BY <1>2, <1>0 DEF SendRaw
  <2>4. \A k \in 1..Len(toListen) : toListen[k] = taken + k
    BY <2>2 DEF WsInv, QueueInv
  <2>5. Len(posted') - taken' = Len(toListen') /\ taken' <= Len(posted')
    BY <1>0, <2>1, <2>2, <2>3
  <2>6. \A k \in 1..Len(toListen') : toListen'[k] = taken' + k
    <3> SUFFICES ASSUME NEW k \in 1..Len(toListen') PROVE toListen'[k] = taken' + k
      OBVIOUS
    <3>1. k \in 1..Len(toListen) \/ k = Len(toListen) + 1
      BY <1>0, <2>3
    <3> QED BY <1>0, <2>1, <2>2, <2>3, <2>4, <3>1
  <2>7. Len(toListen') \in Nat
    BY <1>0, <2>3
  <2> QED BY <2>5, <2>6, <2>7 DEF QueueInv
<1>3. ASSUME Stopped, UNCHANGED <<posted, taken>> PROVE QueueInv'
  <2>1. CASE connected /\ Running
    <3>1. Len(toListen) = Len(posted) - taken /\ taken <= Len(posted)
      BY <2>1, <1>0 DEF WsInv, QueueInv
    <3>2. /\ Len(toListen') = Len(toListen) + 1 /\ toListen'[Len(toListen) + 1] = Stop
          /\ \A k \in 1..Len(toListen) : toListen'[k] = toListen[k]
      BY <1>3, <2>1, <1>0 DEF Stopped, Stop
    <3>3. \A k \in 1..Len(toListen) : toListen[k] = taken + k
      BY <3>1 DEF WsInv, QueueInv
    <3>4. ~connected'
      BY <1>3 DEF Stopped
    <3> QED BY <1>0, <1>3, <3>1, <3>2, <3>3, <3>4 DEF QueueInv
  <2>2. CASE ~(connected /\ Running)
    <3>1. toListen' = toListen /\ ~connected'
      BY <1>3, <2>2 DEF Stopped
    <3> QED BY <1>3, <3>1 DEF WsInv, QueueInv
  <2> QED BY <2>1, <2>2
<1>4. CASE StopClient \/ DropClient
  BY <1>3, <1>4 DEF StopClient, DropClient
<1>5. CASE ListenSend
  <2>1. Head(toListen) = taken + 1 /\ taken < Len(posted)
    BY <1>5, QueueHead DEF ListenSend
  <2>2. /\ Len(toListen') = Len(toListen) - 1 /\ taken' = taken + 1 /\ posted' = posted
        /\ \A k \in 1..Len(toListen) - 1 : toListen'[k] = toListen[k + 1]
        /\ connected' = connected
    BY <1>5, <1>0, HeadTailIn DEF ListenSend
  <2>3. \A k \in 1..Len(posted) - taken : toListen[k] = taken + k
    BY DEF WsInv, QueueInv
  <2>4. Len(toListen) = Len(posted) - taken + 1 =>
          toListen[Len(posted) - taken + 1] = Stop /\ ~connected
    BY DEF WsInv, QueueInv
  <2>5. \A k \in 1..Len(posted) - (taken + 1) : toListen'[k] = (taken + 1) + k
    <3>1. Len(posted) \in Nat /\ taken \in Nat /\ Len(toListen) \in Nat /\ Len(toListen) >= Len(posted) - taken
      BY <1>0 DEF WsInv, QueueInv
    <3>2. ASSUME NEW k \in 1..Len(posted) - (taken + 1) PROVE toListen'[k] = (taken + 1) + k
      <4>1. k \in 1..Len(toListen) - 1 /\ k + 1 \in 1..Len(posted) - taken
            /\ taken + (k + 1) = (taken + 1) + k
        BY <3>1, <3>2
      <4> QED BY <2>2, <2>3, <4>1
    <3> QED BY <3>2
  <2> QED BY <1>0, <2>1, <2>2, <2>4, <2>5 DEF WsInv, QueueInv
<1>6. CASE TryReceive
  <2>1. connected' => connected
    BY <1>6 DEF TryReceive
  <2> QED BY <1>6, <2>1, QueueUnchanged DEF TryReceive
<1>7. CASE ListenIdle \/ ListenReturn \/ ListenWouldBlock \/ ListenRecv \/ ListenTimers
             \/ RelaySends \/ RelayPongs \/ Tick
  <2>1. UNCHANGED <<posted, toListen, taken, connected>>
    BY <1>7 DEF ListenIdle, ListenReturn, ListenWouldBlock, ListenRecv, ListenTimers, RelaySends,
       RelayPongs, Tick
  <2> QED BY <2>1, QueueUnchanged
<1>8. CASE Disturbance
  BY <1>8, QueueUnchanged DEF Disturbance, RelayCloses, SocketDies, SocketFills
<1>9. CASE UNCHANGED wsVars
  BY <1>9, QueueUnchanged DEF wsVars
<1> QED BY <1>1, <1>2, <1>4, <1>5, <1>6, <1>7, <1>8, <1>9 DEF WsNext, Application, Listen, Relay

LEMMA ThreadNext == WsInv /\ [WsNext]_wsVars => ThreadInv'
<1> SUFFICES ASSUME WsInv, [WsNext]_wsVars PROVE ThreadInv'
  OBVIOUS
<1> USE DEF WsInv, ThreadInv
<1>1. CASE Connect
  BY <1>1 DEF Connect
<1>2. CASE \E t \in Text : SendRaw(t)
  BY <1>2 DEF SendRaw, CanPost
<1>3. CASE TryReceive
  BY <1>3 DEF TryReceive
<1>4. CASE StopClient
  BY <1>4 DEF StopClient, Stopped
<1>5. CASE DropClient
  BY <1>5 DEF DropClient, Stopped
<1>6. CASE ListenSend \/ ListenIdle
  BY <1>6 DEF ListenSend, ListenIdle
<1>7. CASE ListenReturn
  BY <1>7 DEF ListenReturn
<1>8. CASE ListenRecv
  BY <1>8 DEF ListenRecv
<1>9. CASE ListenWouldBlock
  BY <1>9 DEF ListenWouldBlock
<1>10. CASE ListenTimers
  BY <1>10 DEF ListenTimers
<1>11. CASE RelaySends \/ RelayPongs \/ Disturbance \/ Tick
  BY <1>11 DEF RelaySends, RelayPongs, Disturbance, RelayCloses, SocketDies, SocketFills, Tick
<1>12. CASE UNCHANGED wsVars
  BY <1>12 DEF wsVars
<1> QED BY <1>1, <1>2, <1>3, <1>4, <1>5, <1>6, <1>7, <1>8, <1>9, <1>10, <1>11, <1>12
        DEF WsNext, Application, Listen, Relay

\* Only ListenReturn stops the thread, and it finds the channel flushed.
LEMMA FlushedNext == WsInv /\ [WsNext]_wsVars => Flushed'
<1> SUFFICES ASSUME WsInv, [WsNext]_wsVars PROVE Flushed'
  OBVIOUS
<1>1. CASE Connect \/ (\E t \in Text : SendRaw(t))
  BY <1>1 DEF Connect, SendRaw, CanPost, Running, Looping, Flushed
<1>2. CASE TryReceive \/ StopClient \/ DropClient
  BY <1>2 DEF TryReceive, StopClient, DropClient, WsInv, Flushed
<1>3. CASE ListenReturn
  <2>1. taken = Len(posted)
    <3>1. CASE toListen = << >>
      BY <3>1 DEF WsInv, WsTypeOK, QueueInv
    <3>2. CASE toListen # << >>
      BY <1>3, <3>2, QueueHead DEF ListenReturn
    <3> QED BY <3>1, <3>2
  <2> QED BY <1>3, <2>1 DEF ListenReturn, Flushed
<1>4. CASE ListenSend \/ ListenIdle \/ ListenRecv \/ ListenWouldBlock \/ ListenTimers
  BY <1>4 DEF ListenSend, ListenIdle, ListenRecv, ListenWouldBlock, ListenTimers, Flushed
<1>5. CASE RelaySends \/ RelayPongs \/ Disturbance \/ Tick
  BY <1>5 DEF RelaySends, RelayPongs, Disturbance, RelayCloses, SocketDies, SocketFills, Tick,
     Running, Looping, Flushed
<1>6. CASE UNCHANGED wsVars
  BY <1>6 DEF wsVars, WsInv, Flushed
<1> QED BY <1>1, <1>2, <1>3, <1>4, <1>5, <1>6 DEF WsNext, Application, Listen, Relay

LEMMA WsInvNext == WsInv /\ [WsNext]_wsVars => WsInv'
BY WsTypeNext, QueueNext, ThreadNext, FlushedNext DEF WsInv

\* The invariant of the client and its thread.
THEOREM WsInvariant == WsSpec => []WsInv
BY WsInvInit, WsInvNext, PTL DEF WsSpec

\* The types of WsClient, for any number of messages posted.
THEOREM WsTypes == WsSpec => []WsTypeOK
<1>1. WsInv => WsTypeOK
  BY DEF WsInv
<1> QED BY <1>1, WsInvariant, PTL

\* Dropping a client loses no message: a thread that ends because its client was
\* stopped or dropped has taken all of them.
THEOREM DropFlushes == WsSpec => []Flushed
<1>1. WsInv => Flushed
  BY DEF WsInv
<1> QED BY <1>1, WsInvariant, PTL

-----------------------------------------------------------------------------
(* Pings and pongs                                                         *)

PongUnderway == \E k \in DOMAIN inbound : inbound[k] = Pong

\* As long as nothing happens to the connection at most one interval passes
\* without a pong, and then a ping is due or a pong is owed or under way.
PongInv ==
  /\ calm => socket = "up" /\ sincePong <= 1
  /\ calm /\ sincePong = 1 => sincePing = 1 \/ pinged \/ PongUnderway
  /\ NoFalseAlarm

\* A frame that is appended leaves those before it where they are.
LEMMA UnderwayAppend ==
  ASSUME WsTypeOK, NEW f \in 0..MaxEvents + 1, inbound' = Append(inbound, f)
  PROVE  PongUnderway \/ f = Pong => PongUnderway'
<1>1. /\ inbound \in Seq(0..MaxEvents + 1) /\ Len(inbound) \in Nat
      /\ DOMAIN inbound = 1..Len(inbound) /\ DOMAIN inbound' = 1..Len(inbound) + 1
      /\ inbound'[Len(inbound) + 1] = f
      /\ \A k \in 1..Len(inbound) : inbound'[k] = inbound[k]
  BY DEF WsTypeOK
<1> QED BY <1>1 DEF PongUnderway

\* Reading another frame leaves a pong under way.
LEMMA UnderwayTail ==
  ASSUME WsTypeOK, inbound # << >>, inbound' = Tail(inbound), Head(inbound) # Pong, PongUnderway
  PROVE  PongUnderway'
<1>1. PICK k \in DOMAIN inbound : inbound[k] = Pong
  BY DEF PongUnderway
<1>2. /\ Len(inbound) \in Nat \ {0} /\ DOMAIN inbound = 1..Len(inbound)
      /\ DOMAIN inbound' = 1..Len(inbound) - 1 /\ Head(inbound) = inbound[1]
      /\ \A j \in 1..Len(inbound) - 1 : inbound'[j] = inbound[j + 1]
  BY HeadTailIn DEF WsTypeOK
<1>3. k - 1 \in 1..Len(inbound) - 1
  BY <1>1, <1>2
<1> QED BY <1>1, <1>2, <1>3 DEF PongUnderway

LEMMA PongNext ==
  ASSUME PongIntervals > 1
  PROVE  WsTypeOK /\ PongInv /\ [WsNext]_wsVars => PongInv'
<1> SUFFICES ASSUME WsTypeOK, PongInv, [WsNext]_wsVars PROVE PongInv'
  OBVIOUS
<1>0. sincePing \in 0..1 /\ sincePong \in 0..PongIntervals /\ PongIntervals \in Nat
        /\ inbound \in Seq(0..MaxEvents + 1) /\ MaxEvents \in Nat
  BY WsAssumption DEF WsTypeOK
\* Steps that touch neither the timers nor what arrives.
<1>1. ASSUME UNCHANGED <<calm, socket, sincePing, sincePong, pinged, inbound>>,
             thread' = "timed out" => thread = "timed out"
      PROVE  PongInv'
  BY <1>1 DEF PongInv, PongUnderway, NoFalseAlarm
<1>2. CASE Application
  BY <1>1, <1>2 DEF Application, Connect, SendRaw, TryReceive, StopClient, DropClient
<1>3. CASE ListenSend \/ ListenIdle \/ ListenReturn \/ ListenWouldBlock
  BY <1>1, <1>3 DEF ListenSend, ListenIdle, ListenReturn, ListenWouldBlock
<1>4. CASE ListenRecv
  <2>1. UNCHANGED <<calm, socket, sincePing, pinged>> /\ thread' # "timed out"
    BY <1>4 DEF ListenRecv
  <2>2. CASE Head(inbound) = Pong
    <3>1. sincePong' = 0
      BY <1>4, <2>2 DEF ListenRecv
    <3>2. sincePong' <= 1 /\ sincePong' # 1
      BY <3>1
    <3> QED BY <2>1, <3>2, Zenon DEF PongInv, NoFalseAlarm
  <2>3. CASE Head(inbound) # Pong
    <3>1. sincePong' = sincePong
      BY <1>4, <2>3 DEF ListenRecv
    <3>2. PongUnderway => PongUnderway'
      BY <1>4, <2>3, UnderwayTail DEF ListenRecv
    <3> QED BY <2>1, <3>1, <3>2 DEF PongInv, NoFalseAlarm
  <2> QED BY <2>2, <2>3
<1>5. CASE ListenTimers
  <2>1. UNCHANGED <<calm, socket, sincePong, inbound>>
    BY <1>5 DEF ListenTimers
  <2>2. calm => ~(sincePong >= PongIntervals)
    BY <1>0 DEF PongInv
  <2>3. calm => thread' # "timed out"
    BY <1>5, <2>2, Zenon DEF ListenTimers
  <2>4. pinged \/ (sincePing = 1 /\ socket = "up") => pinged'
    <3>1. sincePing = 1 => sincePing >= 1
      BY <1>0
    <3> QED BY <1>5, <3>1, Zenon DEF ListenTimers
  <2>5. PongUnderway' = PongUnderway
    BY <2>1 DEF PongUnderway
  <2> QED BY <2>1, <2>3, <2>4, <2>5 DEF PongInv, NoFalseAlarm
<1>6. CASE RelaySends \/ RelayPongs
  <2>1. UNCHANGED <<calm, socket, sincePing, sincePong, thread>>
    BY <1>6 DEF RelaySends, RelayPongs
  <2>2. PongUnderway => PongUnderway'
    <3>1. CASE RelaySends
      <4>1. events + 1 \in 0..MaxEvents + 1
        BY <1>0, <3>1 DEF RelaySends, WsTypeOK
      <4> QED BY <3>1, <4>1, UnderwayAppend DEF RelaySends
    <3>2. CASE RelayPongs
      BY <1>0, <3>2, UnderwayAppend DEF RelayPongs, Pong
    <3> QED BY <1>6, <3>1, <3>2
  <2>3. pinged => pinged' \/ PongUnderway'
    <3>1. CASE RelaySends
      BY <3>1 DEF RelaySends
    <3>2. CASE RelayPongs
      <4>1. Pong \in 0..MaxEvents + 1
        BY <1>0 DEF Pong
      <4> QED BY <3>2, <4>1, UnderwayAppend DEF RelayPongs
    <3> QED BY <1>6, <3>1, <3>2
  <2> QED BY <2>1, <2>2, <2>3 DEF PongInv, NoFalseAlarm
<1>7. CASE Disturbance
  <2>1. ~calm' /\ thread' = thread
    BY <1>7 DEF Disturbance, RelayCloses, SocketDies, SocketFills
  <2> QED BY <2>1 DEF PongInv, NoFalseAlarm
<1>8. CASE Tick
  <2>1. UNCHANGED <<calm, socket, thread, pinged, inbound>> /\ sincePing = 0 /\ sincePing' = 1
    BY <1>8 DEF Tick
  <2>2. calm => sincePong = 0
    <3>1. calm => ~pinged /\ ~PongUnderway
      BY <1>8 DEF Tick, PongInv, PongUnderway
    <3> QED BY <1>0, <2>1, <3>1 DEF PongInv
  <2>3. sincePong = 0 => sincePong' = 1
    BY <1>0, <1>8 DEF Tick
  <2>4. calm => sincePong' <= 1
    BY <2>2, <2>3
  <2> QED BY <2>1, <2>4, Zenon DEF PongInv, NoFalseAlarm
<1>9. CASE UNCHANGED wsVars
  BY <1>1, <1>9 DEF wsVars
<1> QED BY <1>2, <1>3, <1>4, <1>5, <1>6, <1>7, <1>8, <1>9 DEF WsNext, Listen, Relay

\* A healthy connection is never given up, however long it is idle: the loop pings
\* within every interval, and the limit is longer than one interval.
THEOREM HealthyKept ==
  ASSUME PongIntervals > 1
  PROVE  WsSpec => []NoFalseAlarm
<1>1. WsInit => PongInv
  BY DEF WsInit, PongInv, NoFalseAlarm
<1>2. WsTypeOK /\ PongInv /\ [WsNext]_wsVars => PongInv'
  BY PongNext
<1>3. PongInv => NoFalseAlarm
  BY DEF PongInv
<1> QED BY <1>1, <1>2, <1>3, WsTypes, PTL DEF WsSpec

-----------------------------------------------------------------------------
(* The refinement                                                          *)

LEMMA ChannelInit == WsInit => Channel!Init
BY DEF WsInit, Channel!Init

LEMMA ChannelNext == WsInv /\ [WsNext]_wsVars => [Channel!Next]_(Channel!channelVars)
<1> SUFFICES ASSUME WsInv, [WsNext]_wsVars
             PROVE  Channel!Next \/ UNCHANGED Channel!channelVars
  OBVIOUS
<1> DEFINE state == IF handle = "none" THEN "new" ELSE IF connected /\ Running THEN "open" ELSE "shut"
\* A step that sends and takes nothing opens the channel, shuts it or stutters.
<1>1. ASSUME UNCHANGED <<posted, taken, arrived>>, state' = state \/ state' = "shut"
      PROVE  Channel!Next \/ UNCHANGED Channel!channelVars
  BY <1>1 DEF Channel!Next, Channel!Shut, Channel!channelVars
<1>2. CASE Connect
  BY <1>2 DEF Connect, Running, Looping, Channel!Next, Channel!Open
<1>3. ASSUME NEW t \in Text, SendRaw(t) PROVE Channel!Next
  <2>1. Len(posted') = Len(posted) + 1
    BY <1>3 DEF SendRaw, WsInv, WsTypeOK
  <2> QED BY <1>3, <2>1 DEF SendRaw, CanPost, Running, Channel!Next, Channel!Send
<1>4. CASE TryReceive
  <2>1. state' = state \/ state' = "shut"
    BY <1>4 DEF TryReceive, Running
  <2> QED BY <1>4, <2>1, <1>1 DEF TryReceive
<1>5. CASE StopClient \/ DropClient
  <2>1. state' = "shut"
    BY <1>5 DEF StopClient, DropClient, Stopped
  <2> QED BY <1>5, <2>1, <1>1 DEF StopClient, DropClient
<1>6. CASE ListenSend
  <2>1. Head(toListen) = taken + 1 /\ taken < Len(posted)
    BY <1>6, QueueHead DEF ListenSend
  <2>2. UNCHANGED <<handle, connected, posted>> /\ Running /\ Running'
    BY <1>6 DEF ListenSend, Running, Looping
  <2>3. state' = state /\ Len(posted)' = Len(posted) /\ taken' = taken + 1
    BY <1>6, <2>2 DEF ListenSend
  <2>4. arrived' = Append(arrived, taken + 1) \/ arrived' = arrived
    BY <1>6, <2>1 DEF ListenSend
  <2> QED BY <2>1, <2>3, <2>4
          DEF Channel!Next, Channel!Deliver, Channel!Lose, Channel!Take
<1>7. CASE ListenIdle \/ ListenReturn \/ ListenRecv \/ ListenWouldBlock \/ ListenTimers
  <2>1. Running /\ handle' = handle /\ connected' = connected
    BY <1>7 DEF ListenIdle, ListenReturn, ListenRecv, ListenWouldBlock, ListenTimers, Running, Looping
  <2>2. handle # "none"
    BY <2>1 DEF WsInv, ThreadInv, Running, Looping
  <2>3. state' = state \/ state' = "shut"
    BY <2>1, <2>2
  <2> QED BY <1>7, <2>3, <1>1
          DEF ListenIdle, ListenReturn, ListenRecv, ListenWouldBlock, ListenTimers
<1>8. CASE RelaySends \/ RelayPongs \/ Disturbance \/ Tick
  <2>1. UNCHANGED <<handle, connected, thread, posted, taken, arrived>>
    BY <1>8 DEF RelaySends, RelayPongs, Disturbance, RelayCloses, SocketDies, SocketFills, Tick
  <2> QED BY <2>1, <1>1 DEF Running
<1>9. CASE UNCHANGED wsVars
  BY <1>9, <1>1 DEF wsVars, Running
<1> QED BY <1>2, <1>3, <1>4, <1>5, <1>6, <1>7, <1>8, <1>9 DEF WsNext, Application, Listen, Relay

\* The client with its thread keeps the promise LossyChannel makes: messages
\* reach the relay in order, once or never.
THEOREM ChannelRefined == WsSpec => ImplementsChannel
<1>1. WsSpec => Channel!Init /\ [][Channel!Next]_(Channel!channelVars)
  BY ChannelInit, ChannelNext, WsInvariant, PTL DEF WsSpec
<1> QED BY <1>1 DEF ImplementsChannel, Channel!Spec
=============================================================================
