---------------------------- MODULE SessionProofs ----------------------------
(***************************************************************************)
(* Proofs about Session, for any parameters, relays, networks and number   *)
(* of calls of start_coinjoin, and whatever the relay sends.               *)
(***************************************************************************)
EXTENDS Session, WsClientProofs, FiniteSetTheorems

-----------------------------------------------------------------------------
(* A session runs the client                                               *)

\* The calls a session makes of its client are calls an application may make.
LEMMA SessionStep == [Next]_vars => [WsNext]_wsVars
<1> SUFFICES ASSUME [Next]_vars PROVE WsNext \/ UNCHANGED wsVars
  OBVIOUS
<1>0. \A t \in Texts : SendRaw(t) => WsNext
  BY SessionAssumption DEF WsNext, Application
<1>1. CASE App
  <2>1. Connect \/ TryReceive \/ StopClient \/ DropClient => WsNext
    BY DEF WsNext, Application
  <2>2. SendRaw("SubscribeDm") \/ SendRaw("SubscribePools") \/ SendRaw("Dm") => WsNext
    BY <1>0 DEF Texts
  <2> QED BY <1>1, <2>1, <2>2
          DEF App, ConnectFails, ConnectNostr, SubscribeDm, SubscribePools, ListPool, ListEnds,
              ClientReceive, ClientSend, ClientStop, Leave
<1>2. CASE Setter
  BY <1>2 DEF Setter, SetParam, SetRelay, SetNetwork, SetAddress
<1>3. ASSUME NEW r \in Runner, Start(r) \/ Run(r) PROVE WsNext \/ UNCHANGED wsVars
  <2>1. TryReceive \/ DropClient => WsNext
    BY DEF WsNext, Application
  <2>2. SendRaw("Pool") \/ SendRaw("Join") \/ SendRaw("Dm") => WsNext
    BY <1>0 DEF Texts
  <2> QED BY <1>3, <2>1, <2>2
          DEF Start, Run, Post, TakePool, JoinPool, AwaitCredentials, AwaitTimeout, ReplaceClient,
              RoundSend, RoundReceive, RoundEnds, MarkFailed
<1>4. CASE Below
  BY <1>4 DEF Below, WsNext, Relay
<1>5. CASE UNCHANGED vars
  BY <1>5 DEF vars
<1> QED BY <1>1, <1>2, <1>3, <1>4, <1>5 DEF Next

LEMMA SessionClient == Spec => WsSpec
<1>1. Init => WsInit
  BY DEF Init
<1> QED BY <1>1, SessionStep, PTL DEF Spec, WsSpec

\* Whatever function an application runs, the messages of its client reach the
\* relay in order, once or never.
THEOREM SessionRefinesChannel == Spec => ImplementsChannel
BY SessionClient, ChannelRefined, PTL

\* A session that replaces or drops its client loses no message it posted.
THEOREM SessionFlushes == Spec => []Flushed
BY SessionClient, DropFlushes, PTL

\* An instance loses its connection only when something happened to it, however
\* long it waits for the others.
THEOREM SessionKeepsHealthy ==
  ASSUME PongIntervals > 1
  PROVE  Spec => []NoFalseAlarm
BY SessionClient, HealthyKept, PTL

-----------------------------------------------------------------------------
(* The pool of an instance                                                 *)

\* No start takes or posts a pool when the instance has one.
THEOREM PoolKept == Spec => OnePool
<1>1. [Next]_vars => [pool # {} => pool' = pool]_vars
  <2> SUFFICES ASSUME [Next]_vars, pool # {} PROVE pool' = pool
    OBVIOUS
  <2>1. CASE App
    BY <2>1 DEF App, ConnectFails, ConnectNostr, SubscribeDm, SubscribePools, ListPool, ListEnds,
                ClientReceive, ClientSend, ClientStop, Leave, instVars
  <2>2. CASE Setter
    BY <2>2 DEF Setter, SetParam, SetRelay, SetNetwork, SetAddress
  <2>3. ASSUME NEW r \in Runner, Start(r) \/ Run(r) PROVE pool' = pool
    BY <2>3 DEF Start, Run, Post, IsReady, TakePool, JoinPool, AwaitCredentials, AwaitTimeout,
                ReplaceClient, RoundSend, RoundReceive, RoundEnds, MarkFailed, instVars
  <2>4. CASE Below
    BY <2>4 DEF Below, instVars
  <2>5. CASE UNCHANGED vars
    BY <2>5 DEF vars, instVars
  <2> QED BY <2>1, <2>2, <2>3, <2>4, <2>5 DEF Next
<1> QED BY <1>1, PTL DEF Spec, OnePool

\* No call of start_coinjoin runs, and there is no pool, before the constructor is
\* done.
Constructing == at \in {"new", "connected", "unusable"}
StartedInv == Constructing => pool = {} /\ \A r \in Runner : runner[r] = "idle"

\* What every reachable state satisfies besides the types.
SessionInv == WsInv /\ StartedInv /\ PayloadCurrent /\ OnePost

LEMMA SessionInit == Init => SessionInv
<1> SUFFICES ASSUME Init PROVE SessionInv
  OBVIOUS
<1>1. WsInv
  BY WsInvInit DEF Init
<1>2. StartedInv /\ PayloadCurrent
  BY DEF Init, StartedInv, PayloadCurrent
<1>3. PoolPosts = {}
  BY DEF Init, WsInit, PoolPosts
<1>4. OnePost
  BY <1>3, FS_EmptySet DEF OnePost, Init
<1> QED BY <1>1, <1>2, <1>4 DEF SessionInv

\* A text that is queued is the last one posted.
LEMMA PoolPostsOf ==
  ASSUME WsInv, NEW t \in Text, SendRaw(t)
  PROVE  PoolPosts' = IF t = "Pool" THEN PoolPosts \cup {Len(posted) + 1} ELSE PoolPosts
<1>1. /\ posted' = Append(posted, t) /\ posted \in Seq(Text) /\ Len(posted) \in Nat
  BY DEF SendRaw, WsInv, WsTypeOK
<1>2. /\ DOMAIN posted = 1..Len(posted) /\ DOMAIN posted' = 1..Len(posted) + 1
      /\ posted'[Len(posted) + 1] = t
      /\ \A k \in 1..Len(posted) : posted'[k] = posted[k]
  BY <1>1
<1>3. \A k : k \in PoolPosts' <=> k \in PoolPosts \/ (k = Len(posted) + 1 /\ t = "Pool")
  BY <1>1, <1>2 DEF PoolPosts
<1> QED BY <1>3

\* Steps that post no pool and keep the instance's pool and parameters.
LEMMA PoolUntouched ==
  ASSUME SessionInv, UNCHANGED <<pool, params, relay>>, PoolPosts' = PoolPosts
  PROVE  PayloadCurrent' /\ OnePost'
BY DEF SessionInv, PayloadCurrent, OnePost

LEMMA SendKeepsPosts ==
  ASSUME WsInv,
         \/ SendRaw("SubscribeDm") \/ SendRaw("SubscribePools") \/ SendRaw("Join") \/ SendRaw("Dm")
         \/ UNCHANGED posted
  PROVE  PoolPosts' = PoolPosts
<1>1. CASE UNCHANGED posted
  BY <1>1 DEF PoolPosts
<1>2. ASSUME NEW t \in Texts \ {"Pool"}, SendRaw(t) PROVE PoolPosts' = PoolPosts
  BY <1>2, PoolPostsOf, SessionAssumption
<1> QED BY <1>1, <1>2 DEF Texts

LEMMA ClientKeepsPosted ==
  ASSUME Connect \/ TryReceive \/ StopClient \/ DropClient \/ Listen \/ Relay \/ Tick
         \/ UNCHANGED wsVars
  PROVE  UNCHANGED posted
BY DEF Connect, TryReceive, StopClient, DropClient, Listen, ListenSend, ListenIdle, ListenReturn,
       ListenRecv, ListenWouldBlock, ListenTimers, Relay, RelaySends, RelayPongs, Disturbance,
       RelayCloses, SocketDies, SocketFills, Tick, wsVars

LEMMA StartedNext == SessionInv /\ [Next]_vars => StartedInv'
<1> SUFFICES ASSUME SessionInv, [Next]_vars, Constructing'
             PROVE  pool' = {} /\ \A r \in Runner : runner'[r] = "idle"
  BY DEF StartedInv
<1> USE DEF SessionInv, StartedInv, Constructing
<1>1. CASE App
  <2>1. UNCHANGED <<pool, runner>> /\ Constructing
    BY <1>1 DEF App, ConnectFails, ConnectNostr, SubscribeDm, SubscribePools, ListPool, ListEnds,
                ClientReceive, ClientSend, ClientStop, Leave, instVars, appVars
  <2> QED BY <2>1
<1>2. CASE Setter
  <2>1. UNCHANGED <<pool, runner>> /\ Constructing
    BY <1>2 DEF Setter, SetParam, SetRelay, SetNetwork, SetAddress, appVars
  <2> QED BY <2>1
<1>3. ASSUME NEW r \in Runner, Start(r) \/ Run(r) PROVE FALSE
  <2>1. at' = at
    BY <1>3 DEF Start, Run, Post, TakePool, JoinPool, AwaitCredentials, AwaitTimeout,
                ReplaceClient, RoundSend, RoundReceive, RoundEnds, MarkFailed, appVars
  <2>2. runner[r] = "idle"
    BY <2>1
  <2> QED BY <1>3, <2>1, <2>2
          DEF Start, Run, Post, TakePool, JoinPool, AwaitCredentials, AwaitTimeout,
              ReplaceClient, RoundSend, RoundReceive, RoundEnds, MarkFailed
<1>4. CASE Below \/ UNCHANGED vars
  BY <1>4 DEF Below, vars, instVars, appVars
<1> QED BY <1>1, <1>2, <1>3, <1>4 DEF Next

LEMMA PoolNext == SessionInv /\ [Next]_vars => PayloadCurrent' /\ OnePost'
<1> SUFFICES ASSUME SessionInv, [Next]_vars PROVE PayloadCurrent' /\ OnePost'
  OBVIOUS
<1>0. WsInv
  BY DEF SessionInv
<1>1. CASE SubscribeDm
  <2>1. pool = {} /\ pool' = pool
    BY <1>1 DEF SubscribeDm, SessionInv, StartedInv, Constructing
  <2>2. PoolPosts' = PoolPosts
    BY <1>0, <1>1, SendKeepsPosts DEF SubscribeDm
  <2> QED BY <2>1, <2>2 DEF SessionInv, PayloadCurrent, OnePost
<1>2. CASE App /\ ~SubscribeDm
  <2>1. UNCHANGED <<pool, params, relay>>
    BY <1>2 DEF App, ConnectFails, ConnectNostr, SubscribePools, ListPool, ListEnds,
                ClientReceive, ClientSend, ClientStop, Leave, instVars
  <2>2. SendRaw("SubscribePools") \/ SendRaw("Dm") \/ UNCHANGED posted
    BY <1>2, ClientKeepsPosted
       DEF App, ConnectFails, ConnectNostr, SubscribePools, ListPool, ListEnds,
           ClientReceive, ClientSend, ClientStop, Leave
  <2> QED BY <1>0, <2>1, <2>2, SendKeepsPosts, PoolUntouched
<1>3. CASE Setter
  <2>1. UNCHANGED posted
    BY <1>3, ClientKeepsPosted DEF Setter, SetParam, SetRelay, SetNetwork, SetAddress
  <2>2. PoolPosts' = PoolPosts /\ pool' = pool
    BY <1>0, <1>3, <2>1, SendKeepsPosts DEF Setter, SetParam, SetRelay, SetNetwork, SetAddress
  <2>3. pool = {} \/ UNCHANGED <<params, relay>>
    BY <1>3 DEF Setter, SetParam, SetRelay, SetNetwork, SetAddress
  <2> QED BY <2>2, <2>3 DEF SessionInv, PayloadCurrent, OnePost
<1>4. ASSUME NEW r \in Runner, Post(r), IsReady, CanPost PROVE PayloadCurrent' /\ OnePost'
  <2>1. SendRaw("Pool") /\ pool' = {OwnPool} /\ UNCHANGED <<params, relay>> /\ pool = {}
    BY <1>4 DEF Post, IsReady
  <2>2. PoolPosts = {}
    BY <2>1 DEF SessionInv, OnePost
  <2>3. PoolPosts' = {Len(posted) + 1}
    BY <1>0, <2>1, <2>2, PoolPostsOf, SessionAssumption DEF Texts
  <2>4. Cardinality(PoolPosts') = 1
    BY <2>3, FS_Singleton
  <2>5. OwnPool.own /\ OwnPool.params = params' /\ OwnPool.relay = relay'
    BY <2>1 DEF OwnPool
  <2>6. PayloadCurrent'
    BY <2>1, <2>5 DEF PayloadCurrent
  <2>7. OnePost'
    BY <2>1, <2>3, <2>4, <2>5 DEF OnePost
  <2> QED BY <2>6, <2>7
<1>5. ASSUME NEW r \in Runner, TakePool(r) PROVE PayloadCurrent' /\ OnePost'
  <2>1. UNCHANGED posted /\ UNCHANGED <<params, relay>>
    BY <1>5, ClientKeepsPosted DEF TakePool
  <2>2. PoolPosts' = PoolPosts
    BY <1>0, <2>1, SendKeepsPosts
  <2>3. CASE pool = {}
    <3>1. PoolPosts = {}
      BY <2>3 DEF SessionInv, OnePost
    <3>2. pool' = {Foreign} /\ ~Foreign.own
      BY <1>5, <2>3 DEF TakePool, Foreign
    <3>3. OnePost'
      BY <2>2, <3>1, <3>2, FS_EmptySet DEF OnePost
    <3>4. PayloadCurrent'
      BY <3>2 DEF PayloadCurrent
    <3> QED BY <3>3, <3>4
  <2>4. CASE pool # {}
    BY <1>5, <2>1, <2>2, <2>4, PoolUntouched DEF TakePool
  <2> QED BY <2>3, <2>4
<1>6. ASSUME NEW r \in Runner, Start(r) \/ (Post(r) /\ ~(IsReady /\ CanPost)) \/ (Run(r) /\ ~Post(r) /\ ~TakePool(r))
      PROVE  PayloadCurrent' /\ OnePost'
  <2>1. UNCHANGED <<pool, params, relay>>
    BY <1>6 DEF Start, Run, Post, JoinPool, AwaitCredentials, AwaitTimeout, ReplaceClient,
                RoundSend, RoundReceive, RoundEnds, MarkFailed, instVars
  <2>2. SendRaw("Join") \/ SendRaw("Dm") \/ UNCHANGED posted
    BY <1>6, ClientKeepsPosted
       DEF Start, Run, Post, JoinPool, AwaitCredentials, AwaitTimeout, ReplaceClient,
           RoundSend, RoundReceive, RoundEnds, MarkFailed
  <2> QED BY <1>0, <2>1, <2>2, SendKeepsPosts, PoolUntouched
<1>7. CASE Below
  <2>1. UNCHANGED <<pool, params, relay>> /\ UNCHANGED posted
    BY <1>7, ClientKeepsPosted DEF Below, Relay, instVars
  <2> QED BY <1>0, <2>1, SendKeepsPosts, PoolUntouched
<1>8. CASE UNCHANGED vars
  <2>1. UNCHANGED <<pool, params, relay>> /\ UNCHANGED posted
    BY <1>8 DEF vars, instVars, wsVars
  <2> QED BY <1>0, <2>1, SendKeepsPosts, PoolUntouched
<1> QED BY <1>1, <1>2, <1>3, <1>4, <1>5, <1>6, <1>7, <1>8 DEF Next, Run

LEMMA SessionInvNext == SessionInv /\ [Next]_vars => SessionInv'
<1>1. SessionInv /\ [Next]_vars => WsInv'
  BY SessionStep, WsInvNext DEF SessionInv
<1> QED BY <1>1, StartedNext, PoolNext DEF SessionInv

\* However often a coinjoin is started, an instance publishes at most one pool,
\* and one exactly if it works for a pool of its own.
THEOREM PostOnce == Spec => []OnePost
<1>1. SessionInv => OnePost
  BY DEF SessionInv
<1> QED BY <1>1, SessionInit, SessionInvNext, PTL DEF Spec

\* No setter changes what the published pool says.
THEOREM PayloadKept == Spec => []PayloadCurrent
<1>1. SessionInv => PayloadCurrent
  BY DEF SessionInv
<1> QED BY <1>1, SessionInit, SessionInvNext, PTL DEF Spec

-----------------------------------------------------------------------------
(* Type correctness                                                        *)

RunnerStates == {"idle", "posting", "checking", "joining", "awaiting", "replacing",
                 "round", "failing", "finished", "failed"}

\* The parts of TypeOK that are not the client's.
AppTypes ==
  /\ function \in Function
  /\ at \in {"new", "connected", "ready", "waiting", "leaving", "done", "unusable"}
  /\ builder \in BOOLEAN
InstTypes ==
  /\ role \in {"Unknown", "Initiator", "Peer"}
  /\ params \subseteq Params /\ relay \in RelayUrl /\ network \in Network
  /\ output \in Options(Network) /\ pool \in Options(PoolInfo)
  /\ runner \in [Runner -> RunnerStates]

LEMMA AppTypesNext == AppTypes /\ [Next]_vars => AppTypes'
<1> SUFFICES ASSUME AppTypes, [Next]_vars PROVE AppTypes'
  OBVIOUS
<1>1. CASE App
  <2>1. function' = function /\ (builder' = builder \/ builder' = FALSE)
    BY <1>1 DEF App, ConnectFails, ConnectNostr, SubscribeDm, SubscribePools, ListPool, ListEnds,
                ClientReceive, ClientSend, ClientStop, Leave, appVars
  <2>2. at' = at \/ at' \in {"connected", "ready", "waiting", "leaving", "done", "unusable"}
    BY <1>1 DEF App, ConnectFails, ConnectNostr, SubscribeDm, SubscribePools, ListPool, ListEnds,
                ClientReceive, ClientSend, ClientStop, Leave, appVars
  <2> QED BY <2>1, <2>2 DEF AppTypes
<1>2. CASE Setter
  BY <1>2 DEF AppTypes, Setter, SetParam, SetRelay, SetNetwork, SetAddress, appVars
<1>3. ASSUME NEW r \in Runner, Start(r) \/ Run(r) PROVE AppTypes'
  BY <1>3 DEF AppTypes, Start, Run, Post, TakePool, JoinPool, AwaitCredentials, AwaitTimeout,
              ReplaceClient, RoundSend, RoundReceive, RoundEnds, MarkFailed, appVars
<1>4. CASE Below \/ UNCHANGED vars
  BY <1>4 DEF AppTypes, Below, vars, appVars
<1> QED BY <1>1, <1>2, <1>3, <1>4 DEF Next

LEMMA InstTypesNext == InstTypes /\ [Next]_vars => InstTypes'
<1> SUFFICES ASSUME InstTypes, [Next]_vars PROVE InstTypes'
  OBVIOUS
<1>1. CASE SubscribeDm
  <2>1. role' \in {"Unknown", "Initiator", "Peer"}
    BY <1>1 DEF SubscribeDm, InstTypes
  <2>2. params' \subseteq Params /\ output' \in Options(Network)
    BY <1>1 DEF SubscribeDm, InstTypes, Options
  <2> QED BY <1>1, <2>1, <2>2 DEF SubscribeDm, InstTypes
<1>2. CASE App /\ ~SubscribeDm
  BY <1>2 DEF InstTypes, App, ConnectFails, ConnectNostr, SubscribePools, ListPool, ListEnds,
              ClientReceive, ClientSend, ClientStop, Leave, instVars
<1>3. CASE Setter
  <2>1. CASE \E p \in Params : SetParam(p)
    BY <2>1 DEF SetParam, InstTypes
  <2>2. CASE \E r \in RelayUrl : SetRelay(r)
    BY <2>2 DEF SetRelay, InstTypes
  <2>3. CASE \E n \in Network : SetNetwork(n)
    BY <2>3 DEF SetNetwork, InstTypes
  <2>4. CASE SetAddress
    BY <2>4 DEF SetAddress, InstTypes, Options
  <2> QED BY <1>3, <2>1, <2>2, <2>3, <2>4 DEF Setter
<1>4. ASSUME NEW r \in Runner, Start(r) \/ Run(r) PROVE InstTypes'
  <2>1. UNCHANGED <<role, params, relay, network, output>>
    BY <1>4 DEF Start, Run, Post, TakePool, JoinPool, AwaitCredentials, AwaitTimeout,
                ReplaceClient, RoundSend, RoundReceive, RoundEnds, MarkFailed, instVars
  <2>2. runner' = runner \/ \E w \in RunnerStates : RunnerGoes(r, w)
    BY <1>4, Zenon DEF Start, Run, Post, TakePool, JoinPool, AwaitCredentials, AwaitTimeout,
                ReplaceClient, RoundSend, RoundReceive, RoundEnds, MarkFailed, instVars, RunnerGoes, RunnerStates
  <2>3. runner' \in [Runner -> RunnerStates]
    BY <2>2 DEF InstTypes, RunnerGoes
  <2>4. pool' = pool \/ pool' = {Foreign} \/ pool' = {OwnPool}
    BY <1>4 DEF Start, Run, Post, TakePool, JoinPool, AwaitCredentials, AwaitTimeout,
                ReplaceClient, RoundSend, RoundReceive, RoundEnds, MarkFailed, instVars
  <2>5. Foreign \in PoolInfo /\ OwnPool \in PoolInfo
    BY SessionAssumption DEF Foreign, OwnPool, PoolInfo, InstTypes
  <2>6. pool' \in Options(PoolInfo)
    BY <2>4, <2>5 DEF InstTypes, Options
  <2> QED BY <2>1, <2>3, <2>6 DEF InstTypes
<1>5. CASE Below \/ UNCHANGED vars
  BY <1>5 DEF InstTypes, Below, vars, instVars
<1> QED BY <1>1, <1>2, <1>3, <1>4, <1>5 DEF Next

\* The types of Session.
THEOREM SessionTypes == Spec => []TypeOK
<1>1. Init => AppTypes /\ InstTypes
  <2> SUFFICES ASSUME Init PROVE AppTypes /\ InstTypes
    OBVIOUS
  <2>1. runner \in [Runner -> RunnerStates]
    BY DEF Init, RunnerStates
  <2> QED BY <2>1, SessionAssumption DEF Init, AppTypes, InstTypes, Options
<1>2. WsTypeOK /\ AppTypes /\ InstTypes => TypeOK
  BY DEF TypeOK, AppTypes, InstTypes, RunnerStates
<1> QED BY <1>1, <1>2, AppTypesNext, InstTypesNext, SessionClient, WsTypes, PTL DEF Spec
=============================================================================
