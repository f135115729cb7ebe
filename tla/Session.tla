------------------------------- MODULE Session -------------------------------
(***************************************************************************)
(* One Joinstr instance from its construction to its end, as an            *)
(* application or a function of joinstr/src/interface.rs drives it: the    *)
(* NostrClient it connects (nostr/sync/mod.rs) with its WsClient, the      *)
(* setters of the builder, and the threads of start_coinjoin, of which an  *)
(* application may start several over clones of the instance.              *)
(*                                                                         *)
(* The round itself is only a phase here (see PoolRound).  A call that is  *)
(* refused and changes nothing is no step.                                 *)
(***************************************************************************)
EXTENDS WsClient, FiniteSets

CONSTANTS
  ParamOrder, \* the parameters set once, in the order of initiate_coinjoin
  Function,   \* what the application may run: "client", "list_pools",
              \* "initiate_coinjoin", "join_coinjoin", "peer" (a peer that starts
              \* with the pool it was made for) or "joinstr" (any calls)
  Disturbed,  \* bound: the functions in whose runs time passes and the connection
              \* may be disturbed
  MaxSent,    \* bound: the round sends while fewer messages were posted
  Runner,     \* the calls of start_coinjoin, numbered from 1
  RelayUrl,   \* relay urls; the client is connected to FirstRelay
  FirstRelay,
  Network,    \* bitcoin networks
  OwnNetwork, \* the one the instance is constructed for
  Kind        \* what the relay sends to each function: its k-th event is a "Pool",
              \* "Credentials" or "Other"

VARIABLES
  function,   \* what the application runs
  at,         \* where it is: "new", "connected", "ready", "waiting", "leaving", "done",
              \* "unusable"
  builder,    \* whether NostrClient.builder is Some
  role,       \* JoinstrInner.role
  todo,       \* the setters the function is still to call
  params,     \* the parameters that are set, of Params
  relay,      \* JoinstrInner.relay
  network,    \* JoinstrInner.network
  output,     \* the network of JoinstrInner.output, an Option
  pool,       \* JoinstrInner.pool, an Option
  step,       \* JoinstrInner.step
  runner,     \* per call of start_coinjoin: where it is
  listed      \* the events list_pools returned as pools

instVars == <<role, todo, params, relay, network, output, pool, step, runner>>
appVars  == <<function, at, builder, listed>>
vars     == <<wsVars, instVars, appVars>>

Params == {ParamOrder[k] : k \in DOMAIN ParamOrder}
Texts  == {"SubscribeDm", "SubscribePools", "Pool", "Join", "Dm"}

ASSUME SessionAssumption ==
  /\ Texts \subseteq Text
  /\ FirstRelay \in RelayUrl /\ OwnNetwork \in Network

Init ==
  /\ WsInit
  /\ function \in Function
  /\ at = "new" /\ builder = TRUE
  /\ role = "Unknown" /\ todo = << >> /\ params = {} /\ relay = FirstRelay
  /\ network = OwnNetwork /\ output = {} /\ pool = {} /\ step = "None"
  /\ runner = [r \in Runner |-> "idle"]
  /\ listed = << >>

-----------------------------------------------------------------------------
(* NostrClient                                                             *)

UsesJoinstr == function \in {"initiate_coinjoin", "join_coinjoin", "peer", "joinstr"}

\* connect_nostr takes the builder; when the connection fails it is gone.
ConnectFails ==
  /\ at = "new" /\ builder
  /\ builder' = FALSE /\ at' = "unusable"
  /\ UNCHANGED <<wsVars, instVars, function, listed>>

ConnectNostr ==
  /\ at = "new" /\ builder
  /\ Connect
  /\ builder' = FALSE /\ at' = "connected"
  /\ UNCHANGED <<instVars, function, listed>>

\* connect_nostr ends with subscribe_dm; the constructor of a Joinstr goes on to
\* set the role, and that of a peer everything the pool says.
SubscribeDm ==
  /\ at = "connected"
  /\ SendRaw("SubscribeDm")
  /\ at' = "ready"
  /\ \/ ~UsesJoinstr /\ UNCHANGED <<role, todo, params, output>>
     \/ /\ function \in {"initiate_coinjoin", "joinstr"}          \* new_initiator
        /\ role' = "Initiator"
        /\ todo' = IF function = "joinstr" THEN << >>
                   ELSE Append(ParamOrder, "address")
        /\ UNCHANGED <<params, output>>
     \/ /\ function \in {"join_coinjoin", "peer", "joinstr"}           \* new_peer
        /\ role' = "Peer"
        /\ params' = Params /\ output' = {network}
        /\ UNCHANGED todo
  /\ UNCHANGED <<relay, network, pool, step, runner, function, builder, listed>>

-----------------------------------------------------------------------------
(* The setters                                                             *)

\* An interface function calls its setters in its order, an application as it
\* likes.
Calls(c) ==
  /\ at = "ready" /\ UsesJoinstr
  /\ IF function = "joinstr" THEN UNCHANGED todo
     ELSE todo # << >> /\ Head(todo) = c /\ todo' = Tail(todo)

\* denomination, fee, simple_timeout, min_peers: once, before there is a pool.
SetParam(p) ==
  /\ Calls(p)
  /\ pool = {} /\ p \notin params
  /\ params' = params \cup {p}
  /\ UNCHANGED <<wsVars, role, relay, network, output, pool, step, runner, appVars>>

\* Mutant: the relay may be changed after the pool was posted.
SetRelayAnyTime(r) ==
  /\ Calls("relay")
  /\ relay' = r
  /\ UNCHANGED <<wsVars, role, params, network, output, pool, step, runner, appVars>>

\* relay: as often as one likes, before there is a pool; the client stays
\* connected to the relay it was built with.
SetRelay(r) ==
  /\ Calls("relay")
  /\ pool = {}
  /\ relay' = r
  /\ UNCHANGED <<wsVars, role, params, network, output, pool, step, runner, appVars>>

\* network, mainnet, testnet, ...: at any time.
SetNetwork(n) ==
  /\ Calls("network")
  /\ network' = n
  /\ UNCHANGED <<wsVars, role, params, relay, output, pool, step, runner, appVars>>

\* set_address: once, for the network of the moment.
SetAddress ==
  /\ Calls("address")
  /\ output = {}
  /\ output' = {network}
  /\ UNCHANGED <<wsVars, role, params, relay, network, pool, step, runner, appVars>>

-----------------------------------------------------------------------------
(* start_coinjoin_blocking in a thread of its own or of the caller         *)

Active(r) == runner[r] \in {"posting", "checking", "joining", "awaiting", "replacing", "round", "failing"}

\* A handler that takes more than one step here holds the mutex.
Unlocked == \A r \in Runner : runner[r] # "replacing"

RunnerGoes(r, where) == runner' = [runner EXCEPT ![r] = where]

\* A call with a pool (to join it) or without (to post one); the interface
\* functions pass none.
Start(r) ==
  /\ at = "ready" /\ UsesJoinstr /\ todo = << >>
  /\ runner[r] = "idle"
  /\ \A q \in Runner : q < r => runner[q] # "idle" /\ function = "joinstr"
  /\ \/ function # "peer" /\ RunnerGoes(r, "posting")
     \/ function \in {"peer", "joinstr"} /\ RunnerGoes(r, "checking")
  /\ UNCHANGED <<wsVars, role, todo, params, relay, network, output, pool, step, appVars>>

IsReady == pool = {} /\ params = Params

OwnPool == [own |-> TRUE, relay |-> relay, network |-> network, params |-> params]
Foreign == [own |-> FALSE, relay |-> FirstRelay, network |-> network, params |-> Params]

\* Mutant: posts again when there is a pool already.
PostAgain(r) ==
  /\ Unlocked
  /\ runner[r] = "posting"
  /\ IF params = Params /\ CanPost
     THEN SendRaw("Pool") /\ pool' = {OwnPool} /\ step' = "OutputRegistration" /\ RunnerGoes(r, "round")
     ELSE RunnerGoes(r, "failing") /\ UNCHANGED <<wsVars, pool, step>>
  /\ UNCHANGED <<role, todo, params, relay, network, output, appVars>>

\* post: the pool is remembered when its event was queued.
Post(r) ==
  /\ Unlocked
  /\ runner[r] = "posting"
  /\ IF IsReady /\ CanPost
     THEN SendRaw("Pool") /\ pool' = {OwnPool} /\ step' = "OutputRegistration" /\ RunnerGoes(r, "round")
     ELSE /\ step' = IF IsReady THEN "Posting" ELSE step
          /\ RunnerGoes(r, "failing")
          /\ UNCHANGED <<wsVars, pool>>
  /\ UNCHANGED <<role, todo, params, relay, network, output, appVars>>

\* Mutant: takes the pool it is given whatever the instance does already.
TakeAnyPool(r) ==
  /\ Unlocked
  /\ runner[r] = "checking"
  /\ pool' = {Foreign} /\ RunnerGoes(r, "joining")
  /\ UNCHANGED <<wsVars, role, todo, params, relay, network, output, step, appVars>>

TakePool(r) ==
  /\ Unlocked
  /\ runner[r] = "checking"
  /\ IF pool = {} THEN pool' = {Foreign} /\ RunnerGoes(r, "joining")
     ELSE RunnerGoes(r, "failing") /\ UNCHANGED pool
  /\ UNCHANGED <<wsVars, role, todo, params, relay, network, output, step, appVars>>

\* join_pool: the Join is sent, and the answer awaited until the timeout.
JoinPool(r) ==
  /\ Unlocked
  /\ runner[r] = "joining"
  /\ step' = "Connecting"
  /\ IF CanPost THEN SendRaw("Join") /\ RunnerGoes(r, "awaiting")
     ELSE RunnerGoes(r, "failing") /\ UNCHANGED wsVars
  /\ UNCHANGED <<role, todo, params, relay, network, output, pool, appVars>>

AwaitCredentials(r) ==
  /\ Unlocked
  /\ runner[r] = "awaiting"
  /\ TryReceive
  /\ runner' = CASE Head(toApp) = Close -> [runner EXCEPT ![r] = "failing"]
                 [] Head(toApp) # Close /\ Kind[function][Head(toApp)] = "Credentials" ->
                      [runner EXCEPT ![r] = "replacing"]
                 [] OTHER -> runner
  /\ UNCHANGED <<role, todo, params, relay, network, output, pool, step, appVars>>

AwaitTimeout(r) ==
  /\ Unlocked
  /\ runner[r] = "awaiting"
  /\ RunnerGoes(r, "failing")
  /\ UNCHANGED <<wsVars, role, todo, params, relay, network, output, pool, step, appVars>>

\* The client with the pool's keys takes the place of the first, which is
\* dropped.  It may fail to connect.
ReplaceClient(r) ==
  /\ runner[r] = "replacing"
  /\ \/ DropClient /\ RunnerGoes(r, "round") /\ step' = "OutputRegistration"
     \/ RunnerGoes(r, "failing") /\ UNCHANGED <<wsVars, step>>
  /\ UNCHANGED <<role, todo, params, relay, network, output, pool, appVars>>

\* The round sends and receives; a Close is ignored.
RoundSend(r) ==
  /\ Unlocked
  /\ runner[r] = "round"
  /\ Len(posted) < MaxSent /\ SendRaw("Dm")
  /\ UNCHANGED <<instVars, appVars>>

RoundReceive(r) ==
  /\ Unlocked
  /\ runner[r] = "round"
  /\ TryReceive
  /\ UNCHANGED <<instVars, appVars>>

RoundEnds(r) ==
  /\ runner[r] = "round"
  /\ \/ RunnerGoes(r, "finished") /\ step' = "Broadcast"
     \/ RunnerGoes(r, "failing") /\ UNCHANGED step
  /\ UNCHANGED <<wsVars, role, todo, params, relay, network, output, pool, appVars>>

\* The wrapper of start_coinjoin takes the lock again to note the error; an
\* interface function returns it.
MarkFailed(r) ==
  /\ Unlocked
  /\ runner[r] = "failing"
  /\ RunnerGoes(r, "failed")
  /\ step' = IF function \in {"peer", "joinstr"} THEN "Failed" ELSE step
  /\ UNCHANGED <<wsVars, role, todo, params, relay, network, output, pool, appVars>>

-----------------------------------------------------------------------------
(* list_pools, direct use of the client, and the end                       *)

SubscribePools ==
  /\ function = "list_pools" /\ at = "ready"
  /\ SendRaw("SubscribePools")
  /\ at' = "waiting"
  /\ UNCHANGED <<instVars, function, builder, listed>>

\* Pools are collected as long as the next message is one; a Close is an error
\* that discards them.
ListPool ==
  /\ at = "waiting"
  /\ TryReceive
  /\ IF Head(toApp) # Close /\ Kind[function][Head(toApp)] = "Pool"
     THEN listed' = Append(listed, Head(toApp)) /\ UNCHANGED at
     ELSE at' = "leaving" /\ listed' = IF Head(toApp) = Close THEN << >> ELSE listed
  /\ UNCHANGED <<instVars, function, builder>>

ListEnds ==
  /\ at = "waiting" /\ toApp = << >>
  /\ at' = "leaving"
  /\ UNCHANGED <<wsVars, instVars, function, builder, listed>>

ClientReceive ==
  /\ function = "client" /\ at = "ready"
  /\ TryReceive
  /\ UNCHANGED <<instVars, appVars>>

ClientSend ==
  /\ function = "client" /\ at = "ready"
  /\ Len(posted) < MaxSent /\ SendRaw("Dm")
  /\ UNCHANGED <<instVars, appVars>>

ClientStop ==
  /\ function = "client" /\ at = "ready"
  /\ StopClient
  /\ UNCHANGED <<instVars, appVars>>

\* The last reference goes: the function returns, the application drops it.
Leave ==
  /\ \/ at = "leaving"
     \/ at = "connected" /\ ~CanPost
     \/ at = "ready" /\ CASE function = "client" -> TRUE
                         [] function = "list_pools" -> ~CanPost
                         [] function = "joinstr" -> \A r \in Runner : ~Active(r)
                         [] OTHER -> \E r \in Runner : runner[r] \in {"finished", "failed"}
  /\ IF handle = "held" THEN DropClient ELSE UNCHANGED wsVars
  /\ at' = "done"
  /\ UNCHANGED <<instVars, function, builder, listed>>

-----------------------------------------------------------------------------
Setter ==
  \/ \E p \in Params : SetParam(p)
  \/ \E r \in RelayUrl : SetRelay(r)
  \/ \E n \in Network : SetNetwork(n)
  \/ SetAddress

Run(r) == Post(r) \/ TakePool(r) \/ JoinPool(r) \/ AwaitCredentials(r) \/ AwaitTimeout(r)
            \/ ReplaceClient(r) \/ RoundSend(r) \/ RoundReceive(r) \/ RoundEnds(r) \/ MarkFailed(r)

App ==
  \/ ConnectFails \/ ConnectNostr \/ SubscribeDm
  \/ SubscribePools \/ ListPool \/ ListEnds
  \/ ClientReceive \/ ClientSend \/ ClientStop
  \/ Leave

Below ==
  /\ Listen \/ RelayPongs \/ (events < Len(Kind[function]) /\ RelaySends) \/ (function \in Disturbed /\ (Disturbance \/ Tick))
  /\ UNCHANGED <<instVars, appVars>>

Next == App \/ Setter \/ (\E r \in Runner : Start(r) \/ Run(r)) \/ Below

Spec == Init /\ [][Next]_vars

\* Whoever polls, polls on.
Poll == ListPool \/ ClientReceive \/ \E r \in Runner : AwaitCredentials(r) \/ RoundReceive(r)

FairSpec ==
  /\ Spec /\ WF_vars(Listen /\ Below) /\ WF_vars(RelayPongs /\ Below) /\ WF_vars(Tick /\ Below)
  /\ WF_vars(Poll)

-----------------------------------------------------------------------------
(* Properties                                                              *)

Options(S) == {{}} \cup {{x} : x \in S}

PoolInfo == [own : BOOLEAN, relay : RelayUrl, network : Network, params : SUBSET Params]

\* The types of the variables.
TypeOK ==
  /\ WsTypeOK
  /\ function \in Function
  /\ at \in {"new", "connected", "ready", "waiting", "leaving", "done", "unusable"}
  /\ builder \in BOOLEAN
  /\ role \in {"Unknown", "Initiator", "Peer"}
  /\ params \subseteq Params /\ relay \in RelayUrl /\ network \in Network
  /\ output \in Options(Network) /\ pool \in Options(PoolInfo)
  /\ runner \in [Runner -> {"idle", "posting", "checking", "joining", "awaiting", "replacing",
                            "round", "failing", "finished", "failed"}]

PoolPosts == {k \in DOMAIN posted : posted[k] = "Pool"}

\* However often and from however many threads a coinjoin is started, an instance
\* publishes at most one pool, and it publishes one exactly if the pool it works
\* for is its own (post and the join check the pool under the lock).
OnePost ==
  /\ Cardinality(PoolPosts) <= 1
  /\ PoolPosts # {} <=> \E p \in pool : p.own

\* An instance never changes to another pool: no start replaces or forgets the
\* pool of a start that is under way.
OnePool == [][pool # {} => pool' = pool]_vars

\* The published pool keeps naming the parameters and the relay of the instance.
PayloadCurrent == \A p \in pool : p.own => p.params = params /\ p.relay = relay

\* A pool that was posted reaches the relay even if the instance is dropped at
\* once, unless something happens to the connection.
PoolPublished ==
  PoolPosts # {} ~> (~calm \/ \E k \in DOMAIN arrived : arrived[k] \in PoolPosts)

Polling ==
  \/ function = "client" /\ at = "ready"
  \/ \E r \in Runner : runner[r] \in {"awaiting", "round"}

\* An application that keeps polling learns that its connection died silently.
SilentDeathReported == socket = "dead" ~> (~connected \/ ~Polling)

\* join_coinjoin joins the pool it is given ("Try to join an already initiated
\* coinjoin") and posts none.
PeerNeverPosts == function = "join_coinjoin" => PoolPosts = {}
=============================================================================
