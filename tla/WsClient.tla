------------------------------ MODULE WsClient ------------------------------
(***************************************************************************)
(* The websocket client of a nostr relay (simple_nostr_client/src/lib.rs): *)
(* a handle the application calls, and the `listen` thread that owns the   *)
(* socket.  Two channels join them; neither is bounded.  The application   *)
(* may stop or drop the handle at any time, the relay may close the        *)
(* connection, and the socket may fill up or die without a word.           *)
(*                                                                         *)
(* Messages are numbered in the order they are accepted, those of the      *)
(* relay in the order it sends them.                                       *)
(***************************************************************************)
EXTENDS Naturals, Sequences

CONSTANTS
  Text,           \* what the application may post
  MaxEvents,      \* bound: events the relay sends
  PongIntervals   \* ping intervals without a pong after which listen gives up

ASSUME WsAssumption ==
  MaxEvents \in Nat /\ PongIntervals \in Nat \ {0}

VARIABLES
  handle,    \* the WsClient value: "none" before connect, "held", "dropped"
  connected, \* WsClient.connected
  posted,    \* the texts accepted, in order
  toListen,  \* the channel to the thread: numbers of messages, and Stop
  taken,     \* how many messages the thread took from the channel
  arrived,   \* the numbers of the messages the relay got
  thread,    \* where the loop of listen is, or how it ended
  socket,    \* "up"; "full", writes would block; "closed" by the relay; "dead"
  events,    \* how many events the relay has sent
  inbound,   \* frames on their way to the thread: events, Pong and Close
  toApp,     \* the channel to the application: events, and Close
  got,       \* the events handed to the application
  sincePing, \* intervals since last_ping
  sincePong, \* intervals since last_pong
  pinged,    \* whether the relay owes a pong
  calm       \* whether the socket has always been "up"

wsVars == <<handle, connected, posted, toListen, taken, arrived, thread, socket, events,
            inbound, toApp, got, sincePing, sincePong, pinged, calm>>

\* Entries of the channels that are no messages.
Stop  == 0
Close == 0
Pong  == MaxEvents + 1

Looping == {"send", "recv", "timers"}
Over    == {"stopped", "timed out", "panicked"}
Running == thread \in Looping

-----------------------------------------------------------------------------
WsInit ==
  /\ handle = "none" /\ connected = FALSE
  /\ posted = << >> /\ toListen = << >> /\ taken = 0 /\ arrived = << >>
  /\ thread = "none" /\ socket = "up"
  /\ events = 0 /\ inbound = << >> /\ toApp = << >> /\ got = << >>
  /\ sincePing = 0 /\ sincePong = 0 /\ pinged = FALSE /\ calm = TRUE

-----------------------------------------------------------------------------
(* The handle                                                              *)

\* WsClientBuilder::connect succeeds: the thread is spawned.
Connect ==
  /\ handle = "none"
  /\ handle' = "held" /\ connected' = TRUE /\ thread' = "send"
  /\ UNCHANGED <<posted, toListen, taken, arrived, socket, events, inbound, toApp, got,
                 sincePing, sincePong, pinged, calm>>

\* post_event, send_dm and the subscriptions end in send_raw.
CanPost == handle = "held" /\ connected /\ Running

SendRaw(t) ==
  /\ CanPost
  /\ posted' = Append(posted, t)
  /\ toListen' = Append(toListen, Len(posted) + 1)
  /\ UNCHANGED <<handle, connected, taken, arrived, thread, socket, events, inbound, toApp, got,
                 sincePing, sincePong, pinged, calm>>

\* try_receive with something in the channel.
TryReceive ==
  /\ handle = "held" /\ connected
  /\ toApp # << >>
  /\ toApp' = Tail(toApp)
  /\ IF Head(toApp) = Close
     THEN connected' = FALSE /\ UNCHANGED got
     ELSE got' = Append(got, Head(toApp)) /\ UNCHANGED connected
  /\ UNCHANGED <<handle, posted, toListen, taken, arrived, thread, socket, events, inbound,
                 sincePing, sincePong, pinged, calm>>

\* stop: the thread finds Stop after what is already queued.
Stopped ==
  /\ connected' = FALSE
  /\ toListen' = IF connected /\ Running THEN Append(toListen, Stop) ELSE toListen

StopClient ==
  /\ handle = "held" /\ connected
  /\ Stopped
  /\ UNCHANGED <<handle, posted, taken, arrived, thread, socket, events, inbound, toApp, got,
                 sincePing, sincePong, pinged, calm>>

\* Drop for WsClient: stop, then both ends of the channels it held go.
DropClient ==
  /\ handle = "held"
  /\ handle' = "dropped"
  /\ Stopped
  /\ toApp' = << >>
  /\ UNCHANGED <<posted, taken, arrived, thread, socket, events, inbound, got,
                 sincePing, sincePong, pinged, calm>>

-----------------------------------------------------------------------------
(* The thread: one pass of the loop is a send, a receive and the timers    *)

\* Mutant: a message that could not be written is queued again.
Requeue ==
  /\ thread = "send"
  /\ toListen # << >> /\ Head(toListen) # Stop
  /\ toListen' = IF socket = "up" THEN Tail(toListen) ELSE Append(Tail(toListen), Head(toListen))
  /\ taken' = IF socket = "up" THEN taken + 1 ELSE taken
  /\ arrived' = IF socket = "up" THEN Append(arrived, Head(toListen)) ELSE arrived
  /\ thread' = "recv"
  /\ UNCHANGED <<handle, connected, posted, socket, events, inbound, toApp, got,
                 sincePing, sincePong, pinged, calm>>

\* A queued message is written; if that fails it is logged and forgotten.
ListenSend ==
  /\ thread = "send"
  /\ toListen # << >> /\ Head(toListen) # Stop
  /\ toListen' = Tail(toListen)
  /\ taken' = taken + 1
  /\ arrived' = IF socket = "up" THEN Append(arrived, Head(toListen)) ELSE arrived
  /\ thread' = "recv"
  /\ UNCHANGED <<handle, connected, posted, socket, events, inbound, toApp, got,
                 sincePing, sincePong, pinged, calm>>

ListenIdle ==
  /\ thread = "send"
  /\ toListen = << >> /\ handle = "held"
  /\ thread' = "recv"
  /\ UNCHANGED <<handle, connected, posted, toListen, taken, arrived, socket, events, inbound,
                 toApp, got, sincePing, sincePong, pinged, calm>>

\* Mutant: looks whether the handle is gone before it looks at the channel.
ReturnAtOnce ==
  /\ thread = "send"
  /\ handle = "dropped" \/ (toListen # << >> /\ Head(toListen) = Stop)
  /\ thread' = "stopped"
  /\ UNCHANGED <<handle, connected, posted, toListen, taken, arrived, socket, events, inbound,
                 toApp, got, sincePing, sincePong, pinged, calm>>

\* Stop, or an empty channel whose other end is gone, ends the thread.
ListenReturn ==
  /\ thread = "send"
  /\ IF toListen = << >> THEN handle = "dropped" ELSE Head(toListen) = Stop
  /\ thread' = "stopped"
  /\ UNCHANGED <<handle, connected, posted, toListen, taken, arrived, socket, events, inbound,
                 toApp, got, sincePing, sincePong, pinged, calm>>

\* Mutant: a pong is handed over like an event.
PongForwarded ==
  /\ thread = "recv"
  /\ inbound # << >>
  /\ inbound' = Tail(inbound)
  /\ LET f == Head(inbound) IN
     /\ thread' = IF f = Close /\ handle = "dropped" THEN "panicked" ELSE "timers"
     /\ toApp' = IF handle = "dropped" THEN toApp ELSE Append(toApp, f)
     /\ sincePong' = IF f = Pong THEN 0 ELSE sincePong
  /\ UNCHANGED <<handle, connected, posted, toListen, taken, arrived, socket, events, got,
                 sincePing, pinged, calm>>

\* Mutant: a pong does not reset last_pong.
PongIgnored ==
  /\ thread = "recv"
  /\ inbound # << >>
  /\ inbound' = Tail(inbound)
  /\ LET f == Head(inbound) IN
     /\ thread' = IF f = Close /\ handle = "dropped" THEN "panicked" ELSE "timers"
     /\ toApp' = IF f = Pong \/ handle = "dropped" THEN toApp ELSE Append(toApp, f)
  /\ UNCHANGED <<handle, connected, posted, toListen, taken, arrived, socket, events, got,
                 sincePing, sincePong, pinged, calm>>

\* One frame is read.  An event the application can no longer receive is
\* ignored; a Close it can no longer receive panics ("main thread panicked").
ListenRecv ==
  /\ thread = "recv"
  /\ inbound # << >>
  /\ inbound' = Tail(inbound)
  /\ LET f == Head(inbound) IN
     /\ thread' = IF f = Close /\ handle = "dropped" THEN "panicked" ELSE "timers"
     /\ toApp' = IF f = Pong \/ handle = "dropped" THEN toApp ELSE Append(toApp, f)
     /\ sincePong' = IF f = Pong THEN 0 ELSE sincePong
  /\ UNCHANGED <<handle, connected, posted, toListen, taken, arrived, socket, events, got,
                 sincePing, pinged, calm>>

\* Nothing to read, or an error, which is logged.
ListenWouldBlock ==
  /\ thread = "recv"
  /\ inbound = << >>
  /\ thread' = "timers"
  /\ UNCHANGED <<handle, connected, posted, toListen, taken, arrived, socket, events, inbound,
                 toApp, got, sincePing, sincePong, pinged, calm>>

\* Mutant: returns without telling the application.
TimersSilent ==
  /\ thread = "timers"
  /\ sincePing' = 0
  /\ pinged' = (pinged \/ (sincePing >= 1 /\ socket = "up"))
  /\ thread' = IF sincePong >= PongIntervals THEN "timed out" ELSE "send"
  /\ UNCHANGED <<handle, connected, posted, toListen, taken, arrived, socket, events, inbound,
                 toApp, got, sincePong, calm>>

\* A ping is due after an interval; without a pong for too long the thread hands
\* over a Close and returns.
ListenTimers ==
  /\ thread = "timers"
  /\ sincePing' = 0
  /\ pinged' = (pinged \/ (sincePing >= 1 /\ socket = "up"))
  /\ IF sincePong >= PongIntervals
     THEN /\ thread' = "timed out"
          /\ toApp' = IF handle = "dropped" THEN toApp ELSE Append(toApp, Close)
     ELSE thread' = "send" /\ UNCHANGED toApp
  /\ UNCHANGED <<handle, connected, posted, toListen, taken, arrived, socket, events, inbound,
                 got, sincePong, calm>>

-----------------------------------------------------------------------------
(* The relay, the socket and time.  Bound: one disturbance per connection; *)
(* a full socket may also die.                                             *)

RelaySends ==
  /\ Running /\ socket = "up"
  /\ events < MaxEvents
  /\ events' = events + 1
  /\ inbound' = Append(inbound, events + 1)
  /\ UNCHANGED <<handle, connected, posted, toListen, taken, arrived, thread, socket, toApp, got,
                 sincePing, sincePong, pinged, calm>>

RelayPongs ==
  /\ Running /\ socket = "up" /\ pinged
  /\ pinged' = FALSE
  /\ inbound' = Append(inbound, Pong)
  /\ UNCHANGED <<handle, connected, posted, toListen, taken, arrived, thread, socket, events,
                 toApp, got, sincePing, sincePong, calm>>

\* The relay closes the connection: a Close frame is the last thing it sends.
RelayCloses ==
  /\ Running /\ socket = "up" /\ calm
  /\ socket' = "closed" /\ calm' = FALSE
  /\ inbound' = Append(inbound, Close)
  /\ UNCHANGED <<handle, connected, posted, toListen, taken, arrived, thread, events, toApp, got,
                 sincePing, sincePong, pinged>>

\* The connection dies; of what is on its way a first part still arrives.
SocketDies ==
  /\ Running /\ (calm \/ socket = "full")
  /\ socket' = "dead" /\ calm' = FALSE
  /\ \E n \in 0..Len(inbound) : inbound' = SubSeq(inbound, 1, n)
  /\ UNCHANGED <<handle, connected, posted, toListen, taken, arrived, thread, events, toApp, got,
                 sincePing, sincePong, pinged>>

\* The send buffer of the non-blocking socket fills up and empties again.
SocketFills ==
  /\ Running /\ (calm \/ socket = "full")
  /\ socket' = IF socket = "up" THEN "full" ELSE "up"
  /\ calm' = FALSE
  /\ UNCHANGED <<handle, connected, posted, toListen, taken, arrived, thread, events, inbound,
                 toApp, got, sincePing, sincePong, pinged>>

\* A ping interval passes.  The loop runs far more often, and a relay that can
\* answers within an interval.
Tick ==
  /\ Running
  /\ sincePing = 0
  /\ socket = "up" => ~pinged /\ \A k \in DOMAIN inbound : inbound[k] # Pong
  /\ sincePing' = 1
  /\ sincePong' = IF sincePong < PongIntervals THEN sincePong + 1 ELSE sincePong
  /\ UNCHANGED <<handle, connected, posted, toListen, taken, arrived, thread, socket, events,
                 inbound, toApp, got, pinged, calm>>

-----------------------------------------------------------------------------
Listen == ListenSend \/ ListenIdle \/ ListenReturn \/ ListenRecv \/ ListenWouldBlock \/ ListenTimers

Disturbance == RelayCloses \/ SocketDies \/ SocketFills

Relay == RelaySends \/ RelayPongs \/ Disturbance

Application ==
  \/ Connect
  \/ \E t \in Text : SendRaw(t)
  \/ TryReceive
  \/ StopClient
  \/ DropClient

WsNext == Application \/ Listen \/ Relay \/ Tick

WsSpec == WsInit /\ [][WsNext]_wsVars

-----------------------------------------------------------------------------
(* Properties                                                              *)

\* The types of the variables.
WsTypeOK ==
  /\ handle \in {"none", "held", "dropped"} /\ connected \in BOOLEAN
  /\ posted \in Seq(Text) /\ toListen \in Seq(Nat) /\ taken \in Nat /\ arrived \in Seq(Nat)
  /\ thread \in {"none"} \cup Looping \cup Over
  /\ socket \in {"up", "full", "closed", "dead"}
  /\ events \in 0..MaxEvents
  /\ inbound \in Seq(0..MaxEvents + 1) /\ toApp \in Seq(0..MaxEvents) /\ got \in Seq(1..MaxEvents)
  /\ sincePing \in 0..1 /\ sincePong \in 0..PongIntervals
  /\ pinged \in BOOLEAN /\ calm \in BOOLEAN

\* The channel to the thread holds the messages it has not taken, in order, and
\* after them, once the handle was stopped, Stop.
QueueInv ==
  LET n == Len(posted) - taken IN
  /\ taken <= Len(posted)
  /\ Len(toListen) \in {n, n + 1}
  /\ \A k \in 1..n : toListen[k] = taken + k
  /\ Len(toListen) = n + 1 => toListen[n + 1] = Stop /\ ~connected

\* What the handle promises: the abstract channel.
Channel == INSTANCE LossyChannel WITH
  state <- IF handle = "none" THEN "new" ELSE IF connected /\ Running THEN "open" ELSE "shut",
  sent  <- Len(posted),
  out   <- arrived

\* The messages the application posts reach the relay in order, once or never,
\* and none after it stopped, whatever the relay and the socket do.
ImplementsChannel == Channel!Spec

\* A thread that ends because its client was stopped or dropped has taken every
\* message posted before: dropping the throw-away client of the dummy Join does
\* not lose the Join.
Flushed == thread = "stopped" => taken = Len(posted)

\* A connection is only given up for lack of pongs when something happened to it:
\* a healthy one, however idle, is kept.
NoFalseAlarm == thread = "timed out" => ~calm
=============================================================================
