-------------------------- MODULE ElectrumListener --------------------------
(***************************************************************************)
(* The listener of an electrum server (joinstr/src/electrum.rs, listen_txs *)
(* over the transport of simple_electrum_client/src/raw_client): a thread  *)
(* that takes requests from a consumer's channel, sends them as batches    *)
(* and hands over the answers and notifications it reads.                  *)
(*                                                                         *)
(* A batch is numbered; the id of a request is the number of its batch     *)
(* with the script it asks about.  A line of the server is the answer to a *)
(* whole batch or one notification.  Every read builds a new buffered      *)
(* reader: what it read beyond the first line is gone, and may end within  *)
(* a line.                                                                 *)
(***************************************************************************)
EXTENDS Naturals, SequencesExt

CONSTANTS
  Spk,          \* scripts (or, for Txs, transaction ids)
  MaxRequests,  \* bound: requests of the consumer
  MaxChanges,   \* bound: how often the status of a script changes
  MaxErrors     \* bound: answers of the server that contain an error

ASSUME ListenerAssumption ==
  IsFiniteSet(Spk) /\ MaxRequests \in Nat /\ MaxChanges \in Nat /\ MaxErrors \in Nat

VARIABLES
  consumer,  \* "on" or "gone": it dropped its ends of the channels
  requests,  \* the channel of requests
  thread,    \* where listen_txs is, or how it ended
  batches,   \* the batches registered, by number; `index` keeps them for ever
  pending,   \* last_request, an Option
  open,      \* reqid_spk_map: the history requests without an answer
  watched,   \* sh_sbf_map: the scripts subscribed to
  link,      \* "up" or "dead"
  wire,      \* batches on their way to the server
  subscribed,\* server: the scripts it notifies of
  version,   \* server: the status of each script
  errors,    \* server: how many errors it has answered
  stream,    \* lines on their way to the thread
  status,    \* the last status the consumer was told
  queried,   \* the histories the thread was asked for
  histories, \* those it handed over
  answered,  \* the batches whose answer was processed
  complained,\* whether an error that names no request was handed over
  resent     \* whether a batch was sent again

vars == <<consumer, requests, thread, batches, pending, open, watched, link, wire, subscribed,
          version, errors, stream, status, queried, histories, answered, complained, resent>>
consumerVars == <<status, histories, answered, complained>>
serverVars   == <<link, subscribed, version, errors>>

Over == {"stopped", "panicked"}

Batch   == [kind : {"Subscribe", "History", "Txs"}, of : (SUBSET Spk) \ {{}}]
Request == [kind : {"Subscribe", "History", "Txs"}, of : SUBSET Spk] \cup
           [kind : {"Stop"}, of : {{}}]

\* Lines of the server.
Answer(b, bad)  == [type |-> "Answer", batch |-> b, bad |-> bad, status |-> version]
Notification(s) == [type |-> "Notification", of |-> s, status |-> version'[s]]
Garbage         == [type |-> "Garbage"]

Init ==
  /\ consumer = "on" /\ requests = << >>
  /\ thread = "requests" /\ batches = << >> /\ pending = {} /\ open = {} /\ watched = {}
  /\ link = "up" /\ wire = << >> /\ subscribed = {} /\ version = [s \in Spk |-> 1] /\ errors = 0
  /\ stream = << >>
  /\ status = [s \in Spk |-> 0] /\ queried = {} /\ histories = << >> /\ answered = {}
  /\ complained = FALSE /\ resent = FALSE

-----------------------------------------------------------------------------
(* The consumer                                                            *)

Demand(r) ==
  /\ consumer = "on"
  /\ Len(requests) + Len(batches) < MaxRequests
  /\ \A k \in DOMAIN requests : requests[k].kind # "Stop"
  /\ requests' = Append(requests, r)
  /\ UNCHANGED <<consumer, thread, batches, pending, open, watched, serverVars, wire, stream,
                 queried, consumerVars, resent>>

Leave ==
  /\ consumer = "on"
  /\ consumer' = "gone"
  /\ UNCHANGED <<requests, thread, batches, pending, open, watched, serverVars, wire, stream,
                 queried, consumerVars, resent>>

-----------------------------------------------------------------------------
(* The thread: requests                                                    *)

Ids(b, S) == {<<b, s>> : s \in S}

\* The batch is numbered, its requests registered and mapped to their scripts.
Register(r) ==
  LET b == Len(batches) + 1 IN
  /\ batches' = Append(batches, r)
  /\ pending' = {b}
  /\ watched' = IF r.kind = "Subscribe" THEN watched \cup r.of ELSE watched
  /\ open' = IF r.kind = "History" THEN open \cup Ids(b, r.of) ELSE open
  /\ queried' = IF r.kind = "History" THEN queried \cup Ids(b, r.of) ELSE queried
  /\ thread' = "sending"

\* Mutant: takes the next request although the last one is not answered.
TakePipelined ==
  /\ thread = "requests"
  /\ requests # << >> /\ Head(requests).kind # "Stop" /\ Head(requests).of # {}
  /\ requests' = Tail(requests)
  /\ Register(Head(requests))
  /\ UNCHANGED <<consumer, serverVars, wire, stream, consumerVars, resent>>

\* Mutant: an empty request is registered and sent like any other.
TakeEmpty ==
  /\ thread = "requests"
  /\ pending = {}
  /\ requests # << >> /\ Head(requests).kind # "Stop"
  /\ requests' = Tail(requests)
  /\ Register(Head(requests))
  /\ UNCHANGED <<consumer, serverVars, wire, stream, consumerVars, resent>>

\* Mutant: histories are requested without an entry in reqid_spk_map.
TakeUnmapped ==
  /\ thread = "requests"
  /\ pending = {}
  /\ requests # << >> /\ Head(requests).kind # "Stop" /\ Head(requests).of # {}
  /\ requests' = Tail(requests)
  /\ batches' = Append(batches, Head(requests))
  /\ pending' = {Len(batches) + 1}
  /\ watched' = watched \cup Head(requests).of
  /\ thread' = "sending"
  /\ UNCHANGED <<consumer, open, serverVars, wire, stream, queried, consumerVars, resent>>

\* A request is only taken when the last one is answered; one that asks for
\* nothing is not sent.
TakeRequest ==
  /\ thread = "requests"
  /\ pending = {}
  /\ requests # << >> /\ Head(requests).kind # "Stop"
  /\ requests' = Tail(requests)
  /\ \/ Head(requests).of # {} /\ Register(Head(requests))
     \/ /\ Head(requests).of = {}
        /\ thread' = "responses"
        /\ UNCHANGED <<batches, pending, watched, open, queried>>
  /\ UNCHANGED <<consumer, serverVars, wire, stream, consumerVars, resent>>

\* A write to a connection that ended may still succeed, into the void.
SendBatch ==
  /\ thread = "sending"
  /\ wire' = IF link = "up" THEN Append(wire, Len(batches)) ELSE wire
  /\ thread' = "responses"
  /\ UNCHANGED <<consumer, requests, batches, pending, open, watched, serverVars, stream,
                 queried, consumerVars, resent>>

\* The batch is tried for ever; from the eleventh failure on every one is
\* reported, which only notices for Txs that there is nobody to report to.
SendFails ==
  /\ thread = "sending"
  /\ link = "dead"
  /\ IF consumer = "on" THEN complained' = TRUE /\ UNCHANGED thread
     ELSE /\ thread' = IF batches[Len(batches)].kind = "Txs" THEN "stopped" ELSE "panicked"
          /\ UNCHANGED complained
  /\ UNCHANGED <<consumer, requests, batches, pending, open, watched, serverVars, wire, stream,
                 queried, status, histories, answered, resent>>

TakeStop ==
  /\ thread = "requests"
  /\ pending = {}
  /\ requests # << >> /\ Head(requests).kind = "Stop"
  /\ requests' = Tail(requests)
  /\ thread' = IF consumer = "on" THEN "stopped" ELSE "panicked"
  /\ UNCHANGED <<consumer, batches, pending, open, watched, serverVars, wire, stream,
                 queried, consumerVars, resent>>

\* Nothing to take, or not now.  That the consumer is gone is only seen when
\* nothing is pending.
NoRequest ==
  /\ thread = "requests"
  /\ pending # {} \/ requests = << >>
  /\ thread' = IF pending = {} /\ consumer = "gone" THEN "stopped" ELSE "responses"
  /\ UNCHANGED <<consumer, requests, batches, pending, open, watched, serverVars, wire, stream,
                 queried, consumerVars, resent>>

-----------------------------------------------------------------------------
(* The thread: responses                                                   *)

\* raw_read: the first line is returned, n more are lost, and of the one after
\* them a first part may be lost too.
Read(n) ==
  /\ thread = "responses"
  /\ n < Len(stream)
  /\ LET rest == SubSeq(stream, n + 2, Len(stream)) IN
     stream' \in {rest} \cup {[rest EXCEPT ![1] = Garbage] : r \in DOMAIN rest}

\* What a line that was understood tells the consumer.
Statuses(l) ==
  CASE l.type = "Notification" -> [s \in {l.of} |-> l.status]
    [] l.type = "Answer" /\ batches[l.batch].kind = "Subscribe" ->
         [s \in batches[l.batch].of \ l.bad |-> l.status[s]]
    [] OTHER -> [s \in {} |-> 0]

Histories(l) ==
  IF l.type = "Answer" /\ batches[l.batch].kind = "History"
  THEN Ids(l.batch, batches[l.batch].of \ l.bad) ELSE {}

Refused(l) == l.type = "Answer" /\ l.bad # {}

\* Whether anything is handed over after the loop over the answers.
Tells(l) ==
  \/ DOMAIN Statuses(l) # {} \/ Histories(l) # {}
  \/ l.type = "Answer" /\ batches[l.batch].kind = "Txs" /\ batches[l.batch].of # l.bad

\* responses_matches_requests: an answer to every request of the batch, an error
\* counts.
Matches(l) == l.type = "Answer" /\ l.batch \in pending

Unanswered(l) == pending # {} /\ ~Matches(l)

\* Mutant: a line that does not match is handed over and nothing sent again.
NeverResend(l) == FALSE /\ Unanswered(l)

\* The handler sends the pending batch again when a line does not answer it.
Resends(l) == Unanswered(l)

\* The batch cannot be sent again; an answer to a history request that has had
\* one finds no entry in reqid_spk_map; nobody listens to the answer.
MayPanic(l) ==
  \/ Resends(l) /\ link = "dead"
  \/ ~(Histories(l) \subseteq open)
  \/ consumer = "gone" /\ ~Refused(l) /\ Tells(l)

\* Of these only the failed write is not certain, and the loop over the answers
\* may meet an error first, which ends it when nobody listens.
MayGoOn(l) ==
  \/ consumer = "gone" /\ Refused(l)
  \/ Histories(l) \subseteq open /\ (consumer = "on" \/ ~Tells(l))

Resend(l) ==
  /\ wire' = IF Resends(l) /\ link = "up" THEN wire \o SetToSeq(pending) ELSE wire
  /\ resent' = (resent \/ Resends(l))

\* Mutant: an answered history request keeps its entry in reqid_spk_map.
ReceiveKeepsOpen(n) ==
  /\ Read(n)
  /\ LET l == Head(stream) IN
     /\ l.type # "Garbage"
     /\ Resend(l)
     /\ pending' = IF Matches(l) THEN {} ELSE pending
     /\ answered' = IF l.type = "Answer" THEN answered \cup {l.batch} ELSE answered
     /\ status' = [s \in Spk |-> IF s \in DOMAIN Statuses(l) THEN Statuses(l)[s] ELSE status[s]]
     /\ histories' = histories \o SetToSeq(Histories(l))
     /\ thread' = "requests"
  /\ UNCHANGED <<consumer, requests, batches, open, watched, serverVars, queried, complained>>

Receive(n) ==
  /\ Read(n)
  /\ LET l == Head(stream) IN
     /\ l.type # "Garbage" /\ MayGoOn(l)
     /\ Resend(l)
     /\ pending' = IF Matches(l) THEN {} ELSE pending
     /\ open' = open \ Histories(l)
     /\ IF consumer = "gone" /\ Refused(l)
        THEN thread' = "stopped" /\ UNCHANGED <<answered, status, histories>>
        ELSE /\ thread' = "requests"
             /\ answered' = IF l.type = "Answer" THEN answered \cup {l.batch} ELSE answered
             /\ status' = [s \in Spk |-> IF s \in DOMAIN Statuses(l) THEN Statuses(l)[s] ELSE status[s]]
             /\ histories' = histories \o SetToSeq(Histories(l))
  /\ UNCHANGED <<consumer, requests, batches, watched, serverVars, queried, complained>>

ReceivePanics(n) ==
  /\ Read(n)
  /\ Head(stream).type # "Garbage" /\ MayPanic(Head(stream))
  /\ Resend(Head(stream))
  /\ thread' = "panicked"
  /\ UNCHANGED <<consumer, requests, batches, pending, open, watched, serverVars, queried, consumerVars>>

\* A line that cannot be parsed, or the end of the stream, is reported; what
\* the line answered stays pending.
Complain ==
  /\ thread' = IF consumer = "on" THEN "requests" ELSE "stopped"
  /\ complained' = (complained \/ consumer = "on")
  /\ UNCHANGED <<consumer, requests, batches, pending, open, watched, serverVars, wire, queried,
                 status, histories, answered, resent>>

ReceiveGarbage(n) == Read(n) /\ Head(stream).type = "Garbage" /\ Complain

ReadFails ==
  /\ thread = "responses"
  /\ stream = << >> /\ link = "dead"
  /\ Complain
  /\ UNCHANGED stream

NothingToRead ==
  /\ thread = "responses"
  /\ stream = << >>
  /\ thread' = "requests"
  /\ UNCHANGED <<consumer, requests, batches, pending, open, watched, serverVars, wire, stream,
                 queried, consumerVars, resent>>

-----------------------------------------------------------------------------
(* The server and the connection                                           *)

\* A batch is answered in one line; some of its requests may be refused.  Of
\* an error only a code that is not negative is understood: another one, unless
\* the batch subscribes, spoils the whole line.
ServerAnswers ==
  /\ link = "up" /\ wire # << >>
  /\ LET b == Head(wire)
         r == batches[b] IN
     \E bad \in SUBSET r.of :
       /\ bad = {} \/ errors < MaxErrors
       /\ errors' = IF bad = {} THEN errors ELSE errors + 1
       /\ \/ stream' = Append(stream, Answer(b, bad))
          \/ bad # {} /\ r.kind # "Subscribe" /\ stream' = Append(stream, Garbage)
       /\ subscribed' = IF r.kind = "Subscribe" THEN subscribed \cup (r.of \ bad) ELSE subscribed
  /\ wire' = Tail(wire)
  /\ UNCHANGED <<consumer, requests, thread, batches, pending, open, watched, link, version,
                 queried, consumerVars, resent>>

\* A transaction changes the status of a script.
Change(s) ==
  /\ version[s] <= MaxChanges
  /\ version' = [version EXCEPT ![s] = @ + 1]
  /\ stream' = IF s \in subscribed /\ link = "up" THEN Append(stream, Notification(s)) ELSE stream
  /\ UNCHANGED <<consumer, requests, thread, batches, pending, open, watched, link, wire,
                 subscribed, errors, queried, consumerVars, resent>>

\* The connection ends; of what is on its way a first part still arrives.
LinkDies ==
  /\ link = "up"
  /\ link' = "dead"
  /\ wire' = << >>
  /\ \E n \in 0..Len(stream) : stream' = SubSeq(stream, 1, n)
  /\ UNCHANGED <<consumer, requests, thread, batches, pending, open, watched, subscribed, version,
                 errors, queried, consumerVars, resent>>

-----------------------------------------------------------------------------
Listen ==
  \/ TakeRequest \/ SendBatch \/ SendFails \/ TakeStop \/ NoRequest
  \/ (\E n \in 0..Len(stream) : Receive(n) \/ ReceivePanics(n) \/ ReceiveGarbage(n))
  \/ ReadFails \/ NothingToRead

Next ==
  \/ \E r \in Request : Demand(r)
  \/ Leave
  \/ Listen
  \/ ServerAnswers
  \/ \E s \in Spk : Change(s)
  \/ LinkDies

Spec == Init /\ [][Next]_vars

\* The thread loops, the server answers what it gets.
FairSpec == Spec /\ WF_vars(Listen) /\ WF_vars(ServerAnswers)

-----------------------------------------------------------------------------
(* Properties                                                              *)

Line == [type : {"Answer"}, batch : Nat, bad : SUBSET Spk, status : [Spk -> Nat]]
          \cup [type : {"Notification"}, of : Spk, status : Nat]
          \cup [type : {"Garbage"}]

\* The types of the variables.
TypeOK ==
  /\ consumer \in {"on", "gone"} /\ requests \in Seq(Request)
  /\ thread \in {"requests", "sending", "responses"} \cup Over
  /\ batches \in Seq(Batch) /\ pending \subseteq Nat /\ \A b, c \in pending : b = c
  /\ open \subseteq Nat \X Spk /\ watched \subseteq Spk
  /\ link \in {"up", "dead"} /\ wire \in Seq(Nat) /\ subscribed \subseteq Spk
  /\ version \in [Spk -> Nat] /\ errors \in Nat /\ stream \in Seq(Line)
  /\ status \in [Spk -> Nat] /\ queried \subseteq Nat \X Spk /\ histories \in Seq(Nat \X Spk)
  /\ answered \subseteq Nat /\ complained \in BOOLEAN /\ resent \in BOOLEAN

Watch == INSTANCE WatchService

\* The consumer is told true statuses of the scripts it watches, never an older
\* one after a newer, and no history twice, whatever notifications come between
\* a request and its answer, however often a batch is sent again and whichever
\* lines the reader loses.
ImplementsWatch == Watch!Spec

\* The thread does not panic unless it sent a batch again, its consumer went or
\* the connection ended.
NoPanicUndisturbed == thread = "panicked" => resent \/ consumer = "gone" \/ link = "dead"

Answers == {k \in DOMAIN stream : stream[k].type = "Answer"}

\* No request is sent before the answer to the one before, which some servers
\* need, as long as no batch had to be sent again.
OneOutstanding == ~resent => Len(wire) + Cardinality(Answers) <= Cardinality(pending)

\* Every batch that is sent is answered, unless the consumer was told of an
\* error (a line that was cut), the thread panicked or the connection ended: a
\* line that is lost behind a notification is made up for by sending again.
AnsweredOrTold ==
  \A b \in 1..MaxRequests :
    b \in pending ~> (b \in answered \/ complained \/ thread \in Over \/ link = "dead")
=============================================================================
