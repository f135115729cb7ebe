----------------------- MODULE ElectrumListenerProofs -----------------------
(***************************************************************************)
(* Proofs about ElectrumListener, for any scripts and any number of        *)
(* requests, changes and errors: the types, that the listener is the       *)
(* service of WatchService, that it sends one request at a time and that   *)
(* it does not panic, as long as nothing disturbs it.                      *)
(***************************************************************************)
EXTENDS ElectrumListener, FiniteSetTheorems, SequenceTheorems, TLAPS

-----------------------------------------------------------------------------
(* The parts of the inductive invariant                                    *)

\* What a line says of the status of script s, if it does.
SpeaksOf(l, s) == l.type = "Answer" \/ (l.type = "Notification" /\ l.of = s)
SaidOf(l, s)   == IF l.type = "Answer" THEN l.status[s] ELSE l.status

\* A line answers a batch that was sent or notifies of a watched script; what it
\* says of a status is not older than what the consumer was told.
LineInv(l) ==
  /\ l.type = "Answer" => l.batch \in DOMAIN batches
  /\ l.type = "Notification" => l.of \in watched
  /\ \A s \in Spk : SpeaksOf(l, s) => status[s] <= SaidOf(l, s) /\ SaidOf(l, s) <= version[s]

NotOlder(l, m) ==
  \A s \in Spk : SpeaksOf(l, s) /\ SpeaksOf(m, s) => SaidOf(l, s) <= SaidOf(m, s)

\* The lines on their way are in order.
StreamInv ==
  /\ \A k \in DOMAIN stream : LineInv(stream[k])
  /\ \A j, k \in DOMAIN stream : j < k => NotOlder(stream[j], stream[k])

\* The server knows of no other batch than those sent, and of no other script
\* than those the consumer subscribed to.
BatchInv ==
  /\ thread = "sending" => batches # << >>
  /\ \A k \in DOMAIN wire : wire[k] \in DOMAIN batches
  /\ pending \subseteq DOMAIN batches
  /\ \A b \in DOMAIN batches : batches[b].kind = "Subscribe" => batches[b].of \subseteq watched
  /\ subscribed \subseteq watched
  /\ \A s \in Spk : status[s] <= version[s]

\* The histories handed over were asked for, are no more in reqid_spk_map, and
\* are handed over once.
HistoryInv ==
  /\ \A q \in queried : q[1] \in DOMAIN batches
  /\ open \subseteq queried
  /\ \A k \in DOMAIN histories : histories[k] \in queried \ open
  /\ \A j, k \in DOMAIN histories : j # k => histories[j] # histories[k]

ListenerInv == TypeOK /\ BatchInv /\ StreamInv /\ HistoryInv

-----------------------------------------------------------------------------
(* Sequences                                                               *)

\* SetToSeq lists the elements of a finite set once each.
LEMMA SetToSeqOnce ==
  ASSUME NEW T, NEW S \in SUBSET T, IsFiniteSet(S)
  PROVE  /\ SetToSeq(S) \in Seq(T)
         /\ \A k \in DOMAIN SetToSeq(S) : SetToSeq(S)[k] \in S
         /\ \A j, k \in DOMAIN SetToSeq(S) : SetToSeq(S)[j] = SetToSeq(S)[k] => j = k
<1> DEFINE n == Cardinality(S)
           f == SetToSeq(S)
<1>1. n \in Nat /\ ExistsBijection(1..n, S)
  BY FS_CardinalityType
<1>2. PICK g : g \in Bijection(1..n, S)
  BY <1>1 DEF ExistsBijection
<1>3. g \in [1..n -> S] /\ IsInjective(g)
  BY <1>2 DEF Bijection, Injection
<1>4. f \in [1..n -> S] /\ IsInjective(f)
  BY <1>3 DEF SetToSeq
<1> HIDE DEF f
<1>5. f \in Seq(S)
  BY <1>1, <1>4
<1>6. f \in Seq(T)
  BY <1>5, SeqMonotonic
<1> QED BY <1>4, <1>6 DEF IsInjective, f

\* Nothing is listed of the empty set.
LEMMA SetToSeqEmpty == SetToSeq({}) = << >>
<1>1. Cardinality({}) = 0
  BY FS_EmptySet
<1>2. SetToSeq({}) \in Seq({})
  BY SetToSeqOnce, FS_EmptySet
<1>3. \A k \in DOMAIN SetToSeq({}) : FALSE
  BY SetToSeqOnce, FS_EmptySet
<1> QED BY <1>2, <1>3, LenProperties, EmptySeq

\* A sequence that grows by one at the end.
LEMMA AppendDomain ==
  ASSUME NEW S, NEW q \in Seq(S), NEW e \in S
  PROVE  /\ Append(q, e) \in Seq(S)
         /\ DOMAIN q = 1..Len(q) /\ Len(q) \in Nat
         /\ DOMAIN Append(q, e) = 1..(Len(q) + 1) /\ DOMAIN q \subseteq DOMAIN Append(q, e)
         /\ Len(q) + 1 \in DOMAIN Append(q, e) /\ Len(q) + 1 \notin DOMAIN q
         /\ Append(q, e)[Len(q) + 1] = e
         /\ \A k \in DOMAIN q : Append(q, e)[k] = q[k] /\ k < Len(q) + 1
         /\ \A k \in DOMAIN Append(q, e) : k \in DOMAIN q \/ k = Len(q) + 1
<1>1. /\ Append(q, e) \in Seq(S) /\ Len(Append(q, e)) = Len(q) + 1
      /\ \A k \in 1..Len(q) : Append(q, e)[k] = q[k]
      /\ Append(q, e)[Len(q) + 1] = e
  BY AppendProperties
<1>2. Len(q) \in Nat /\ DOMAIN q = 1..Len(q) /\ DOMAIN Append(q, e) = 1..Len(Append(q, e))
  BY <1>1, LenProperties
<1> QED BY <1>1, <1>2

\* raw_read returns the first line; of the others some at the front are lost and
\* one may be cut.
LEMMA ReadEffect ==
  ASSUME TypeOK, NEW n \in 0..Len(stream), Read(n)
  PROVE  /\ stream' \in Seq(Line) /\ 1 \in DOMAIN stream /\ Head(stream) = stream[1]
         /\ Head(stream) \in Line
         /\ \A k \in DOMAIN stream' : /\ k + n + 1 \in DOMAIN stream /\ 1 < k + n + 1
                                      /\ stream'[k] = Garbage \/ stream'[k] = stream[k + n + 1]
<1> DEFINE rest == SubSeq(stream, n + 2, Len(stream))
<1>1. stream \in Seq(Line) /\ Len(stream) \in Nat /\ DOMAIN stream = 1..Len(stream)
      /\ n \in Nat /\ n < Len(stream)
  BY LenProperties DEF TypeOK, Read
<1>2. \A i \in (n + 2)..Len(stream) : stream[i] \in Line
  BY <1>1, ElementOfSeq
<1>3. /\ rest \in Seq(Line) /\ Len(rest) = IF n + 2 <= Len(stream) THEN Len(stream) - (n + 2) + 1 ELSE 0
      /\ \A i \in 1..(Len(stream) - (n + 2) + 1) : rest[i] = stream[(n + 2) + i - 1]
  BY <1>1, <1>2, SubSeqProperties
<1>4. Len(rest) \in Nat /\ DOMAIN rest = 1..Len(rest)
  BY <1>3, LenProperties
<1>5. \A k \in DOMAIN rest : /\ k + n + 1 \in DOMAIN stream /\ 1 < k + n + 1
                             /\ rest[k] = stream[k + n + 1]
  BY <1>1, <1>3, <1>4
<1>6. Garbage \in Line
  BY DEF Garbage, Line
<1>7. stream' \in {rest} \cup {[rest EXCEPT ![1] = Garbage] : r \in DOMAIN rest}
  BY DEF Read
<1> HIDE DEF rest
<1>8. CASE stream' = rest
  BY <1>1, <1>3, <1>5, <1>8, ElementOfSeq
<1>9. CASE DOMAIN rest # {} /\ stream' = [rest EXCEPT ![1] = Garbage]
  <2>1. 1 \in 1..Len(rest)
    BY <1>4, <1>9
  <2>2. stream' \in Seq(Line) /\ DOMAIN stream' = DOMAIN rest
    BY <1>3, <1>6, <1>9, <2>1, ExceptSeq
  <2>3. \A k \in DOMAIN rest : stream'[k] = Garbage \/ stream'[k] = rest[k]
    BY <1>9
  <2> QED BY <1>1, <1>5, <2>2, <2>3, ElementOfSeq
<1> QED BY <1>7, <1>8, <1>9

-----------------------------------------------------------------------------
(* Lines                                                                   *)

\* The histories of a line are those of its batch, finitely many.
LEMMA HistoriesType ==
  ASSUME TypeOK, NEW l \in Line, l.type = "Answer" => l.batch \in DOMAIN batches
  PROVE  /\ Histories(l) \in SUBSET (Nat \X Spk) /\ IsFiniteSet(Histories(l))
         /\ Histories(l) # {} => l.type = "Answer" /\ batches[l.batch].kind = "History"
<1>1. CASE l.type = "Answer" /\ batches[l.batch].kind = "History"
  <2> DEFINE S == batches[l.batch].of \ l.bad
             f == [s \in S |-> <<l.batch, s>>]
  <2>1. batches[l.batch] \in Batch
    BY <1>1, ElementOfSeq, LenProperties DEF TypeOK
  <2>2. S \subseteq Spk /\ l.batch \in Nat
    BY <1>1, <2>1 DEF Batch, Line
  <2>3. IsFiniteSet(S)
    BY <2>2, FS_Subset, ListenerAssumption
  <2>4. f \in Surjection(S, Histories(l))
    BY <1>1 DEF Surjection, Histories, Ids
  <2>5. IsFiniteSet(Histories(l))
    BY <2>3, <2>4, FS_Surjection
  <2>6. Histories(l) \subseteq Nat \X Spk
    BY <1>1, <2>2 DEF Histories, Ids
  <2> QED BY <1>1, <2>5, <2>6
<1>2. CASE ~(l.type = "Answer" /\ batches[l.batch].kind = "History")
  BY <1>2, FS_EmptySet DEF Histories
<1> QED BY <1>1, <1>2

\* The statuses of a line are what it says of watched scripts; a line with
\* histories has none.
LEMMA StatusesType ==
  ASSUME TypeOK, BatchInv, NEW l \in Line, LineInv(l)
  PROVE  /\ \A s \in DOMAIN Statuses(l) : /\ s \in watched /\ SpeaksOf(l, s)
                                          /\ Statuses(l)[s] = SaidOf(l, s) /\ SaidOf(l, s) \in Nat
         /\ Histories(l) # {} => DOMAIN Statuses(l) = {}
<1>1. CASE l.type = "Notification"
  <2>1. Statuses(l) = [s \in {l.of} |-> l.status] /\ Histories(l) = {}
    BY <1>1 DEF Statuses, Histories
  <2>2. l.of \in watched /\ l.status \in Nat
    BY <1>1 DEF LineInv, Line
  <2> QED BY <1>1, <2>1, <2>2 DEF SpeaksOf, SaidOf
<1>2. CASE l.type = "Answer" /\ batches[l.batch].kind = "Subscribe"
  <2> DEFINE S == batches[l.batch].of \ l.bad
  <2>1. Statuses(l) = [s \in S |-> l.status[s]] /\ Histories(l) = {}
    BY <1>2 DEF Statuses, Histories
  <2>2. S \subseteq watched /\ watched \subseteq Spk
    BY <1>2 DEF LineInv, BatchInv, TypeOK
  <2>3. l.status \in [Spk -> Nat]
    BY <1>2 DEF Line
  <2> QED BY <1>2, <2>1, <2>2, <2>3 DEF SpeaksOf, SaidOf
<1>3. CASE l.type # "Notification" /\ ~(l.type = "Answer" /\ batches[l.batch].kind = "Subscribe")
  <2>1. Statuses(l) = [s \in {} |-> 0]
    BY <1>3 DEF Statuses
  <2> QED BY <2>1
<1> QED BY <1>1, <1>2, <1>3

-----------------------------------------------------------------------------
(* Type correctness                                                        *)

\* The thread takes a request, and registers it unless it asks for nothing.
LEMMA TakeRequestType ==
  ASSUME TypeOK, TakeRequest
  PROVE  /\ Head(requests) \in Request /\ requests' \in Seq(Request)
         /\ \/ Head(requests) \in Batch /\ Register(Head(requests))
            \/ thread' = "responses" /\ UNCHANGED <<batches, pending, watched, open, queried>>
<1>1. Head(requests) \in Request /\ requests' \in Seq(Request)
  BY HeadTailProperties DEF TypeOK, TakeRequest
<1>2. ASSUME NEW r \in Request, r.of # {}, r.kind # "Stop" PROVE r \in Batch
  <2>1. r \in [kind : {"Subscribe", "History", "Txs"}, of : SUBSET Spk]
    BY <1>2 DEF Request
  <2>2. r.kind \in {"Subscribe", "History", "Txs"} /\ r.of \in (SUBSET Spk) \ {{}}
    BY <1>2, <2>1
  <2> QED BY <2>1, <2>2 DEF Batch
<1> QED BY <1>1, <1>2 DEF TakeRequest

\* Registering numbers the batch and adds its scripts and requests.
LEMMA RegisterType ==
  ASSUME TypeOK, NEW r \in Batch, Register(r)
  PROVE  /\ batches' \in Seq(Batch) /\ DOMAIN batches' = 1..(Len(batches) + 1)
         /\ Len(batches) \in Nat /\ DOMAIN batches = 1..Len(batches)
         /\ batches'[Len(batches) + 1] = r /\ \A b \in DOMAIN batches : batches'[b] = batches[b]
         /\ pending' = {Len(batches) + 1} /\ thread' = "sending"
         /\ watched \subseteq watched' /\ watched' \subseteq Spk
         /\ r.kind = "Subscribe" => r.of \subseteq watched'
         /\ Ids(Len(batches) + 1, r.of) \subseteq Nat \X Spk
         /\ \/ UNCHANGED <<open, queried>>
            \/ /\ open' = open \cup Ids(Len(batches) + 1, r.of)
               /\ queried' = queried \cup Ids(Len(batches) + 1, r.of)
<1> DEFINE b == Len(batches) + 1
<1>1. batches \in Seq(Batch) /\ batches' = Append(batches, r)
  BY DEF TypeOK, Register
<1>2. /\ batches' \in Seq(Batch) /\ DOMAIN batches' = 1..b /\ Len(batches) \in Nat
      /\ DOMAIN batches = 1..Len(batches) /\ batches'[b] = r
      /\ \A k \in DOMAIN batches : batches'[k] = batches[k]
  BY <1>1, AppendDomain
<1>3. r.of \subseteq Spk /\ b \in Nat
  BY <1>2 DEF Batch
<1>4. Ids(b, r.of) \subseteq Nat \X Spk
  BY <1>3 DEF Ids
<1> QED BY <1>2, <1>3, <1>4 DEF Register, TypeOK

LEMMA TypeInit == Init => TypeOK
<1> SUFFICES ASSUME Init PROVE TypeOK
  OBVIOUS
<1>1. pending = {}
  BY DEF Init
<1>2. /\ requests \in Seq(Request) /\ batches \in Seq(Batch) /\ wire \in Seq(Nat)
      /\ stream \in Seq(Line) /\ histories \in Seq(Nat \X Spk)
  BY EmptySeq DEF Init
<1> QED BY <1>1, <1>2 DEF Init, TypeOK, Over

\* Sending again puts the pending batch in the wire once more.
LEMMA ResendType ==
  ASSUME TypeOK, NEW l, Resend(l)
  PROVE  /\ wire' \in Seq(Nat) /\ resent' \in BOOLEAN
         /\ \A k \in DOMAIN wire' : \/ wire'[k] \in pending
                                    \/ \E j \in DOMAIN wire : wire'[k] = wire[j]
<1>1. wire \in Seq(Nat) /\ pending \in SUBSET Nat /\ Len(wire) \in Nat /\ DOMAIN wire = 1..Len(wire)
  BY LenProperties DEF TypeOK
<1>2. CASE wire' = wire
  BY <1>1, <1>2 DEF Resend, TypeOK
<1>3. CASE Resends(l) /\ wire' = wire \o SetToSeq(pending)
  <2> DEFINE q == SetToSeq(pending)
  <2>1. IsFiniteSet(pending)
    <3>1. CASE pending = {}
      BY <3>1, FS_EmptySet
    <3>2. ASSUME NEW b \in pending PROVE IsFiniteSet(pending)
      <4>1. pending = {b}
        BY DEF TypeOK
      <4> QED BY <4>1, FS_Singleton
    <3> QED BY <3>1, <3>2
  <2>2. q \in Seq(Nat) /\ \A k \in DOMAIN q : q[k] \in pending
    BY <1>1, <2>1, SetToSeqOnce
  <2>3. Len(q) \in Nat /\ DOMAIN q = 1..Len(q)
    BY <2>2, LenProperties
  <2> HIDE DEF q
  <2>4. /\ wire' \in Seq(Nat) /\ Len(wire') = Len(wire) + Len(q)
        /\ \A i \in 1..(Len(wire) + Len(q)) :
             wire'[i] = IF i <= Len(wire) THEN wire[i] ELSE q[i - Len(wire)]
    BY <1>1, <1>3, <2>2, ConcatProperties DEF q
  <2>5. DOMAIN wire' = 1..(Len(wire) + Len(q))
    BY <2>4, LenProperties
  <2>6. ASSUME NEW k \in DOMAIN wire'
        PROVE  wire'[k] \in pending \/ \E j \in DOMAIN wire : wire'[k] = wire[j]
    <3>1. CASE k <= Len(wire)
      BY <1>1, <2>3, <2>4, <2>5, <3>1
    <3>2. CASE ~(k <= Len(wire))
      <4>1. k - Len(wire) \in DOMAIN q
        BY <1>1, <2>3, <2>5, <3>2
      <4> QED BY <2>2, <2>4, <2>5, <3>2, <4>1
    <3> QED BY <3>1, <3>2
  <2> QED BY <2>4, <2>6 DEF Resend, TypeOK
<1> QED BY <1>2, <1>3 DEF Resend

\* What is read is in order with what the invariant says of a line.
LEMMA ReadLine ==
  ASSUME TypeOK, StreamInv, NEW n \in 0..Len(stream), Read(n)
  PROVE  Head(stream) \in Line /\ LineInv(Head(stream)) /\ stream' \in Seq(Line)
BY ReadEffect DEF StreamInv

LEMMA ReceiveType ==
  ASSUME TypeOK, BatchInv, StreamInv, NEW n \in 0..Len(stream), Receive(n)
  PROVE  TypeOK'
<1> DEFINE l == Head(stream)
<1>1. l \in Line /\ LineInv(l) /\ stream' \in Seq(Line)
  BY ReadLine DEF Receive
<1>2. wire' \in Seq(Nat) /\ resent' \in BOOLEAN
  BY ResendType DEF Receive
<1>3. /\ Histories(l) \in SUBSET (Nat \X Spk) /\ IsFiniteSet(Histories(l))
  BY <1>1, HistoriesType DEF LineInv
<1>4. SetToSeq(Histories(l)) \in Seq(Nat \X Spk)
  BY <1>3, SetToSeqOnce
<1>5. histories' \in Seq(Nat \X Spk)
  <2>1. histories \in Seq(Nat \X Spk)
    BY DEF TypeOK
  <2>2. histories \o SetToSeq(Histories(l)) \in Seq(Nat \X Spk)
    BY <1>4, <2>1, ConcatProperties
  <2>3. histories' = histories \/ histories' = histories \o SetToSeq(Histories(l))
    BY DEF Receive
  <2> QED BY <2>1, <2>2, <2>3
<1>6. status' \in [Spk -> Nat]
  <2>1. \A s \in DOMAIN Statuses(l) : Statuses(l)[s] \in Nat
    BY <1>1, StatusesType
  <2> QED BY <2>1 DEF Receive, TypeOK
<1>7. answered' \subseteq Nat
  <2>1. l.type = "Answer" => l.batch \in Nat
    BY <1>1 DEF Line
  <2> QED BY <2>1 DEF Receive, TypeOK
<1>8. pending' \in {pending, {}} /\ open' \subseteq open /\ thread' \in {"stopped", "requests"}
  BY DEF Receive
<1>9. UNCHANGED <<consumer, requests, batches, watched, serverVars, queried, complained>>
  BY DEF Receive
<1> QED BY <1>1, <1>2, <1>5, <1>6, <1>7, <1>8, <1>9 DEF TypeOK, serverVars, Over

LEMMA TypeNext ==
  ASSUME TypeOK, BatchInv, StreamInv, [Next]_vars
  PROVE  TypeOK'
<1> USE DEF consumerVars, serverVars, Over
<1>1. ASSUME NEW r \in Request, Demand(r) PROVE TypeOK'
  BY <1>1, AppendProperties DEF Demand, TypeOK
<1>2. CASE Leave
  BY <1>2 DEF Leave, TypeOK
<1>3. CASE TakeRequest
  <2>1. requests' \in Seq(Request) /\ UNCHANGED <<consumer, serverVars, wire, stream, consumerVars, resent>>
    BY <1>3, TakeRequestType DEF TakeRequest
  <2>2. ASSUME NEW r \in Batch, Register(r) PROVE TypeOK'
    <3>1. /\ batches' \in Seq(Batch) /\ Len(batches) + 1 \in Nat
          /\ pending' = {Len(batches) + 1} /\ thread' = "sending" /\ watched' \subseteq Spk
      BY <2>2, RegisterType
    <3>2. open' \subseteq Nat \X Spk /\ queried' \subseteq Nat \X Spk
      <4> DEFINE I == Ids(Len(batches) + 1, r.of)
      <4>1. /\ I \subseteq Nat \X Spk
            /\ \/ open' = open /\ queried' = queried
               \/ open' = open \cup I /\ queried' = queried \cup I
        BY <2>2, RegisterType
      <4> HIDE DEF I
      <4> QED BY <4>1 DEF TypeOK
    <3> QED BY <2>1, <3>1, <3>2 DEF TypeOK
  <2>3. CASE thread' = "responses" /\ UNCHANGED <<batches, pending, watched, open, queried>>
    BY <2>1, <2>3 DEF TypeOK
  <2> QED BY <1>3, <2>2, <2>3, TakeRequestType
<1>4. CASE SendBatch
  <2>1. Len(batches) \in Nat
    BY LenProperties DEF TypeOK
  <2>2. wire' \in Seq(Nat)
    BY <1>4, <2>1, AppendProperties DEF SendBatch, TypeOK
  <2> QED BY <1>4, <2>2 DEF SendBatch, TypeOK
<1>5. CASE SendFails
  BY <1>5 DEF SendFails, TypeOK
<1>6. CASE TakeStop
  BY <1>6, HeadTailProperties DEF TakeStop, TypeOK
<1>7. CASE NoRequest
  BY <1>7 DEF NoRequest, TypeOK
<1>8. ASSUME NEW n \in 0..Len(stream), Receive(n) PROVE TypeOK'
  BY <1>8, ReceiveType
<1>9. ASSUME NEW n \in 0..Len(stream), ReceivePanics(n) PROVE TypeOK'
  BY <1>9, ReadLine, ResendType DEF ReceivePanics, TypeOK
<1>10. ASSUME NEW n \in 0..Len(stream), ReceiveGarbage(n) PROVE TypeOK'
  BY <1>10, ReadLine DEF ReceiveGarbage, Complain, TypeOK
<1>11. CASE ReadFails
  BY <1>11 DEF ReadFails, Complain, TypeOK
<1>12. CASE NothingToRead
  BY <1>12 DEF NothingToRead, TypeOK
<1>13. CASE ServerAnswers
  <2> DEFINE b == Head(wire)
             r == batches[b]
  <2>1. b \in Nat /\ b \in DOMAIN batches /\ wire' \in Seq(Nat)
    <3>1. wire \in Seq(Nat) /\ wire # << >>
      BY <1>13 DEF ServerAnswers, TypeOK
    <3>2. 1 \in DOMAIN wire /\ b = wire[1]
      BY <3>1, LenProperties, EmptySeq
    <3> QED BY <1>13, <3>1, <3>2, HeadTailProperties DEF ServerAnswers, BatchInv
  <2>2. r \in Batch
    BY <2>1, ElementOfSeq, LenProperties DEF TypeOK
  <2>3. r.of \subseteq Spk
    BY <2>2 DEF Batch
  <2>4. PICK bad \in SUBSET r.of :
          /\ errors' = IF bad = {} THEN errors ELSE errors + 1
          /\ stream' = Append(stream, Answer(b, bad)) \/ stream' = Append(stream, Garbage)
          /\ subscribed' = IF r.kind = "Subscribe" THEN subscribed \cup (r.of \ bad) ELSE subscribed
    BY <1>13 DEF ServerAnswers
  <2>5. Answer(b, bad) \in Line /\ Garbage \in Line
    BY <2>1, <2>3 DEF Answer, Garbage, Line, TypeOK
  <2>6. stream' \in Seq(Line)
    <3>1. ASSUME NEW x \in Line PROVE Append(stream, x) \in Seq(Line)
      BY AppendProperties DEF TypeOK
    <3> QED BY <2>4, <2>5, <3>1
  <2>7. errors' \in Nat /\ subscribed' \subseteq Spk
    BY <2>3, <2>4 DEF TypeOK
  <2> QED BY <1>13, <2>1, <2>6, <2>7 DEF ServerAnswers, TypeOK
<1>14. ASSUME NEW s \in Spk, Change(s) PROVE TypeOK'
  <2>1. version' \in [Spk -> Nat]
    BY <1>14 DEF Change, TypeOK
  <2>2. Notification(s) \in Line
    BY <2>1 DEF Notification, Line
  <2>3. stream' \in Seq(Line)
    BY <1>14, <2>2, AppendProperties DEF Change, TypeOK
  <2> QED BY <1>14, <2>1, <2>3 DEF Change, TypeOK
<1>15. CASE LinkDies
  <2>1. PICK n \in 0..Len(stream) : stream' = SubSeq(stream, 1, n)
    BY <1>15 DEF LinkDies
  <2>2. stream' \in Seq(Line)
    <3>1. stream \in Seq(Line) /\ Len(stream) \in Nat /\ n \in Int /\ n <= Len(stream)
      BY <2>1, LenProperties DEF TypeOK
    <3>2. \A i \in 1..n : stream[i] \in Line
      BY <3>1, ElementOfSeq
    <3> QED BY <2>1, <3>1, <3>2, SubSeqProperties
  <2> QED BY <1>15, <2>2, EmptySeq DEF LinkDies, TypeOK
<1>16. CASE UNCHANGED vars
  BY <1>16 DEF vars, TypeOK
<1> QED
  BY <1>1, <1>2, <1>3, <1>4, <1>5, <1>6, <1>7, <1>8, <1>9, <1>10, <1>11, <1>12, <1>13, <1>14,
     <1>15, <1>16
  DEF Next, Listen

-----------------------------------------------------------------------------
(* Batches                                                                 *)

\* What registering a request leaves of the invariant.
LEMMA RegisterBatch ==
  ASSUME TypeOK, BatchInv, NEW r \in Batch, Register(r), UNCHANGED <<wire, subscribed, status, version>>
  PROVE  BatchInv'
<1> DEFINE b == Len(batches) + 1
<1>1. /\ DOMAIN batches' = 1..b /\ Len(batches) \in Nat /\ DOMAIN batches = 1..Len(batches)
      /\ batches'[b] = r /\ \A k \in DOMAIN batches : batches'[k] = batches[k]
      /\ pending' = {b} /\ watched \subseteq watched'
      /\ r.kind = "Subscribe" => r.of \subseteq watched'
  BY RegisterType
<1>2. DOMAIN batches \subseteq DOMAIN batches' /\ b \in DOMAIN batches'
      /\ \A k \in DOMAIN batches' : k \in DOMAIN batches \/ k = b
  BY <1>1
<1>3. \A k \in DOMAIN batches' : batches'[k].kind = "Subscribe" => batches'[k].of \subseteq watched'
  BY <1>1, <1>2 DEF BatchInv
<1> QED BY <1>1, <1>2, <1>3 DEF BatchInv

LEMMA BatchNext ==
  ASSUME TypeOK, BatchInv, StreamInv, [Next]_vars
  PROVE  BatchInv'
<1> USE DEF consumerVars, serverVars
<1> DEFINE Thread == thread' = "sending" => thread = "sending"
<1>1. CASE Thread /\ UNCHANGED <<wire, batches, pending, watched, subscribed, status, version>>
  BY <1>1 DEF BatchInv
<1>2. CASE TakeRequest
  <2>1. UNCHANGED <<wire, subscribed, status, version>>
    BY <1>2 DEF TakeRequest
  <2> QED BY <1>1, <1>2, <2>1, TakeRequestType, RegisterBatch
<1>3. CASE SendBatch
  <2>1. /\ batches \in Seq(Batch) /\ Len(batches) \in DOMAIN batches
        /\ wire \in Seq(Nat) /\ Len(batches) \in Nat
    BY <1>3, LenProperties, EmptySeq DEF SendBatch, BatchInv, TypeOK
  <2>2. \A k \in DOMAIN Append(wire, Len(batches)) :
          \/ k \in DOMAIN wire /\ Append(wire, Len(batches))[k] = wire[k]
          \/ Append(wire, Len(batches))[k] = Len(batches)
    BY <2>1, AppendDomain
  <2>3. \A k \in DOMAIN wire' : wire'[k] \in DOMAIN batches
    BY <1>3, <2>1, <2>2 DEF SendBatch, BatchInv
  <2> QED BY <1>3, <2>3 DEF SendBatch, BatchInv
<1>4. ASSUME NEW n \in 0..Len(stream), Receive(n) PROVE BatchInv'
  <2> DEFINE l == Head(stream)
  <2>1. l \in Line /\ LineInv(l)
    BY <1>4, ReadLine DEF Receive
  <2>2. \A k \in DOMAIN wire' : wire'[k] \in pending \/ \E j \in DOMAIN wire : wire'[k] = wire[j]
    BY <1>4, ResendType DEF Receive
  <2>3. ASSUME NEW s \in Spk PROVE status'[s] <= version'[s]
    <3>1. \/ status'[s] = status[s]
          \/ s \in DOMAIN Statuses(l) /\ status'[s] = Statuses(l)[s]
      BY <1>4 DEF Receive
    <3>2. s \in DOMAIN Statuses(l) => Statuses(l)[s] <= version[s]
      BY <2>1, StatusesType DEF LineInv
    <3> QED BY <1>4, <3>1, <3>2 DEF Receive, BatchInv
  <2>4. /\ pending' \subseteq pending /\ UNCHANGED <<batches, watched, subscribed, version>>
        /\ thread' # "sending"
    BY <1>4 DEF Receive
  <2> QED BY <2>2, <2>3, <2>4 DEF BatchInv
<1>5. ASSUME NEW n \in 0..Len(stream), ReceivePanics(n) PROVE BatchInv'
  <2>1. \A k \in DOMAIN wire' : wire'[k] \in pending \/ \E j \in DOMAIN wire : wire'[k] = wire[j]
    BY <1>5, ResendType DEF ReceivePanics
  <2> QED BY <1>5, <2>1 DEF ReceivePanics, BatchInv
<1>6. CASE ServerAnswers
  <2> DEFINE b == Head(wire)
  <2>1. wire \in Seq(Nat) /\ wire # << >>
    BY <1>6 DEF ServerAnswers, TypeOK
  <2>2. /\ b = wire[1] /\ 1 \in DOMAIN wire
        /\ \A k \in DOMAIN Tail(wire) : k + 1 \in DOMAIN wire /\ Tail(wire)[k] = wire[k + 1]
    BY <2>1, HeadTailProperties, LenProperties, EmptySeq
  <2>3. b \in DOMAIN batches /\ \A k \in DOMAIN wire' : wire'[k] \in DOMAIN batches
    BY <1>6, <2>2 DEF ServerAnswers, BatchInv
  <2>4. subscribed' \subseteq watched
    BY <1>6, <2>3 DEF ServerAnswers, BatchInv
  <2>5. UNCHANGED <<thread, batches, pending, watched, status, version>>
    BY <1>6 DEF ServerAnswers
  <2> QED BY <2>3, <2>4, <2>5 DEF BatchInv
<1>7. ASSUME NEW s \in Spk, Change(s) PROVE BatchInv'
  <2>1. \A x \in Spk : version[x] \in Nat /\ status[x] \in Nat /\ version[x] <= version'[x]
    BY <1>7 DEF Change, TypeOK
  <2>2. \A x \in Spk : status'[x] <= version'[x]
    BY <1>7, <2>1 DEF Change, BatchInv
  <2> QED BY <1>7, <2>2 DEF Change, BatchInv
<1>8. CASE LinkDies
  <2>1. wire' = << >> /\ UNCHANGED <<thread, batches, pending, watched, subscribed, status, version>>
    BY <1>8 DEF LinkDies
  <2> QED BY <2>1 DEF BatchInv
<1>9. CASE \/ (\E r \in Request : Demand(r)) \/ Leave \/ SendFails \/ TakeStop \/ NoRequest
           \/ (\E n \in 0..Len(stream) : ReceiveGarbage(n)) \/ ReadFails \/ NothingToRead
           \/ UNCHANGED vars
  <2>1. Thread /\ UNCHANGED <<wire, batches, pending, watched, subscribed, status, version>>
    BY <1>9 DEF Demand, Leave, SendFails, TakeStop, NoRequest, ReceiveGarbage, ReadFails,
                NothingToRead, Complain, vars
  <2> QED BY <1>1, <2>1
<1> QED BY <1>2, <1>3, <1>4, <1>5, <1>6, <1>7, <1>8, <1>9 DEF Next, Listen

-----------------------------------------------------------------------------
(* Lines on their way                                                      *)

\* What is said of a line holds on, and of more, when the thread registers a
\* request, and when a status changes.
LEMMA LineStays ==
  ASSUME TypeOK, BatchInv, NEW l \in Line, LineInv(l),
         DOMAIN batches \subseteq DOMAIN batches', watched \subseteq watched', UNCHANGED status,
         \A s \in Spk : version[s] <= version'[s] /\ version'[s] \in Nat
  PROVE  LineInv(l)'
<1>1. \A s \in Spk : SpeaksOf(l, s) => SaidOf(l, s) \in Nat /\ version[s] \in Nat
  BY DEF SpeaksOf, SaidOf, Line, TypeOK
<1>2. \A s \in Spk : SpeaksOf(l, s) => status'[s] <= SaidOf(l, s) /\ SaidOf(l, s) <= version'[s]
  BY <1>1 DEF LineInv
<1> QED BY <1>2 DEF LineInv

\* A line that says of a status what it is now, or will be, may follow all others.
LEMMA StreamAppend ==
  ASSUME TypeOK, StreamInv, NEW l \in Line,
         \A s \in Spk : SpeaksOf(l, s) => version[s] <= SaidOf(l, s)
  PROVE  LET q == Append(stream, l) IN
         /\ \A k \in DOMAIN q : q[k] = l \/ \E j \in DOMAIN stream : q[k] = stream[j]
         /\ \A j, k \in DOMAIN q : j < k => NotOlder(q[j], q[k])
<1> DEFINE q == Append(stream, l)
           n == Len(stream) + 1
<1>1. /\ stream \in Seq(Line) /\ n \in Nat /\ q[n] = l /\ DOMAIN stream = 1..Len(stream)
      /\ \A k \in DOMAIN stream : q[k] = stream[k] /\ k < n
      /\ \A k \in DOMAIN q : k \in DOMAIN stream \/ k = n
  BY AppendDomain DEF TypeOK
<1>2. ASSUME NEW k \in DOMAIN stream PROVE NotOlder(stream[k], l)
  <2>1. stream[k] \in Line /\ LineInv(stream[k])
    BY <1>1, ElementOfSeq DEF StreamInv
  <2>2. ASSUME NEW s \in Spk, SpeaksOf(stream[k], s), SpeaksOf(l, s)
        PROVE  SaidOf(stream[k], s) <= SaidOf(l, s)
    <3>1. SaidOf(stream[k], s) \in Nat /\ SaidOf(l, s) \in Nat /\ version[s] \in Nat
      BY <2>1, <2>2 DEF SpeaksOf, SaidOf, Line, TypeOK
    <3>2. SaidOf(stream[k], s) <= version[s] /\ version[s] <= SaidOf(l, s)
      BY <2>1, <2>2 DEF LineInv
    <3> QED BY <3>1, <3>2
  <2> QED BY <2>2 DEF NotOlder
<1> HIDE DEF q
<1>3. \A k \in DOMAIN q : q[k] = l \/ \E j \in DOMAIN stream : q[k] = stream[j]
  BY <1>1
<1>4. ASSUME NEW j \in DOMAIN q, NEW k \in DOMAIN q, j < k PROVE NotOlder(q[j], q[k])
  <2>1. j \in DOMAIN stream
    BY <1>1, <1>4
  <2> QED BY <1>1, <1>2, <1>4, <2>1 DEF StreamInv
<1> QED BY <1>3, <1>4 DEF q

\* What is left of the stream when lines at either end are lost, and others cut,
\* is in order.
LEMMA StreamCut ==
  ASSUME TypeOK, StreamInv, stream' \in Seq(Line), NEW d \in Nat,
         \A k \in DOMAIN stream' : /\ k + d \in DOMAIN stream
                                   /\ stream'[k] = Garbage \/ stream'[k] = stream[k + d]
  PROVE  \A j, k \in DOMAIN stream' : j < k => NotOlder(stream[j], stream[k])'
<1> SUFFICES ASSUME NEW j \in DOMAIN stream', NEW k \in DOMAIN stream', j < k
             PROVE  NotOlder(stream'[j], stream'[k])
  BY DEF NotOlder, SpeaksOf, SaidOf
<1>1. j \in Nat /\ k \in Nat /\ j + d < k + d
  BY LenProperties
<1>2. NotOlder(stream[j + d], stream[k + d])
  BY <1>1 DEF StreamInv
<1>3. CASE stream'[j] = Garbage \/ stream'[k] = Garbage
  BY <1>3 DEF NotOlder, SpeaksOf, Garbage
<1>4. CASE stream'[j] = stream[j + d] /\ stream'[k] = stream[k + d]
  BY <1>2, <1>4
<1> QED BY <1>3, <1>4

\* A step that hands over no status keeps the lines that were on their way.
LEMMA LinesStay ==
  ASSUME TypeOK, BatchInv, StreamInv, UNCHANGED status,
         DOMAIN batches \subseteq DOMAIN batches', watched \subseteq watched',
         \A s \in Spk : version[s] <= version'[s] /\ version'[s] \in Nat
  PROVE  /\ \A k \in DOMAIN stream : LineInv(stream[k]) /\ \A l : l = stream[k] => LineInv(l)'
         /\ LineInv(Garbage)'
<1>1. \A k \in DOMAIN stream : stream[k] \in Line /\ LineInv(stream[k])
  BY ElementOfSeq, LenProperties DEF TypeOK, StreamInv
<1>2. \A l \in Line : LineInv(l) => LineInv(l)'
  BY LineStays
<1>3. LineInv(Garbage)'
  BY DEF LineInv, Garbage, SpeaksOf
<1> QED BY <1>1, <1>2, <1>3

LEMMA StreamNext ==
  ASSUME TypeOK, BatchInv, StreamInv, [Next]_vars
  PROVE  StreamInv'
<1> USE DEF consumerVars, serverVars
<1> DEFINE Grows == /\ UNCHANGED status
                    /\ DOMAIN batches \subseteq DOMAIN batches' /\ watched \subseteq watched'
                    /\ \A s \in Spk : version[s] <= version'[s] /\ version'[s] \in Nat
<1>0. UNCHANGED version => \A s \in Spk : version[s] <= version'[s] /\ version'[s] \in Nat
  BY DEF TypeOK
<1>1. CASE Grows /\ stream' = stream
  BY <1>1, LinesStay DEF StreamInv, NotOlder, SpeaksOf, SaidOf
<1>2. CASE TakeRequest
  <2>1. UNCHANGED <<stream, status, version>>
    BY <1>2 DEF TakeRequest
  <2>2. DOMAIN batches \subseteq DOMAIN batches' /\ watched \subseteq watched'
    <3>1. ASSUME NEW r \in Batch, Register(r)
          PROVE  DOMAIN batches \subseteq DOMAIN batches' /\ watched \subseteq watched'
      <4>1. /\ DOMAIN batches' = 1..(Len(batches) + 1) /\ Len(batches) \in Nat
            /\ DOMAIN batches = 1..Len(batches) /\ watched \subseteq watched'
        BY <3>1, RegisterType
      <4> QED BY <4>1
    <3> QED BY <1>2, <3>1, TakeRequestType
  <2> QED BY <1>0, <1>1, <2>1, <2>2
<1>3. ASSUME NEW n \in 0..Len(stream), Receive(n) PROVE StreamInv'
  <2> DEFINE l == Head(stream)
  <2>1. /\ stream' \in Seq(Line) /\ 1 \in DOMAIN stream /\ l = stream[1]
        /\ \A k \in DOMAIN stream' : /\ k + n + 1 \in DOMAIN stream /\ 1 < k + n + 1
                                     /\ stream'[k] = Garbage \/ stream'[k] = stream[k + n + 1]
    BY <1>3, ReadEffect DEF Receive
  <2>2. l \in Line /\ LineInv(l)
    BY <1>3, ReadLine DEF Receive
  <2>3. n + 1 \in Nat /\ \A k \in DOMAIN stream' : k \in Nat /\ k + n + 1 = k + (n + 1)
    BY <2>1, LenProperties
  <2>4. \A j, k \in DOMAIN stream' : j < k => NotOlder(stream[j], stream[k])'
    BY <2>1, <2>3, StreamCut
  <2>5. UNCHANGED <<batches, watched, version>>
    BY <1>3 DEF Receive
  <2>6. \A s \in Spk : \/ status'[s] = status[s]
                       \/ SpeaksOf(l, s) /\ status'[s] = SaidOf(l, s)
    BY <1>3, <2>2, StatusesType DEF Receive
  <2>7. ASSUME NEW m, LineInv(m), NotOlder(l, m) PROVE LineInv(m)'
    BY <2>5, <2>6, <2>7 DEF LineInv, NotOlder, SpeaksOf, SaidOf
  <2>8. LineInv(Garbage)'
    BY DEF LineInv, Garbage, SpeaksOf
  <2>9. \A k \in DOMAIN stream' : LineInv(stream[k])'
    <3> SUFFICES ASSUME NEW k \in DOMAIN stream' PROVE LineInv(stream[k])'
      OBVIOUS
    <3>1. LineInv(stream[k + n + 1]) /\ NotOlder(l, stream[k + n + 1])
      BY <2>1 DEF StreamInv
    <3> PICK m : m = stream'[k]
      OBVIOUS
    <3>2. LineInv(m)'
      BY <2>1, <2>7, <2>8, <3>1
    <3> QED BY <3>2
  <2> QED BY <2>4, <2>9 DEF StreamInv
<1>4. ASSUME NEW n \in 0..Len(stream), ReceivePanics(n) \/ ReceiveGarbage(n) PROVE StreamInv'
  <2>1. /\ stream' \in Seq(Line)
        /\ \A k \in DOMAIN stream' : /\ k + n + 1 \in DOMAIN stream
                                     /\ stream'[k] = Garbage \/ stream'[k] = stream[k + n + 1]
    BY <1>4, ReadEffect DEF ReceivePanics, ReceiveGarbage
  <2>2. n + 1 \in Nat /\ \A k \in DOMAIN stream' : k \in Nat /\ k + n + 1 = k + (n + 1)
    BY <2>1, LenProperties
  <2>3. \A j, k \in DOMAIN stream' : j < k => NotOlder(stream[j], stream[k])'
    BY <2>1, <2>2, StreamCut
  <2>4. UNCHANGED <<batches, watched, version, status>>
    BY <1>4 DEF ReceivePanics, ReceiveGarbage, Complain
  <2>5. /\ \A k \in DOMAIN stream : \A l : l = stream[k] => LineInv(l)'
        /\ LineInv(Garbage)'
    BY <1>0, <2>4, LinesStay
  <2>6. \A k \in DOMAIN stream' : LineInv(stream[k])'
    <3> SUFFICES ASSUME NEW k \in DOMAIN stream' PROVE LineInv(stream[k])'
      OBVIOUS
    <3> PICK m : m = stream'[k]
      OBVIOUS
    <3>1. LineInv(m)'
      BY <2>1, <2>5
    <3> QED BY <3>1
  <2> QED BY <2>3, <2>6 DEF StreamInv
<1>5. ASSUME NEW l \in Line, stream' = Append(stream, l), LineInv(l)', Grows,
             \A s \in Spk : SpeaksOf(l, s) => version[s] <= SaidOf(l, s)
      PROVE  StreamInv'
  <2>1. /\ \A k \in DOMAIN stream' : stream'[k] = l \/ \E j \in DOMAIN stream : stream'[k] = stream[j]
        /\ \A j, k \in DOMAIN stream' : j < k => NotOlder(stream'[j], stream'[k])
    BY <1>5, StreamAppend
  <2>2. \A k \in DOMAIN stream : \A m : m = stream[k] => LineInv(m)'
    BY <1>5, LinesStay
  <2>3. \A k \in DOMAIN stream' : LineInv(stream[k])'
    <3> SUFFICES ASSUME NEW k \in DOMAIN stream' PROVE LineInv(stream[k])'
      OBVIOUS
    <3> PICK m : m = stream'[k]
      OBVIOUS
    <3>1. LineInv(m)'
      BY <1>5, <2>1, <2>2
    <3> QED BY <3>1
  <2>4. \A j, k \in DOMAIN stream' : j < k => NotOlder(stream[j], stream[k])'
    BY <2>1 DEF NotOlder, SpeaksOf, SaidOf
  <2> QED BY <2>3, <2>4 DEF StreamInv
<1>6. CASE ServerAnswers
  <2> DEFINE b == Head(wire)
  <2>1. b \in Nat /\ b \in DOMAIN batches
    <3>1. wire \in Seq(Nat) /\ wire # << >>
      BY <1>6 DEF ServerAnswers, TypeOK
    <3>2. 1 \in DOMAIN wire /\ b = wire[1]
      BY <3>1, LenProperties, EmptySeq
    <3> QED BY <3>1, <3>2, LenProperties DEF BatchInv, TypeOK
  <2>2. batches[b].of \subseteq Spk
    <3>1. batches[b] \in Batch
      BY <2>1, ElementOfSeq, LenProperties DEF TypeOK
    <3> QED BY <3>1 DEF Batch
  <2>3. PICK bad \in SUBSET batches[b].of :
          stream' = Append(stream, Answer(b, bad)) \/ stream' = Append(stream, Garbage)
    BY <1>6 DEF ServerAnswers
  <2>4. UNCHANGED <<batches, watched, version, status>>
    BY <1>6 DEF ServerAnswers
  <2>5. Grows
    BY <1>0, <2>4
  <2>6. Answer(b, bad) \in Line /\ Garbage \in Line
    BY <2>1, <2>2 DEF Answer, Garbage, Line, TypeOK
  <2>7. CASE stream' = Append(stream, Answer(b, bad))
    <3> PICK m \in Line : m = Answer(b, bad)
      BY <2>6
    <3>1. LineInv(m)' /\ \A s \in Spk : version[s] <= SaidOf(m, s)
      <4>1. m.type = "Answer" /\ m.batch = b /\ m.status = version
        BY DEF Answer
      <4>2. LineInv(m) /\ \A s \in Spk : version[s] <= SaidOf(m, s)
        <5>1. version \in [Spk -> Nat] /\ \A s \in Spk : status[s] <= version[s]
          BY DEF BatchInv, TypeOK
        <5>2. \A s \in Spk : SaidOf(m, s) = version[s]
          BY <4>1 DEF SaidOf
        <5> QED BY <2>1, <4>1, <5>1, <5>2 DEF LineInv
      <4> QED BY <2>5, <4>2, LineStays
    <3> QED BY <1>5, <2>5, <2>7, <3>1
  <2>8. CASE stream' = Append(stream, Garbage)
    <3>1. LineInv(Garbage)' /\ \A s \in Spk : ~SpeaksOf(Garbage, s)
      BY DEF LineInv, Garbage, SpeaksOf
    <3> QED BY <1>5, <2>5, <2>6, <2>8, <3>1
  <2> QED BY <2>3, <2>7, <2>8
<1>7. ASSUME NEW s \in Spk, Change(s) PROVE StreamInv'
  <2>1. UNCHANGED <<batches, watched, status>>
    BY <1>7 DEF Change
  <2>2. /\ version' \in [Spk -> Nat] /\ \A x \in Spk : version[x] <= version'[x]
    BY <1>7 DEF Change, TypeOK
  <2>3. Grows
    BY <2>1, <2>2
  <2>4. CASE stream' = stream
    BY <1>1, <2>3, <2>4
  <2>5. CASE s \in subscribed /\ stream' = Append(stream, Notification(s))
    <3> PICK m \in Line : m = Notification(s)
      BY <2>2 DEF Notification, Line
    <3>1. m.type = "Notification" /\ m.of = s /\ m.status = version'[s]
      BY DEF Notification
    <3>2. s \in watched /\ status[s] <= version[s] /\ status[s] \in Nat /\ version[s] \in Nat
      BY <2>5 DEF BatchInv, TypeOK
    <3>3. LineInv(m)'
      BY <2>1, <2>2, <3>1, <3>2 DEF LineInv, SpeaksOf, SaidOf
    <3>4. \A x \in Spk : SpeaksOf(m, x) => version[x] <= SaidOf(m, x)
      BY <2>2, <3>1 DEF SpeaksOf, SaidOf
    <3> QED BY <1>5, <2>3, <2>5, <3>3, <3>4
  <2> QED BY <1>7, <2>4, <2>5 DEF Change
<1>8. CASE LinkDies
  <2>1. PICK n \in 0..Len(stream) : stream' = SubSeq(stream, 1, n)
    BY <1>8 DEF LinkDies
  <2>2. stream \in Seq(Line) /\ Len(stream) \in Nat /\ n \in Nat /\ n <= Len(stream)
        /\ DOMAIN stream = 1..Len(stream)
    BY <2>1, LenProperties DEF TypeOK
  <2>3. \A i \in 1..n : stream[i] \in Line
    BY <2>2, ElementOfSeq
  <2>4. /\ stream' \in Seq(Line) /\ Len(stream') = n
        /\ \A i \in 1..n : stream'[i] = stream[i]
    BY <2>1, <2>2, <2>3, SubSeqProperties
  <2>5. \A k \in DOMAIN stream' : k + 0 \in DOMAIN stream /\ stream'[k] = stream[k + 0]
    BY <2>2, <2>4, LenProperties
  <2>6. \A j, k \in DOMAIN stream' : j < k => NotOlder(stream[j], stream[k])'
    BY <2>4, <2>5, StreamCut
  <2>7. UNCHANGED <<batches, watched, version, status>>
    BY <1>8 DEF LinkDies
  <2>8. \A k \in DOMAIN stream : \A l : l = stream[k] => LineInv(l)'
    BY <1>0, <2>7, LinesStay
  <2>9. \A k \in DOMAIN stream' : LineInv(stream[k])'
    <3> SUFFICES ASSUME NEW k \in DOMAIN stream' PROVE LineInv(stream[k])'
      OBVIOUS
    <3> PICK m : m = stream'[k]
      OBVIOUS
    <3>1. k \in DOMAIN stream /\ m = stream[k]
      BY <2>2, <2>4, LenProperties
    <3>2. LineInv(m)'
      BY <2>8, <3>1
    <3> QED BY <3>2
  <2> QED BY <2>6, <2>9 DEF StreamInv
<1>9. CASE \/ (\E r \in Request : Demand(r)) \/ Leave \/ SendBatch \/ SendFails \/ TakeStop
           \/ NoRequest \/ ReadFails \/ NothingToRead \/ UNCHANGED vars
  <2>1. UNCHANGED <<stream, batches, watched, version, status>>
    BY <1>9 DEF Demand, Leave, SendBatch, SendFails, TakeStop, NoRequest, ReadFails,
                NothingToRead, Complain, vars
  <2> QED BY <1>0, <1>1, <2>1
<1> QED BY <1>2, <1>3, <1>4, <1>6, <1>7, <1>8, <1>9 DEF Next, Listen

-----------------------------------------------------------------------------
(* Histories                                                               *)

\* Handing over the histories of a set adds each of them once at the end.
LEMMA HandOver ==
  ASSUME TypeOK, NEW H \in SUBSET (Nat \X Spk), IsFiniteSet(H), NEW q,
         q = histories \o SetToSeq(H)
  PROVE  /\ Len(q) >= Len(histories)
         /\ \A k \in DOMAIN histories : q[k] = histories[k]
         /\ \A k \in DOMAIN q : q[k] \in H \/ (k \in DOMAIN histories /\ q[k] = histories[k])
         /\ \A j, k \in DOMAIN q : q[j] = q[k] => \/ j = k
                                                  \/ j \in DOMAIN histories
                                                  \/ k \in DOMAIN histories
         /\ H = {} => q = histories
<1> DEFINE t == SetToSeq(H)
           n == Len(histories)
<1>1. /\ t \in Seq(Nat \X Spk) /\ \A k \in DOMAIN t : t[k] \in H
      /\ \A j, k \in DOMAIN t : t[j] = t[k] => j = k
  BY SetToSeqOnce
<1>2. H = {} => t = << >>
  BY SetToSeqEmpty
<1> HIDE DEF t
<1>3. /\ histories \in Seq(Nat \X Spk) /\ n \in Nat /\ DOMAIN histories = 1..n
      /\ Len(t) \in Nat /\ DOMAIN t = 1..Len(t)
  BY <1>1, LenProperties DEF TypeOK
<1>4. /\ q \in Seq(Nat \X Spk) /\ Len(q) = n + Len(t)
      /\ \A i \in 1..(n + Len(t)) : q[i] = IF i <= n THEN histories[i] ELSE t[i - n]
  BY <1>1, <1>3, ConcatProperties DEF t
<1>5. DOMAIN q = 1..(n + Len(t))
  BY <1>4, LenProperties
<1>6. \A k \in DOMAIN q : \/ k \in DOMAIN histories /\ q[k] = histories[k]
                          \/ k - n \in DOMAIN t /\ q[k] = t[k - n] /\ k \in Int
  BY <1>3, <1>4, <1>5
<1>7. \A k \in DOMAIN histories : q[k] = histories[k]
  BY <1>3, <1>4
<1>8. ASSUME NEW j \in DOMAIN q, NEW k \in DOMAIN q, q[j] = q[k],
             j \notin DOMAIN histories, k \notin DOMAIN histories
      PROVE  j = k
  <2>1. j - n = k - n /\ j \in Int /\ k \in Int
    BY <1>1, <1>6, <1>8
  <2> QED BY <1>3, <2>1
<1>9. H = {} => q = histories
  BY <1>2, <1>3, ConcatEmptySeq DEF t
<1>10. Len(q) >= Len(histories)
  BY <1>3, <1>4
<1>11. \A k \in DOMAIN q : q[k] \in H \/ (k \in DOMAIN histories /\ q[k] = histories[k])
  BY <1>1, <1>6, Zenon
<1>12. \A j, k \in DOMAIN q : q[j] = q[k] => \/ j = k
                                             \/ j \in DOMAIN histories
                                             \/ k \in DOMAIN histories
  BY <1>8, Zenon
<1> QED BY <1>7, <1>9, <1>10, <1>11, <1>12, Zenon

\* A line is processed to its end when all its histories are still open.
LEMMA ReceiveHistories ==
  ASSUME TypeOK, BatchInv, StreamInv, NEW n \in 0..Len(stream), Receive(n)
  PROVE  LET H == Histories(Head(stream)) IN
         /\ H \in SUBSET (Nat \X Spk) /\ IsFiniteSet(H)
         /\ open' = open \ H /\ UNCHANGED <<queried, batches>>
         /\ histories' = histories \/ (H \subseteq open /\ histories' = histories \o SetToSeq(H))
<1> DEFINE l == Head(stream)
<1>1. l \in Line /\ LineInv(l)
  BY ReadLine DEF Receive
<1>2. Histories(l) \in SUBSET (Nat \X Spk) /\ IsFiniteSet(Histories(l))
  BY <1>1, HistoriesType DEF LineInv
<1>3. /\ open' = open \ Histories(l) /\ UNCHANGED <<queried, batches>>
      /\ \/ histories' = histories
         \/ Histories(l) \subseteq open /\ histories' = histories \o SetToSeq(Histories(l))
  BY DEF Receive, MayGoOn
<1> QED BY <1>2, <1>3

LEMMA HistoryNext ==
  ASSUME TypeOK, BatchInv, StreamInv, HistoryInv, [Next]_vars
  PROVE  HistoryInv'
<1> USE DEF consumerVars, serverVars
<1>1. CASE UNCHANGED <<queried, batches, open, histories>>
  BY <1>1 DEF HistoryInv
<1>2. ASSUME NEW r \in Batch, Register(r), UNCHANGED histories PROVE HistoryInv'
  <2> DEFINE b == Len(batches) + 1
             I == Ids(b, r.of)
  <2>1. /\ DOMAIN batches' = 1..b /\ Len(batches) \in Nat /\ DOMAIN batches = 1..Len(batches)
        /\ \/ open' = open /\ queried' = queried
           \/ open' = open \cup I /\ queried' = queried \cup I
    BY <1>2, RegisterType
  <2>2. \A q \in I : q[1] = b
    BY DEF Ids
  <2>3. b \notin DOMAIN batches /\ DOMAIN batches \subseteq DOMAIN batches' /\ b \in DOMAIN batches'
    BY <2>1
  <2> HIDE DEF I, b
  <2>4. \A q \in queried : q \notin I
    BY <2>2, <2>3 DEF HistoryInv
  <2> QED BY <1>2, <2>1, <2>2, <2>3, <2>4 DEF HistoryInv
<1>3. CASE TakeRequest
  <2>1. UNCHANGED histories
    BY <1>3 DEF TakeRequest
  <2> QED BY <1>1, <1>2, <1>3, <2>1, TakeRequestType
<1>4. ASSUME NEW n \in 0..Len(stream), Receive(n) PROVE HistoryInv'
  <2> DEFINE H == Histories(Head(stream))
  <2>1. /\ H \in SUBSET (Nat \X Spk) /\ IsFiniteSet(H)
        /\ open' = open \ H /\ UNCHANGED <<queried, batches>>
        /\ histories' = histories \/ (H \subseteq open /\ histories' = histories \o SetToSeq(H))
    BY <1>4, ReceiveHistories
  <2> HIDE DEF H
  <2>2. CASE histories' = histories
    BY <2>1, <2>2 DEF HistoryInv
  <2>3. CASE H \subseteq open /\ histories' = histories \o SetToSeq(H)
    <3> PICK q : q = histories'
      OBVIOUS
    <3>1. /\ \A k \in DOMAIN q : q[k] \in H \/ (k \in DOMAIN histories /\ q[k] = histories[k])
          /\ \A j, k \in DOMAIN q : q[j] = q[k] => \/ j = k
                                                   \/ j \in DOMAIN histories
                                                   \/ k \in DOMAIN histories
          /\ \A k \in DOMAIN histories : q[k] = histories[k]
      BY <2>1, <2>3, HandOver
    <3>2. \A k \in DOMAIN histories : histories[k] \in queried /\ histories[k] \notin open
      BY DEF HistoryInv
    <3>3. \A k \in DOMAIN q : q[k] \in queried \ open'
      BY <2>1, <2>3, <3>1, <3>2 DEF HistoryInv
    <3>4. \A j, k \in DOMAIN q : j # k => q[j] # q[k]
      <4> SUFFICES ASSUME NEW j \in DOMAIN q, NEW k \in DOMAIN q, j # k, q[j] = q[k] PROVE FALSE
        OBVIOUS
      <4>1. ASSUME NEW x \in DOMAIN histories, NEW y \in DOMAIN q, x # y, q[x] = q[y] PROVE FALSE
        <5>1. q[x] = histories[x] /\ q[x] \notin H
          BY <2>3, <3>1, <3>2
        <5>2. y \in DOMAIN histories /\ q[y] = histories[y]
          BY <3>1, <4>1, <5>1
        <5> QED BY <4>1, <5>1, <5>2 DEF HistoryInv
      <4> QED BY <3>1, <4>1
    <3> QED BY <2>1, <3>3, <3>4 DEF HistoryInv
  <2> QED BY <2>1, <2>2, <2>3
<1>5. CASE \/ (\E r \in Request : Demand(r)) \/ Leave \/ SendBatch \/ SendFails \/ TakeStop
           \/ NoRequest \/ (\E n \in 0..Len(stream) : ReceivePanics(n) \/ ReceiveGarbage(n))
           \/ ReadFails \/ NothingToRead \/ ServerAnswers \/ (\E s \in Spk : Change(s))
           \/ LinkDies \/ UNCHANGED vars
  <2>1. UNCHANGED <<queried, batches, open, histories>>
    BY <1>5 DEF Demand, Leave, SendBatch, SendFails, TakeStop, NoRequest, ReceivePanics,
                ReceiveGarbage, ReadFails, NothingToRead, Complain, ServerAnswers, Change,
                LinkDies, vars
  <2> QED BY <1>1, <2>1
<1> QED BY <1>3, <1>4, <1>5 DEF Next, Listen

-----------------------------------------------------------------------------
(* The theorems                                                            *)

LEMMA ListenerInit == Init => ListenerInv
<1> SUFFICES ASSUME Init PROVE ListenerInv
  OBVIOUS
<1>1. BatchInv
  BY DEF Init, BatchInv
<1>2. StreamInv /\ HistoryInv
  BY DEF Init, StreamInv, HistoryInv
<1> QED BY <1>1, <1>2, TypeInit DEF ListenerInv

LEMMA ListenerNext == ListenerInv /\ [Next]_vars => ListenerInv'
BY TypeNext, BatchNext, StreamNext, HistoryNext DEF ListenerInv

\* The conjunction of the four parts is inductive.
LEMMA ListenerInvariant == Spec => []ListenerInv
BY ListenerInit, ListenerNext, PTL DEF Spec

\* All variables keep their types: a batch that is answered is one that was
\* registered (TakeRequest before SendBatch).
THEOREM ListenerTypes == Spec => []TypeOK
<1>1. ListenerInv => TypeOK
  BY DEF ListenerInv
<1> QED BY <1>1, ListenerInvariant, PTL

\* Every step tells the consumer statuses or histories as the service promises,
\* asks for more, or is not seen.
LEMMA WatchStep ==
  ASSUME ListenerInv, ListenerInv', [Next]_vars
  PROVE  [Watch!Next]_(Watch!watchVars)
<1> USE DEF consumerVars, serverVars
<1>1. CASE UNCHANGED <<version, watched, status, queried, histories>>
  BY <1>1 DEF Watch!watchVars
<1>2. CASE TakeRequest
  <2>1. UNCHANGED <<version, status, histories>>
    BY <1>2 DEF TakeRequest
  <2>2. ASSUME NEW r \in Batch, Register(r)
        PROVE  watched \subseteq watched' /\ watched' \subseteq Spk /\ queried \subseteq queried'
    BY <2>2, RegisterType DEF ListenerInv
  <2>3. \/ UNCHANGED <<watched, queried>>
        \/ watched \subseteq watched' /\ watched' \subseteq Spk /\ queried \subseteq queried'
    BY <1>2, <2>2, TakeRequestType DEF ListenerInv
  <2> QED BY <1>1, <2>1, <2>3 DEF Watch!Next, Watch!Ask
<1>3. ASSUME NEW n \in 0..Len(stream), Receive(n) PROVE [Watch!Next]_(Watch!watchVars)
  <2> DEFINE l == Head(stream)
             H == Histories(l)
  <2>1. l \in Line /\ LineInv(l)
    BY <1>3, ReadLine DEF Receive, ListenerInv
  <2>2. /\ H \in SUBSET (Nat \X Spk) /\ IsFiniteSet(H)
        /\ histories' = histories \/ histories' = histories \o SetToSeq(H)
    BY <1>3, ReceiveHistories DEF ListenerInv
  <2>3. /\ \A s \in DOMAIN Statuses(l) : s \in watched /\ Statuses(l)[s] = SaidOf(l, s) /\ SpeaksOf(l, s)
        /\ H # {} => DOMAIN Statuses(l) = {}
    BY <2>1, StatusesType DEF ListenerInv
  <2>4. UNCHANGED <<version, watched, queried>>
    BY <1>3 DEF Receive
  <2>5. /\ status' \in [Spk -> Nat] /\ status \in [Spk -> Nat]
        /\ \A s \in Spk : \/ status'[s] = status[s]
                          \/ s \in DOMAIN Statuses(l) /\ status'[s] = Statuses(l)[s]
    BY <1>3 DEF Receive, ListenerInv, TypeOK
  <2>6. CASE H = {}
    <3>1. histories' = histories
      BY <2>2, <2>6, HandOver DEF ListenerInv
    <3>2. ASSUME NEW s \in Spk, status'[s] # status[s]
          PROVE  s \in watched /\ status[s] < status'[s] /\ status'[s] <= version[s]
      <4>1. s \in watched /\ SpeaksOf(l, s) /\ status'[s] = SaidOf(l, s)
        BY <2>3, <2>5, <3>2
      <4>2. status[s] <= status'[s] /\ status'[s] <= version[s]
        BY <2>1, <4>1 DEF LineInv
      <4> QED BY <2>5, <3>2, <4>1, <4>2
    <3> QED BY <2>4, <2>5, <3>1, <3>2 DEF Watch!Next, Watch!Tell
  <2>7. CASE H # {}
    <3>1. status' = status
      BY <2>3, <2>5, <2>7
    <3>2. /\ Len(histories') >= Len(histories)
          /\ \A k \in DOMAIN histories : histories'[k] = histories[k]
      <4>1. CASE histories' = histories
        BY <4>1, LenProperties DEF ListenerInv, TypeOK
      <4>2. CASE histories' = histories \o SetToSeq(H)
        BY <2>2, <4>2, HandOver DEF ListenerInv
      <4> QED BY <2>2, <4>1, <4>2
    <3>3. /\ \A k \in DOMAIN histories' : histories'[k] \in queried
          /\ \A j, k \in DOMAIN histories' : j # k => histories'[j] # histories'[k]
      BY <2>4 DEF ListenerInv, HistoryInv
    <3> QED BY <2>4, <3>1, <3>2, <3>3 DEF Watch!Next, Watch!Give
  <2> QED BY <2>6, <2>7
<1>4. ASSUME NEW s \in Spk, Change(s) PROVE [Watch!Next]_(Watch!watchVars)
  BY <1>4 DEF Change, Watch!Next, Watch!Change
<1>5. CASE \/ (\E r \in Request : Demand(r)) \/ Leave \/ SendBatch \/ SendFails \/ TakeStop
           \/ NoRequest \/ (\E n \in 0..Len(stream) : ReceivePanics(n) \/ ReceiveGarbage(n))
           \/ ReadFails \/ NothingToRead \/ ServerAnswers \/ LinkDies \/ UNCHANGED vars
  <2>1. UNCHANGED <<version, watched, status, queried, histories>>
    BY <1>5 DEF Demand, Leave, SendBatch, SendFails, TakeStop, NoRequest, ReceivePanics,
                ReceiveGarbage, ReadFails, NothingToRead, Complain, ServerAnswers,
                LinkDies, vars
  <2> QED BY <1>1, <2>1
<1> QED BY <1>2, <1>3, <1>4, <1>5 DEF Next, Listen

\* The listener is the service: the consumer is told true statuses of the scripts
\* it watches, never an older one after a newer, and no history twice, whatever
\* comes between a request and its answer, is sent again or is lost by the
\* reader (Receive, raw_read).
THEOREM ListenerIsService == Spec => ImplementsWatch
<1>1. Init => Watch!Init
  BY DEF Init, Watch!Init
<1>2. ListenerInv /\ ListenerInv' /\ [Next]_vars => [Watch!Next]_(Watch!watchVars)
  BY WatchStep
<1> QED BY <1>1, <1>2, ListenerInvariant, PTL DEF Spec, ImplementsWatch, Watch!Spec
-----------------------------------------------------------------------------
(* One request at a time                                                   *)

\* The last request is on its way to the server, or its answer is on its way
\* back, or neither; whoever waits for a history has an entry in
\* reqid_spk_map.
LastRequestInv ==
  /\ \A k \in DOMAIN wire : wire[k] \in pending
  /\ \A k \in Answers : stream[k].batch \in pending
  /\ Len(wire) <= 1
  /\ wire # << >> => Answers = {}
  /\ \A j, k \in Answers : j = k
  /\ thread = "sending" => wire = << >> /\ Answers = {} /\ pending = {Len(batches)}
  /\ \A b \in pending : batches[b].kind = "History" => Ids(b, batches[b].of) \subseteq open

\* So it is until a batch is sent again.
RequestInv == (~resent => LastRequestInv) /\ NoPanicUndisturbed

\* Nothing is on its way when the last request is answered.
LEMMA NothingPending ==
  ASSUME TypeOK, LastRequestInv, pending = {}
  PROVE  wire = << >> /\ Answers = {}
<1>1. wire \in Seq(Nat) /\ DOMAIN wire = {}
  BY DEF LastRequestInv, TypeOK
<1> QED BY <1>1, LenProperties, EmptySeq DEF LastRequestInv

\* The answers that are left when lines at either end are lost, and others cut.
LEMMA AnswersCut ==
  ASSUME TypeOK, stream' \in Seq(Line), NEW d \in Nat,
         \A k \in DOMAIN stream' : /\ k + d \in DOMAIN stream
                                   /\ stream'[k] = Garbage \/ stream'[k] = stream[k + d]
  PROVE  /\ \A k \in Answers' : k \in Nat /\ k + d \in Answers /\ stream'[k] = stream[k + d]
         /\ (\A j, k \in Answers : j = k) => \A j, k \in Answers' : j = k
<1>1. \A k \in Answers' : k \in Nat /\ k + d \in Answers /\ stream'[k] = stream[k + d]
  BY LenProperties DEF Answers, Garbage
<1>2. ASSUME \A j, k \in Answers : j = k, NEW j \in Answers', NEW k \in Answers'
      PROVE  j = k
  <2>1. j \in Nat /\ k \in Nat /\ j + d \in Answers /\ k + d \in Answers
    BY <1>1
  <2>2. j + d = k + d
    BY <1>2, <2>1, Zenon
  <2> QED BY <2>1, <2>2
<1> QED BY <1>1, <1>2, Zenon

\* A step that only loses lines keeps the last request's place.
LEMMA LastRequestCut ==
  ASSUME TypeOK, LastRequestInv, stream' \in Seq(Line), NEW d \in Nat,
         \A k \in DOMAIN stream' : /\ k + d \in DOMAIN stream
                                   /\ stream'[k] = Garbage \/ stream'[k] = stream[k + d],
         wire' = wire \/ wire' = << >>, thread' = "sending" => thread = "sending",
         UNCHANGED <<batches, pending, open>>
  PROVE  LastRequestInv'
<1>1. /\ \A k \in Answers' : k \in Nat /\ k + d \in Answers /\ stream'[k] = stream[k + d]
      /\ (\A j, k \in Answers : j = k) => \A j, k \in Answers' : j = k
  BY AnswersCut
<1>2. \A k \in Answers' : stream'[k].batch \in pending'
  BY <1>1 DEF LastRequestInv
<1>3. Answers = {} => Answers' = {}
  BY <1>1
<1>4. Len(wire') <= 1 /\ (\A k \in DOMAIN wire' : wire'[k] \in pending')
      /\ (wire' # << >> => wire # << >>) /\ (wire = << >> => wire' = << >>)
  BY EmptySeq DEF LastRequestInv
<1>5. wire' # << >> => Answers' = {}
  BY <1>3, <1>4 DEF LastRequestInv
<1>6. \A j, k \in Answers' : j = k
  BY <1>1 DEF LastRequestInv
<1>7. thread' = "sending" => wire' = << >> /\ Answers' = {} /\ pending' = {Len(batches')}
  BY <1>3, <1>4 DEF LastRequestInv
<1>8. \A b \in pending' : batches'[b].kind = "History" => Ids(b, batches'[b].of) \subseteq open'
  BY DEF LastRequestInv
<1> QED BY <1>2, <1>4, <1>5, <1>6, <1>7, <1>8 DEF LastRequestInv

\* Without anything sent again the line read answers the last request, or nothing
\* is pending and it notifies.
LEMMA LineRead ==
  ASSUME ListenerInv, LastRequestInv, NEW n \in 0..Len(stream), Read(n),
         Head(stream).type # "Garbage", Resend(Head(stream)), ~resent'
  PROVE  LET l == Head(stream) IN
         /\ ~Unanswered(l) /\ wire' = wire /\ Histories(l) \subseteq open
         /\ l.type = "Answer" => Matches(l) /\ 1 \in Answers
         /\ l.type # "Answer" => pending = {}
<1> DEFINE l == Head(stream)
<1>1. /\ 1 \in DOMAIN stream /\ l = stream[1] /\ l \in Line
  BY ReadEffect DEF ListenerInv
<1>2. ~Unanswered(l) /\ wire' = wire
  BY DEF Resend, Resends
<1>3. l.type = "Answer" => 1 \in Answers /\ l.batch \in pending /\ Matches(l)
  <2> SUFFICES ASSUME l.type = "Answer" PROVE 1 \in Answers /\ l.batch \in pending /\ Matches(l)
    OBVIOUS
  <2>1. 1 \in Answers
    BY <1>1 DEF Answers
  <2>2. stream[1].batch \in pending
    BY <2>1 DEF LastRequestInv
  <2> QED BY <1>1, <2>1, <2>2 DEF Matches
<1>4. l.type # "Answer" => pending = {}
  BY <1>2 DEF Unanswered, Matches
<1>5. Histories(l) \subseteq open
  <2>1. CASE l.type = "Answer" /\ batches[l.batch].kind = "History"
    <3>1. Histories(l) = Ids(l.batch, batches[l.batch].of \ l.bad)
      BY <2>1 DEF Histories
    <3>2. Ids(l.batch, batches[l.batch].of) \subseteq open
      BY <1>3, <2>1 DEF LastRequestInv
    <3> QED BY <3>1, <3>2 DEF Ids
  <2>2. CASE ~(l.type = "Answer" /\ batches[l.batch].kind = "History")
    BY <2>2 DEF Histories
  <2> QED BY <2>1, <2>2
<1> QED BY <1>2, <1>3, <1>4, <1>5

\* Registering a request makes it the last one.
LEMMA RegisterLast ==
  ASSUME ListenerInv, LastRequestInv, pending = {}, NEW r \in Batch, Register(r),
         UNCHANGED <<wire, stream>>
  PROVE  LastRequestInv'
<1> DEFINE b == Len(batches) + 1
<1>1. /\ batches' = Append(batches, r) /\ batches'[b] = r /\ pending' = {b} /\ thread' = "sending"
      /\ b \in Nat
  BY RegisterType DEF ListenerInv, Register
<1>2. wire' = << >> /\ Answers' = {} /\ Answers = {}
  BY NothingPending DEF ListenerInv, Answers
<1>3. Len(batches') = b
  BY <1>1, AppendProperties DEF ListenerInv, TypeOK
<1>4. r.kind = "History" => Ids(b, r.of) \subseteq open'
  BY DEF Register
<1>5. Len(wire') = 0 /\ DOMAIN wire' = {}
  BY <1>2
<1> QED BY <1>1, <1>2, <1>3, <1>4, <1>5 DEF LastRequestInv

LEMMA LastRequestNext ==
  ASSUME ListenerInv, ListenerInv', LastRequestInv, [Next]_vars, ~resent'
  PROVE  LastRequestInv'
<1> USE DEF consumerVars, serverVars
<1>0. TypeOK /\ BatchInv /\ TypeOK'
  BY DEF ListenerInv
<1>1. CASE TakeRequest
  <2>1. UNCHANGED <<wire, stream>> /\ pending = {}
    BY <1>1 DEF TakeRequest
  <2>2. ASSUME thread' = "responses", UNCHANGED <<batches, pending, watched, open, queried>>
        PROVE  LastRequestInv'
    BY <2>1, <2>2 DEF LastRequestInv, Answers
  <2> QED BY <1>0, <1>1, <2>1, <2>2, TakeRequestType, RegisterLast
<1>2. CASE SendBatch
  <2>1. /\ wire = << >> /\ Answers = {} /\ pending = {Len(batches)}
        /\ wire' = wire \/ wire' = Append(wire, Len(batches))
        /\ thread' # "sending" /\ UNCHANGED <<batches, pending, stream, open>>
    BY <1>2 DEF SendBatch, LastRequestInv
  <2>2. Len(batches) \in Nat
    BY <1>0, LenProperties DEF TypeOK
  <2>3. /\ Append(wire, Len(batches)) = <<Len(batches)>>
        /\ Len(<<Len(batches)>>) = 1 /\ \A k \in DOMAIN <<Len(batches)>> : <<Len(batches)>>[k] = Len(batches)
    BY <2>1, <2>2
  <2>4. Len(wire') <= 1 /\ \A k \in DOMAIN wire' : wire'[k] \in pending
    <3>1. CASE wire' = << >>
      BY <3>1
    <3>2. CASE wire' = <<Len(batches)>>
      BY <2>1, <2>3, <3>2
    <3> QED BY <2>1, <2>3, <3>1, <3>2
  <2>5. Answers' = {}
    BY <2>1 DEF Answers
  <2> QED BY <2>1, <2>4, <2>5 DEF LastRequestInv
<1>3. ASSUME NEW n \in 0..Len(stream), Receive(n) PROVE LastRequestInv'
  <2> DEFINE l == Head(stream)
  <2>1. /\ Read(n) /\ l.type # "Garbage" /\ Resend(l)
        /\ pending' = IF Matches(l) THEN {} ELSE pending
        /\ thread' # "sending" /\ UNCHANGED batches
        /\ open' = open \ Histories(l)
    BY <1>3 DEF Receive
  <2>2. /\ wire' = wire
        /\ l.type = "Answer" => Matches(l) /\ 1 \in Answers
        /\ l.type # "Answer" => pending = {}
    BY <2>1, LineRead
  <2>3. /\ stream' \in Seq(Line) /\ n + 1 \in Nat
        /\ \A k \in DOMAIN stream' : /\ k + (n + 1) \in DOMAIN stream /\ 1 < k + (n + 1)
                                     /\ stream'[k] = Garbage \/ stream'[k] = stream[k + (n + 1)]
    <3>1. /\ stream' \in Seq(Line)
          /\ \A k \in DOMAIN stream' : /\ k + n + 1 \in DOMAIN stream /\ 1 < k + n + 1
                                       /\ stream'[k] = Garbage \/ stream'[k] = stream[k + n + 1]
      BY <1>0, <2>1, ReadEffect
    <3>2. n + 1 \in Nat /\ \A k \in DOMAIN stream' : k \in Nat /\ k + n + 1 = k + (n + 1)
      BY <3>1, LenProperties
    <3> QED BY <3>1, <3>2
  <2>4. \A k \in Answers' : k \in DOMAIN stream' /\ k + (n + 1) \in Answers
    BY <1>0, <2>3, AnswersCut DEF Answers
  <2>5. pending' = {}
    BY <2>1, <2>2
  <2>6. Answers' = {}
    <3>1. CASE l.type = "Answer"
      <4>1. \A k \in Answers' : k + (n + 1) = 1 /\ 1 < k + (n + 1)
        BY <2>2, <2>3, <2>4, <3>1 DEF LastRequestInv
      <4> QED BY <4>1
    <3>2. CASE l.type # "Answer"
      BY <1>0, <2>2, <2>4, <3>2, NothingPending
    <3> QED BY <3>1, <3>2
  <2>7. wire' = << >>
    <3>1. CASE l.type = "Answer"
      BY <2>2, <3>1 DEF LastRequestInv
    <3>2. CASE l.type # "Answer"
      BY <1>0, <2>2, <3>2, NothingPending
    <3> QED BY <3>1, <3>2
  <2>8. Len(wire') <= 1 /\ DOMAIN wire' = {}
    BY <2>7
  <2> QED BY <2>1, <2>5, <2>6, <2>7, <2>8 DEF LastRequestInv
<1>4. ASSUME NEW n \in 0..Len(stream), ReceivePanics(n) \/ ReceiveGarbage(n)
      PROVE  LastRequestInv'
  <2>1. /\ stream' \in Seq(Line) /\ n + 1 \in Nat
        /\ \A k \in DOMAIN stream' : /\ k + (n + 1) \in DOMAIN stream
                                     /\ stream'[k] = Garbage \/ stream'[k] = stream[k + (n + 1)]
    <3>1. /\ stream' \in Seq(Line)
          /\ \A k \in DOMAIN stream' : /\ k + n + 1 \in DOMAIN stream
                                       /\ stream'[k] = Garbage \/ stream'[k] = stream[k + n + 1]
      BY <1>0, <1>4, ReadEffect DEF ReceivePanics, ReceiveGarbage
    <3>2. n + 1 \in Nat /\ \A k \in DOMAIN stream' : k \in Nat /\ k + n + 1 = k + (n + 1)
      BY <3>1, LenProperties
    <3> QED BY <3>1, <3>2
  <2>2. UNCHANGED <<batches, pending, open>> /\ thread' # "sending"
    BY <1>4 DEF ReceivePanics, ReceiveGarbage, Complain
  <2>3. wire' = wire
    <3>1. CASE ReceivePanics(n)
      BY <3>1, LineRead DEF ReceivePanics
    <3>2. CASE ReceiveGarbage(n)
      BY <3>2 DEF ReceiveGarbage, Complain
    <3> QED BY <1>4, <3>1, <3>2
  <2> QED BY <1>0, <2>1, <2>2, <2>3, LastRequestCut
<1>5. CASE ServerAnswers
  <2> DEFINE b == Head(wire)
  <2>1. /\ wire \in Seq(Nat) /\ wire # << >> /\ wire' = Tail(wire) /\ Answers = {}
        /\ thread # "sending" /\ UNCHANGED <<thread, batches, pending, open>>
    BY <1>0, <1>5 DEF ServerAnswers, TypeOK, LastRequestInv
  <2>2. Len(wire) = 1 /\ DOMAIN wire = 1..Len(wire) /\ b = wire[1]
    <3>1. Len(wire) \in Nat /\ DOMAIN wire = 1..Len(wire) /\ Len(wire) <= 1
      BY <2>1, LenProperties DEF LastRequestInv
    <3>2. Len(wire) # 0
      BY <2>1, EmptySeq
    <3> QED BY <2>1, <3>1, <3>2
  <2>3. wire' \in Seq(Nat) /\ Len(wire') = 0
    BY <2>1, <2>2, HeadTailProperties
  <2>4. wire' = << >> /\ DOMAIN wire' = {}
    BY <2>3, LenProperties, EmptySeq
  <2>5. b \in pending /\ b \in DOMAIN batches
    BY <1>0, <2>2 DEF LastRequestInv, BatchInv
  <2>6. batches[b].of \subseteq Spk /\ b \in Nat
    <3>1. batches[b] \in Batch
      BY <1>0, <2>5, ElementOfSeq, LenProperties DEF TypeOK
    <3> QED BY <1>0, <2>5, <3>1 DEF Batch, TypeOK
  <2>7. PICK bad \in SUBSET batches[b].of :
          stream' = Append(stream, Answer(b, bad)) \/ stream' = Append(stream, Garbage)
    BY <1>5 DEF ServerAnswers
  <2>8. PICK m : (m = Answer(b, bad) \/ m = Garbage) /\ stream' = Append(stream, m)
    BY <2>7
  <2>9. m \in Line /\ (m.type = "Answer" => m.batch = b)
    <3>1. version \in [Spk -> Nat] /\ bad \subseteq Spk
      BY <1>0, <2>6 DEF TypeOK
    <3>2. Answer(b, bad) \in Line /\ Answer(b, bad).batch = b
      BY <2>6, <3>1 DEF Answer, Line
    <3>3. Garbage \in Line /\ Garbage.type # "Answer"
      BY DEF Garbage, Line
    <3> QED BY <2>8, <3>2, <3>3
  <2>10. /\ stream'[Len(stream) + 1] = m
         /\ \A k \in DOMAIN stream : stream'[k] = stream[k]
         /\ \A k \in DOMAIN stream' : k \in DOMAIN stream \/ k = Len(stream) + 1
    <3>1. stream \in Seq(Line) /\ m \in Line /\ stream' = Append(stream, m)
      BY <1>0, <2>8, <2>9 DEF TypeOK
    <3> HIDE <2>8
    <3> QED BY <3>1, AppendDomain
  <2>11. \A k \in Answers' : k = Len(stream) + 1 /\ stream'[k].batch = b
    BY <2>1, <2>9, <2>10 DEF Answers
  <2>12. Len(wire') <= 1
    BY <2>3
  <2> QED BY <2>1, <2>4, <2>5, <2>11, <2>12 DEF LastRequestInv
<1>6. ASSUME NEW s \in Spk, Change(s) PROVE LastRequestInv'
  <2>1. UNCHANGED <<thread, batches, pending, open, wire>>
    BY <1>6 DEF Change
  <2>2. Answers' = Answers /\ \A k \in Answers : stream'[k] = stream[k]
    <3>1. CASE stream' = stream
      BY <3>1 DEF Answers
    <3>2. CASE stream' = Append(stream, Notification(s))
      <4>1. Notification(s).type # "Answer" /\ Notification(s) \in Line
        BY <1>0 DEF Notification, Line, TypeOK
      <4> PICK m \in Line : m = Notification(s) /\ m.type # "Answer"
        BY <4>1
      <4>2. /\ stream'[Len(stream) + 1] = m
            /\ \A k \in DOMAIN stream : stream'[k] = stream[k]
            /\ DOMAIN stream \subseteq DOMAIN stream'
            /\ \A k \in DOMAIN stream' : k \in DOMAIN stream \/ k = Len(stream) + 1
        <5>1. stream \in Seq(Line) /\ stream' = Append(stream, m)
          BY <1>0, <3>2 DEF TypeOK
        <5> QED BY <5>1, AppendDomain
      <4> QED BY <4>2 DEF Answers
    <3> QED BY <1>6, <3>1, <3>2 DEF Change
  <2> QED BY <2>1, <2>2 DEF LastRequestInv
<1>7. CASE LinkDies
  <2>1. PICK n \in 0..Len(stream) : stream' = SubSeq(stream, 1, n)
    BY <1>7 DEF LinkDies
  <2>2. stream \in Seq(Line) /\ Len(stream) \in Nat /\ n \in Nat /\ n <= Len(stream)
        /\ DOMAIN stream = 1..Len(stream)
    BY <1>0, <2>1, LenProperties DEF TypeOK
  <2>3. \A i \in 1..n : stream[i] \in Line
    BY <2>2, ElementOfSeq
  <2>4. /\ stream' \in Seq(Line) /\ Len(stream') = n
        /\ \A i \in 1..n : stream'[i] = stream[i]
    BY <2>1, <2>2, <2>3, SubSeqProperties
  <2>5. \A k \in DOMAIN stream' : k + 0 \in DOMAIN stream /\ stream'[k] = stream[k + 0]
    BY <2>2, <2>4, LenProperties
  <2>6. wire' = << >> /\ UNCHANGED <<thread, batches, pending, open>>
    BY <1>7 DEF LinkDies
  <2> QED BY <1>0, <2>4, <2>5, <2>6, LastRequestCut
<1>8. CASE \/ (\E r \in Request : Demand(r)) \/ Leave \/ SendFails \/ TakeStop \/ NoRequest
           \/ ReadFails \/ NothingToRead \/ UNCHANGED vars
  <2>1. UNCHANGED <<wire, stream, batches, pending, open>> /\ (thread' = "sending" => thread = "sending")
    BY <1>8 DEF Demand, Leave, SendFails, TakeStop, NoRequest, ReadFails, NothingToRead, Complain, vars
  <2> QED BY <2>1 DEF LastRequestInv, Answers
<1> QED BY <1>1, <1>2, <1>3, <1>4, <1>5, <1>6, <1>7, <1>8 DEF Next, Listen

\* Of the ways to panic only an answer to a history request without an entry
\* needs the place of the last request.
LEMMA NoPanicNext ==
  ASSUME ListenerInv, RequestInv, [Next]_vars
  PROVE  NoPanicUndisturbed'
<1> USE DEF consumerVars, serverVars, NoPanicUndisturbed, RequestInv
<1>1. ASSUME NEW n \in 0..Len(stream), ReceivePanics(n) PROVE NoPanicUndisturbed'
  <2> SUFFICES ASSUME ~resent' PROVE consumer' = "gone"
    OBVIOUS
  <2> DEFINE l == Head(stream)
  <2>1. /\ Read(n) /\ l.type # "Garbage" /\ MayPanic(l) /\ Resend(l) /\ ~resent
        /\ consumer' = consumer
    BY <1>1 DEF ReceivePanics, Resend
  <2>2. ~Unanswered(l) /\ Histories(l) \subseteq open
    BY <2>1, LineRead
  <2> QED BY <2>1, <2>2 DEF MayPanic, Resends
<1>2. ASSUME NEW n \in 0..Len(stream), Receive(n) \/ ReceiveGarbage(n)
      PROVE  NoPanicUndisturbed'
  <2>1. thread' # "panicked"
    BY <1>2 DEF Receive, ReceiveGarbage, Complain
  <2> QED BY <2>1
<1>3. CASE TakeRequest \/ SendBatch \/ NoRequest \/ ReadFails \/ NothingToRead
  <2>1. thread' # "panicked"
    BY <1>3 DEF TakeRequest, Register, SendBatch, NoRequest, ReadFails, NothingToRead, Complain
  <2> QED BY <2>1
<1>4. CASE SendFails \/ TakeStop
  BY <1>4 DEF SendFails, TakeStop, ListenerInv, TypeOK
<1>5. CASE \/ (\E r \in Request : Demand(r)) \/ Leave \/ ServerAnswers \/ (\E s \in Spk : Change(s))
           \/ LinkDies \/ UNCHANGED vars
  <2>1. /\ UNCHANGED <<thread, resent>> /\ consumer' \in {consumer, "gone"}
        /\ link' \in {link, "dead"}
    BY <1>5 DEF Demand, Leave, ServerAnswers, Change, LinkDies, vars
  <2> QED BY <2>1
<1> QED BY <1>1, <1>2, <1>3, <1>4, <1>5 DEF Next, Listen

\* Once a batch was sent again it stays so.
LEMMA ResentStays == ASSUME ListenerInv, [Next]_vars, ~resent' PROVE ~resent
<1> USE DEF consumerVars, serverVars
<1>1. resent \in BOOLEAN
  BY DEF ListenerInv, TypeOK
<1>2. (\E n \in 0..Len(stream) : Receive(n) \/ ReceivePanics(n)) => (resent => resent')
  BY <1>1 DEF Receive, ReceivePanics, Resend
<1> QED
  BY <1>1, <1>2
  DEF Next, Listen, Demand, Leave, TakeRequest, SendBatch, SendFails, TakeStop, NoRequest,
      ReceiveGarbage, ReadFails, NothingToRead, Complain, ServerAnswers, Change, LinkDies, vars

LEMMA RequestInvariant == Spec => []RequestInv
<1>1. Init => RequestInv
  BY DEF Init, RequestInv, LastRequestInv, NoPanicUndisturbed, Answers
<1>2. ListenerInv /\ ListenerInv' /\ RequestInv /\ [Next]_vars => RequestInv'
  BY LastRequestNext, NoPanicNext, ResentStays DEF RequestInv
<1> QED BY <1>1, <1>2, ListenerInvariant, PTL DEF Spec

\* The thread does not panic unless it sent a batch again, its consumer went or
\* the connection ended (the entry of reqid_spk_map that Receive removes is
\* there, the channels and the connection are as well).
THEOREM ListenerKeepsRunning == Spec => []NoPanicUndisturbed
<1>1. RequestInv => NoPanicUndisturbed
  BY DEF RequestInv
<1> QED BY <1>1, RequestInvariant, PTL

\* No request is sent before the answer to the one before, as long as no batch
\* had to be sent again (last_request in listen_txs).
THEOREM OneAtATime == Spec => []OneOutstanding
<1>1. ASSUME ListenerInv, RequestInv PROVE OneOutstanding
  <2> SUFFICES ASSUME ~resent
               PROVE  Len(wire) + Cardinality(Answers) <= Cardinality(pending)
    BY DEF OneOutstanding
  <2>1. LastRequestInv /\ TypeOK
    BY <1>1 DEF RequestInv, ListenerInv
  <2>2. wire \in Seq(Nat) /\ Len(wire) \in Nat /\ DOMAIN wire = 1..Len(wire)
    BY <2>1, LenProperties DEF TypeOK
  <2>3. ASSUME NEW k \in Answers PROVE Answers = {k}
    BY <2>1 DEF LastRequestInv
  <2>4. Cardinality({}) = 0 /\ \A x : Cardinality({x}) = 1
    BY FS_EmptySet, FS_Singleton
  <2>5. CASE pending = {}
    BY <2>1, <2>4, <2>5, NothingPending
  <2>6. ASSUME NEW b \in pending PROVE Len(wire) + Cardinality(Answers) <= Cardinality(pending)
    <3>1. pending = {b}
      BY <2>1 DEF TypeOK
    <3>2. Cardinality(pending) = 1
      BY <2>4, <3>1
    <3>3. wire = << >> => Len(wire) = 0
      OBVIOUS
    <3>4. CASE Answers = {}
      BY <2>1, <2>2, <2>4, <3>2, <3>4 DEF LastRequestInv
    <3>5. ASSUME NEW k \in Answers
          PROVE  Len(wire) + Cardinality(Answers) <= Cardinality(pending)
      <4>1. Len(wire) = 0
        BY <2>1, <3>3 DEF LastRequestInv
      <4>2. Cardinality(Answers) = 1
        BY <2>3, <2>4
      <4> QED BY <3>2, <4>1, <4>2
    <3> QED BY <3>4, <3>5
  <2> QED BY <2>5, <2>6
<1> QED BY <1>1, ListenerInvariant, RequestInvariant, PTL
=============================================================================
