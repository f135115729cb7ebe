------------------------- MODULE LossyChannelProofs -------------------------
(* What follows from the promise of a nostr client.                        *)
EXTENDS LossyChannel, TLAPS

\* The types the order of the messages is proved from.
OrderInv ==
  /\ sent \in Nat /\ taken \in Nat /\ out \in Seq(Nat)
  /\ InOrder

\* A client that keeps the promise hands over no message twice and none before
\* one that was accepted earlier.
THEOREM Order == Spec => []InOrder
<1>1. Init => OrderInv
  BY DEF Init, OrderInv, InOrder
<1>2. OrderInv /\ [Next]_channelVars => OrderInv'
  <2> SUFFICES ASSUME OrderInv, [Next]_channelVars PROVE OrderInv'
    OBVIOUS
  <2>1. CASE Open \/ Shut \/ Lose \/ Send \/ UNCHANGED channelVars
    BY <2>1 DEF OrderInv, InOrder, Open, Shut, Lose, Take, Send, channelVars
  <2>2. CASE Deliver
    <3>1. out' \in Seq(Nat) /\ taken' = taken + 1 /\ taken' <= sent' /\ sent' = sent
      BY <2>2 DEF Deliver, Take, OrderInv
    <3>2. /\ DOMAIN out' = 1..Len(out) + 1
          /\ out'[Len(out) + 1] = taken + 1
          /\ \A k \in 1..Len(out) : out'[k] = out[k]
      BY <2>2 DEF Deliver, Take, OrderInv
    <3>3. \A k \in DOMAIN out' : out'[k] <= taken'
      BY <3>1, <3>2 DEF OrderInv, InOrder
    <3>4. \A j, k \in DOMAIN out' : j < k => out'[j] < out'[k]
      <4> SUFFICES ASSUME NEW j \in DOMAIN out', NEW k \in DOMAIN out', j < k
                   PROVE  out'[j] < out'[k]
        OBVIOUS
      <4>1. DOMAIN out = 1..Len(out) /\ Len(out) \in Nat
        BY DEF OrderInv
      <4>2. j \in 1..Len(out) /\ out'[j] = out[j] /\ out[j] \in Nat /\ out[j] <= taken
        BY <3>2, <4>1 DEF OrderInv, InOrder
      <4>3. CASE k \in 1..Len(out)
        BY <3>2, <4>1, <4>2, <4>3 DEF OrderInv, InOrder
      <4>4. CASE k = Len(out) + 1
        BY <3>2, <4>2, <4>4 DEF OrderInv
      <4> QED BY <3>2, <4>1, <4>3, <4>4
    <3> QED BY <3>1, <3>3, <3>4 DEF OrderInv, InOrder
  <2> QED BY <2>1, <2>2 DEF Next
<1>3. OrderInv => InOrder
  BY DEF OrderInv
<1> QED BY <1>1, <1>2, <1>3, PTL DEF Spec
=============================================================================
