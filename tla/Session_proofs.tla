--------------------------- MODULE Session_proofs ----------------------------
(***************************************************************************)
(* Proofs about a session with a client:                                   *)
(*                                                                         *)
(*   Retransmission   a client that answers is not given up, whatever its  *)
(*                    latency, for every initial RTT and every limit of    *)
(*                    transmissions of at least 13                         *)
(*   InboundStream    what is dispatched, for every number of packets,     *)
(*                    window, duplicate lifetime and set of packet kinds   *)
(*                                                                         *)
(* The second needs two hypotheses and both are stated: the session is     *)
(* shorter than the sequence-ID space, and no duplicate CONNECT reaches a  *)
(* connected session.                                                      *)
(***************************************************************************)
EXTENDS Retransmission, InboundStream, TLAPS

------------------------------------------------------------------------------
(* Retransmission *)

\* The types of the variables
RTypeOK ==
    /\ latency \in Latencies
    /\ average \in Int /\ average >= -1
    /\ sendCount \in 0..MaxPacketRetransmissions
    /\ sentAt \in Nat
    /\ due \in Nat
    /\ answerAt \in Int
    /\ kicked \in BOOLEAN /\ misled \in BOOLEAN /\ instant \in BOOLEAN

\* An answer is never later than a latency after the last transmission, and the wait
\* after the last transmission allowed is longer than the latency.
RIInv ==
    /\ RTypeOK
    /\ AverageBounded
    /\ sendCount > 0 => answerAt <= sentAt + latency
    /\ sendCount > 0 /\ answerAt >= 0 => answerAt >= sentAt
    /\ sendCount = MaxPacketRetransmissions /\ ~instant /\ ~misled => due > sentAt + latency
    /\ due >= sentAt
    /\ GivenUpUnheard

\* The last timeout is at least 16 times its base.
LEMMA LastTimeout ==
    ASSUME NEW b \in Nat, NEW m \in Nat, m >= 13
    PROVE  (b * m * 5) \div 4 >= 16 * b
<1> DEFINE d == m - 13
<1>1. d \in Nat OBVIOUS
<1>2. b * m = b * 13 + b * d BY <1>1
<1>3. b * d \in Nat BY <1>1
<1>4. b * m * 5 >= 65 * b BY <1>2, <1>3
<1>5. b * m * 5 \in Nat OBVIOUS
<1> QED BY <1>4, <1>5

\* A timeout is a time.
LEMMA TimeoutType ==
    ASSUME RTypeOK, NEW c \in Nat
    PROVE  Base \in Nat /\ ComputeRetransmitTimeout(c) \in Nat
<1>1. Base \in Nat
  BY RetransmissionAssumption DEF Base, RTypeOK
<1>2. Base * c * 5 \in Nat BY <1>1
<1> QED BY <1>1, <1>2 DEF ComputeRetransmitTimeout

\* ComputeRetransmitTimeout of the last transmission, from an average that is at
\* least the latency, is zero or longer than the latency.
LEMMA LastWaitIsLong ==
    ASSUME RTypeOK, AverageBounded, ~misled,
           ComputeRetransmitTimeout(MaxPacketRetransmissions) # 0
    PROVE  ComputeRetransmitTimeout(MaxPacketRetransmissions) > latency
<1> DEFINE rto == ComputeRetransmitTimeout(MaxPacketRetransmissions)
<1>1. Base \in Nat /\ rto \in Nat
  BY TimeoutType, RetransmissionAssumption
<1>2. Base >= 1
  <2>1. Base = 0 => rto = 0
    BY RetransmissionAssumption DEF ComputeRetransmitTimeout
  <2> QED BY <1>1, <2>1
<1>3. rto >= 16 * Base
  BY <1>1, LastTimeout, RetransmissionAssumption DEF ComputeRetransmitTimeout
<1>4. latency \in Nat BY RetransmissionAssumption DEF RTypeOK
<1>5. latency <= 8 * Base + 7
  <2>1. CASE average < 0
    BY <2>1, <1>1, <1>4, RetransmissionAssumption DEF Base, RTypeOK
  <2>2. CASE ~(average < 0)
    <3>1. average >= 1000 * latency
      BY <2>2, <1>4 DEF AverageBounded, RTypeOK
    <3>2. average \div 1000 >= latency
      BY <3>1, <1>4 DEF RTypeOK
    <3>3. average \div 1000 <= 8 * Base + 7
      BY <2>2 DEF Base, RTypeOK
    <3> QED BY <3>2, <3>3, <1>1, <1>4 DEF RTypeOK
  <2> QED BY <2>1, <2>2
<1> QED BY <1>1, <1>2, <1>3, <1>4, <1>5

\* Adjust keeps the average between the latency and three times it.
LEMMA AdjustBounded ==
    ASSUME RTypeOK, average >= 0 => average \in (1000 * latency)..(3000 * latency)
    PROVE  Adjust(latency) \in (1000 * latency)..(3000 * latency)
BY RetransmissionAssumption DEF RTypeOK, Adjust

\* The average stays a time whatever is sampled.
LEMMA AdjustType ==
    ASSUME RTypeOK, NEW t \in Int, t >= 0
    PROVE  Adjust(t) \in Int /\ Adjust(t) >= 0
BY DEF RTypeOK, Adjust

\* A transmission keeps the invariant.
LEMMA TransmitInv ==
    ASSUME RIInv, ~kicked, NEW time \in Nat, NEW count \in 1..MaxPacketRetransmissions,
           NEW lost \in BOOLEAN, NEW answered \in Int,
           answered >= 0 => answered >= time /\ answered <= time + latency,
           Transmit(time, count, lost, answered),
           UNCHANGED <<latency, average, kicked, misled>>
    PROVE  RIInv'
<1> DEFINE rto == ComputeRetransmitTimeout(count)
<1>1. latency \in Nat BY RetransmissionAssumption DEF RIInv, RTypeOK
<1>2. count \in Nat BY RetransmissionAssumption
<1>3. rto \in Nat BY <1>2, TimeoutType DEF RIInv
<1>4. RTypeOK'
  <2> HIDE DEF rto
  <2>1. due' = time + rto BY DEF Transmit, rto
  <2>2. due' \in Nat BY <2>1, <1>3
  <2>3. answerAt' \in Int BY <1>1 DEF Transmit
  <2>4. instant' \in BOOLEAN BY DEF Transmit, RIInv, RTypeOK
  <2> QED BY <2>2, <2>3, <2>4 DEF Transmit, RIInv, RTypeOK
<1>5. AverageBounded' BY DEF RIInv, AverageBounded
<1>6. sendCount' > 0 => answerAt' <= sentAt' + latency'
  BY <1>1 DEF Transmit
<1>7. sendCount' > 0 /\ answerAt' >= 0 => answerAt' >= sentAt'
  BY <1>1 DEF Transmit
<1>8. sendCount' = MaxPacketRetransmissions /\ ~instant' /\ ~misled'
        => due' > sentAt' + latency'
  <2> SUFFICES ASSUME sendCount' = MaxPacketRetransmissions, ~instant', ~misled'
               PROVE  due' > sentAt' + latency'
    OBVIOUS
  <2>1. count = MaxPacketRetransmissions BY DEF Transmit
  <2>2. due' = time + rto /\ due' # time BY Zenon DEF Transmit
  <2>3. rto # 0
    <3> HIDE DEF rto
    <3> QED BY <2>2, <1>3
  <2>4. rto > latency BY <2>1, <2>3, LastWaitIsLong DEF RIInv
  <2> HIDE DEF rto
  <2> QED BY <2>2, <2>4, <1>1, <1>3 DEF Transmit
<1>9. GivenUpUnheard' BY DEF GivenUpUnheard
<1>10. due' >= sentAt'
  <2>1. due' = time + rto /\ sentAt' = time BY DEF Transmit
  <2> HIDE DEF rto
  <2> QED BY <1>3, <2>1
<1> QED BY <1>4, <1>5, <1>6, <1>7, <1>8, <1>9, <1>10 DEF RIInv

\* The invariant holds at the start.
LEMMA RInitInv == RInit => RIInv
<1> SUFFICES ASSUME RInit PROVE RIInv
  OBVIOUS
<1>1. RTypeOK
  <2>1. latency \in Latencies /\ average \in Int /\ average >= -1 BY DEF RInit
  <2>2. sendCount \in 0..MaxPacketRetransmissions
    BY RetransmissionAssumption DEF RInit
  <2>3. sentAt \in Nat /\ due \in Nat /\ answerAt \in Int BY DEF RInit
  <2>4. kicked \in BOOLEAN /\ misled \in BOOLEAN /\ instant \in BOOLEAN BY Zenon DEF RInit
  <2> QED BY <2>1, <2>2, <2>3, <2>4 DEF RTypeOK
<1>2. AverageBounded
  <2>1. ~(average >= 0) BY DEF RInit
  <2> QED BY <2>1 DEF AverageBounded
<1>3. GivenUpUnheard
  <2>1. ~kicked BY DEF RInit
  <2> QED BY <2>1 DEF GivenUpUnheard
<1>4. sendCount = 0 /\ due >= sentAt BY DEF RInit
<1>5. ~(sendCount > 0) /\ sendCount # MaxPacketRetransmissions
  BY <1>4, RetransmissionAssumption
<1> QED BY <1>1, <1>2, <1>3, <1>4, <1>5 DEF RIInv

\* Every step keeps the invariant.
LEMMA RNextInv == RIInv /\ [RNext]_rvars => RIInv'
<1> SUFFICES ASSUME RIInv, [RNext]_rvars PROVE RIInv'
  OBVIOUS
<1>0. latency \in Nat BY RetransmissionAssumption DEF RIInv, RTypeOK
<1>1. ASSUME NEW lost \in BOOLEAN, SendTimed(lost) PROVE RIInv'
  <2>1. 1 \in 1..MaxPacketRetransmissions BY RetransmissionAssumption
  <2> QED BY <1>1, <2>1, TransmitInv DEF SendTimed
<1>2. ASSUME NEW lost \in BOOLEAN, TimeoutOver(lost) PROVE RIInv'
  <2>1. CASE sendCount < MaxPacketRetransmissions
    <3>1. sendCount + 1 \in 1..MaxPacketRetransmissions
      BY <1>2, <2>1, RetransmissionAssumption DEF TimeoutOver, RIInv, RTypeOK
    <3>2. due \in Nat /\ answerAt \in Int BY DEF RIInv, RTypeOK
    <3>3. answerAt >= 0 => answerAt >= due /\ answerAt <= due + latency
      <4>1. due >= sentAt BY DEF RIInv
      <4> QED BY <1>0, <1>2, <3>2, <4>1 DEF TimeoutOver, RIInv, RTypeOK
    <3>4. /\ ~kicked
          /\ Transmit(due, sendCount + 1, lost, answerAt)
          /\ UNCHANGED <<latency, average, kicked, misled>>
      BY <1>2, <2>1 DEF TimeoutOver
    <3> QED BY <3>1, <3>2, <3>3, <3>4, TransmitInv
  <2>2. CASE ~(sendCount < MaxPacketRetransmissions)
    <3>1. sendCount = MaxPacketRetransmissions
      BY <2>2, RetransmissionAssumption DEF RIInv, RTypeOK
    <3>2. UNCHANGED <<latency, average, sendCount, sentAt, due, answerAt, misled, instant>>
          /\ kicked' = TRUE
      BY <1>2, <2>2 DEF TimeoutOver
    <3>3. answerAt >= 0 => instant \/ misled
      BY <1>0, <1>2, <3>1, RetransmissionAssumption DEF TimeoutOver, RIInv, RTypeOK
    <3>4. GivenUpUnheard'
      BY <3>2, <3>3 DEF GivenUpUnheard, RIInv, RTypeOK
    <3> QED BY <3>2, <3>4 DEF RIInv, RTypeOK, AverageBounded
  <2> QED BY <2>1, <2>2
<1>3. CASE AnswerArrives
  <2>1. /\ sendCount' = 0 /\ ~kicked
        /\ UNCHANGED <<latency, sentAt, due, answerAt, kicked, instant>>
    BY <1>3 DEF AnswerArrives
  <2>2. answerAt - sentAt \in Int /\ answerAt - sentAt >= 0
    BY <1>3 DEF AnswerArrives, RIInv, RTypeOK
  <2>3. CASE sendCount >= RTTRetransmit
    <3>1. /\ average' = Adjust(answerAt - sentAt)
          /\ misled' = (misled \/ answerAt - sentAt # latency)
      BY <1>3, <2>3 DEF AnswerArrives
    <3>2. average' \in Int /\ average' >= 0 BY <2>2, <3>1, AdjustType DEF RIInv
    <3>3. ~misled' => average' \in (1000 * latency)..(3000 * latency)
      <4>1. ~misled' => ~misled /\ average' = Adjust(latency) BY <3>1, Zenon
      <4>2. ~misled => Adjust(latency) \in (1000 * latency)..(3000 * latency)
        BY AdjustBounded DEF RIInv, AverageBounded
      <4> QED BY <4>1, <4>2
    <3>4. AverageBounded' BY <2>1, <3>3 DEF AverageBounded
    <3>5. RTypeOK'
      BY <2>1, <3>1, <3>2, RetransmissionAssumption DEF RIInv, RTypeOK
    <3> QED BY <2>1, <3>4, <3>5, RetransmissionAssumption DEF RIInv, GivenUpUnheard
  <2>4. CASE ~(sendCount >= RTTRetransmit)
    <3>1. UNCHANGED <<average, misled>> BY <1>3, <2>4 DEF AnswerArrives
    <3> QED BY <2>1, <3>1, RetransmissionAssumption
            DEF RIInv, RTypeOK, AverageBounded, GivenUpUnheard
  <2> QED BY <2>3, <2>4
<1>4. CASE PingAnswered
  <2>1. /\ average' = Adjust(latency)
        /\ UNCHANGED <<latency, sendCount, sentAt, due, answerAt, kicked, misled, instant>>
    BY <1>4 DEF PingAnswered
  <2>2. average' \in Int /\ average' >= 0 BY <1>0, <2>1, AdjustType DEF RIInv
  <2>3. AverageBounded'
    <3>1. ~misled => Adjust(latency) \in (1000 * latency)..(3000 * latency)
      BY AdjustBounded DEF RIInv, AverageBounded
    <3> QED BY <2>1, <3>1 DEF AverageBounded
  <2> QED BY <2>1, <2>2, <2>3 DEF RIInv, RTypeOK, GivenUpUnheard
<1>5. CASE UNCHANGED rvars
  BY <1>5 DEF rvars, RIInv, RTypeOK, AverageBounded, GivenUpUnheard
<1> QED BY <1>1, <1>2, <1>3, <1>4, <1>5 DEF RNext

\* GivenUpUnheard and AverageBounded hold for every latency: TimeoutManager.start
\* gives up a connection only if no transmission of the packet reached the client, or
\* after a timeout of zero or a sample that was not the latency.
THEOREM GivenUpUnheardAlways == RSpec => [](GivenUpUnheard /\ AverageBounded)
<1>1. RIInv => GivenUpUnheard /\ AverageBounded BY DEF RIInv
<1> QED BY <1>1, RInitInv, RNextInv, PTL DEF RSpec

------------------------------------------------------------------------------
(* The inbound substream *)

\* The counter of the session's last packet does not wrap around.
ShortSession == MaxPackets + 2 < SeqMod

USE InboundAssumption DEF InboundAssumption

IInv ==
    /\ TypeOK
    /\ Len(sent) <= MaxPackets
    /\ \A i \in 1..Len(sent) : sent[i].idx = i
    /\ \A p \in queue : p.idx \in 1..Len(sent) /\ sent[p.idx] = p
    /\ InOrder
    /\ AckedNotLost
    /\ QueueDrained
    /\ connState = "connected" => nextExpected = Len(dispatched) + 2
    /\ connState # "connected" =>
          sent = <<>> /\ dispatched = <<>> /\ queue = {} /\ acked = {} /\ locked = FALSE

\* Below the modulus, the remainder of the sequence-ID arithmetic is the number.
LEMMA SmallMod ==
    ASSUME NEW n \in Nat, n < SeqMod
    PROVE  n % SeqMod = n
  OBVIOUS

\* The sequence ID of a packet of a short session is one more than its index.
LEMMA SequenceIDShort ==
    ASSUME ShortSession, NEW p \in Packet, p.idx <= MaxPackets
    PROVE  SequenceID(p) = p.idx + 1
  <1>1. p.idx + 1 \in Nat /\ p.idx + 1 < SeqMod
    BY DEF ShortSession, Packet
  <1>. QED BY <1>1, SmallMod DEF SequenceID

\* The initial state satisfies the inductive invariant.
LEMMA InitIInv == Init => IInv
  <1>. SUFFICES ASSUME Init PROVE IInv OBVIOUS
  <1>. USE DEF Init
  <1>1. TypeOK
    <2>1. sent \in Seq(Packet) /\ buffer \in Seq(Packet) /\ dispatched \in Seq(Packet)
      OBVIOUS
    <2>2. delivered \in Seq(Seq(Packet))
      OBVIOUS
    <2>3. nextExpected \in 0..(SeqMod - 1)
      BY DEF FirstSequenceID
    <2>4. locked \in BOOLEAN /\ session \in Nat /\ acked \subseteq Nat
      BY Zenon
    <2>. QED BY <2>1, <2>2, <2>3, <2>4 DEF TypeOK
  <1>2. InOrder BY DEF InOrder
  <1>3. AckedNotLost BY DEF AckedNotLost
  <1>4. QueueDrained BY DEF QueueDrained
  <1>. QED BY <1>1, <1>2, <1>3, <1>4 DEF IInv

\* A packet in flight is queued without disturbing the other queued packets: in a
\* short session only the packet itself has its sequence ID.
LEMMA QueueShort ==
    ASSUME ShortSession, IInv, NEW i \in 1..Len(sent)
    PROVE  /\ Queue(queue, sent[i]) = queue \cup {sent[i]}
           /\ sent[i] \in Packet
           /\ SequenceID(sent[i]) = i + 1
  <1>. USE DEF IInv, TypeOK
  <1>1. sent[i] \in Packet /\ sent[i].idx = i
    OBVIOUS
  <1>2. SequenceID(sent[i]) = i + 1
    BY <1>1, SequenceIDShort
  <1>3. ASSUME NEW r \in queue, SequenceID(r) = SequenceID(sent[i])
        PROVE  r = sent[i]
    <2>1. r \in Packet /\ r.idx \in 1..Len(sent) /\ sent[r.idx] = r
      OBVIOUS
    <2>2. SequenceID(r) = r.idx + 1
      BY <2>1, SequenceIDShort
    <2>. QED BY <1>2, <1>3, <2>1, <2>2
  <1>. QED BY <1>1, <1>2, <1>3 DEF Queue

\* The dispatch loop only ever finds the packet that follows the dispatched ones.
LEMMA NextIsNext ==
    ASSUME ShortSession, IInv, connState = "connected",
           NEW p \in queue, SequenceID(p) = nextExpected
    PROVE  /\ p.idx = Len(dispatched) + 1
           /\ p.idx \in 1..Len(sent)
           /\ p = sent[Len(dispatched) + 1]
           /\ CounterNext(nextExpected) = Len(dispatched) + 3
           /\ Len(dispatched) \in Nat
  <1>. USE DEF IInv, TypeOK
  <1>1. p \in Packet /\ p.idx \in 1..Len(sent) /\ sent[p.idx] = p /\ Len(dispatched) \in Nat
    OBVIOUS
  <1>2. SequenceID(p) = p.idx + 1
    BY <1>1, SequenceIDShort
  <1>3. p.idx = Len(dispatched) + 1
    BY <1>1, <1>2
  <1>4. nextExpected + 1 \in Nat /\ nextExpected + 1 < SeqMod
    BY <1>1, <1>3 DEF ShortSession
  <1>5. CounterNext(nextExpected) = nextExpected + 1
    BY <1>4, SmallMod DEF CounterNext
  <1>. QED BY <1>1, <1>3, <1>5

\* Every step preserves the inductive invariant.
LEMMA NextIInv ==
    ASSUME ShortSession, ~LateConnect, IInv, [Next]_vars
    PROVE  IInv'
  <1>. USE DEF IInv, TypeOK
  <1>1. ASSUME NEW kind \in Kinds, ClientSend(kind) PROVE IInv'
    <2>. DEFINE p == [ses |-> session, idx |-> Len(sent) + 1, kind |-> kind]
    <2>1. p \in Packet BY DEF Packet
    <2>. HIDE DEF p
    <2>2. sent' = Append(sent, p) BY <1>1 DEF ClientSend, p
    <2>3. Len(sent') = Len(sent) + 1 /\ sent' \in Seq(Packet) BY <2>1, <2>2
    <2>4. \A i \in 1..Len(sent) : sent'[i] = sent[i] BY <2>1, <2>2
    <2>5. sent'[Len(sent) + 1] = p /\ p.idx = Len(sent) + 1 BY <2>1, <2>2 DEF p
    <2>. USE <1>1 DEF ClientSend
    <2>6. TypeOK' BY <2>3
    <2>7. Len(sent') <= MaxPackets BY <2>3
    <2>8. \A i \in 1..Len(sent') : sent'[i].idx = i BY <2>3, <2>4, <2>5
    <2>9. \A q \in queue' : q.idx \in 1..Len(sent') /\ sent'[q.idx] = q BY <2>3, <2>4
    <2>10. InOrder' BY <2>3, <2>4 DEF InOrder
    <2>11. AckedNotLost'
      <3>. SUFFICES ASSUME NEW i \in acked, i > Len(dispatched)
                    PROVE  i \in DOMAIN sent' /\ sent'[i] \in queue
                           /\ nextExpected <= SequenceID(sent'[i])
        BY SMTT(30) DEF AckedNotLost, SequenceID
      <3>1. i \in 1..Len(sent) /\ sent[i] \in queue /\ nextExpected <= SequenceID(sent[i])
        BY DEF AckedNotLost
      <3>. QED BY <3>1, <2>3, <2>4
    <2>12. QueueDrained' BY DEF QueueDrained, SequenceID
    <2>. QED BY <2>6, <2>7, <2>8, <2>9, <2>10, <2>11, <2>12
  <1>2. CASE HandleSyn
    <2>. USE <1>2 DEF HandleSyn
    <2>1. TypeOK' OBVIOUS
    <2>2. InOrder' /\ AckedNotLost' /\ QueueDrained'
      BY DEF InOrder, AckedNotLost, QueueDrained
    <2>. QED BY <2>1, <2>2
  <1>3. CASE HandleConnect
    <2>. USE <1>3 DEF HandleConnect
    <2>1. connState = "connecting" OBVIOUS
    <2>2. TypeOK' BY <2>1 DEF FirstSequenceID
    <2>3. InOrder' /\ AckedNotLost' /\ QueueDrained'
      BY <2>1 DEF InOrder, AckedNotLost, QueueDrained
    <2>. QED BY <2>1, <2>2, <2>3 DEF FirstSequenceID
  <1>4. ASSUME NEW i \in 1..Len(sent), Receive(i) PROVE IInv'
    <2>1. /\ connState = "connected"
          /\ acked' = acked \cup {i}
          /\ queue' = Queue(queue, sent[i])
          /\ locked' \in BOOLEAN
          /\ locked' \/ sent[i].kind = "ping"
          /\ ~locked
          /\ UNCHANGED <<connState, session, sent, nextExpected, buffer, dispatched, delivered>>
      BY <1>4, Zenon DEF Receive, HandleReliable, HandlePing
    <2>2. /\ queue' = queue \cup {sent[i]}
          /\ sent[i] \in Packet
          /\ SequenceID(sent[i]) = i + 1
      BY <2>1, QueueShort
    <2>3. TypeOK' BY <2>1, <2>2
    <2>4. InOrder' BY <2>1 DEF InOrder
    <2>5. AckedNotLost'
      <3>. SUFFICES ASSUME NEW j \in acked', j > Len(dispatched)
                    PROVE  j \in DOMAIN sent /\ sent[j] \in queue'
                           /\ nextExpected <= SequenceID(sent[j])
        <4>1. acked' \subseteq Nat /\ Len(dispatched) \in Nat BY <2>3, <2>1
        <4>2. UNCHANGED <<sent, dispatched, nextExpected>> BY <2>1
        <4>. HIDE DEF IInv, TypeOK
        <4>. QED BY <4>1, <4>2 DEF AckedNotLost, SequenceID
      <3>1. CASE j = i BY <3>1, <2>1, <2>2
      <3>2. CASE j \in acked BY <3>2, <2>2 DEF AckedNotLost
      <3>. QED BY <3>1, <3>2, <2>1
    <2>6. QueueDrained' BY <2>1, <2>2 DEF QueueDrained, SequenceID
    <2>. QED BY <2>1, <2>2, <2>3, <2>4, <2>5, <2>6
  <1>5. CASE DispatchNext
    <2>1. connState = "connected" BY <1>5 DEF DispatchNext
    <2>2. PICK p \in queue : /\ SequenceID(p) = nextExpected
                             /\ Reassemble(p)
                             /\ dispatched' = Append(dispatched, p)
                             /\ queue' = queue \ {p}
      BY <1>5 DEF DispatchNext
    <2>3. /\ p.idx = Len(dispatched) + 1
          /\ p.idx \in 1..Len(sent)
          /\ p = sent[Len(dispatched) + 1]
          /\ nextExpected' = Len(dispatched) + 3
          /\ Len(dispatched) \in Nat
      BY <1>5, <2>1, <2>2, NextIsNext DEF DispatchNext
    <2>4. UNCHANGED <<connState, session, sent, acked, locked>>
      BY <1>5 DEF DispatchNext
    <2>5. p \in Packet OBVIOUS
    <2>6. buffer' \in Seq(Packet) /\ delivered' \in Seq(Seq(Packet))
      <3>1. Append(buffer, p) \in Seq(Packet) BY <2>5
      <3>2. CASE p.kind = "ping" BY <3>2, <2>2 DEF Reassemble
      <3>3. CASE p.kind = "fragment"
        <4>1. buffer' = Append(buffer, p) /\ delivered' = delivered
          BY <3>3, <2>2 DEF Reassemble
        <4>. QED BY <4>1, <3>1
      <3>4. CASE p.kind = "last"
        <4>1. delivered' = Append(delivered, Append(buffer, p)) /\ buffer' = <<>>
          BY <3>4, <2>2 DEF Reassemble
        <4>. QED BY <4>1, <3>1
      <3>. QED BY <3>2, <3>3, <3>4, <2>5 DEF Packet
    <2>7. /\ Len(dispatched') = Len(dispatched) + 1
          /\ dispatched' \in Seq(Packet)
          /\ \A i \in 1..Len(dispatched) : dispatched'[i] = dispatched[i]
          /\ dispatched'[Len(dispatched) + 1] = p
      BY <2>2, <2>5
    <2>8. TypeOK' BY <2>2, <2>3, <2>4, <2>6, <2>7 DEF ShortSession
    <2>9. InOrder'
      <3>1. Len(dispatched') <= Len(sent') BY <2>3, <2>4, <2>7
      <3>2. ASSUME NEW i \in 1..Len(dispatched') PROVE dispatched'[i] = sent'[i]
        <4>1. CASE i = Len(dispatched) + 1 BY <4>1, <2>3, <2>4, <2>7
        <4>2. CASE i \in 1..Len(dispatched) BY <4>2, <2>4, <2>7 DEF InOrder
        <4>. QED BY <4>1, <4>2, <2>3, <2>7
      <3>. QED BY <3>1, <3>2 DEF InOrder
    <2>10. AckedNotLost'
      <3>1. ASSUME NEW j \in acked, ~(j <= Len(dispatched) + 1)
            PROVE  j \in DOMAIN sent /\ sent[j] \in queue'
                   /\ nextExpected' <= SequenceID(sent[j])
        <4>1. j \in Nat /\ ~(j <= Len(dispatched))
          BY <2>3, <3>1
        <4>2. j \in 1..Len(sent) /\ sent[j] \in queue
          BY <4>1 DEF AckedNotLost
        <4>3. SequenceID(sent[j]) = j + 1
          BY <4>2, QueueShort, Zenon
        <4>4. sent[j] # p
          BY <4>2, <2>3, <3>1
        <4>. QED BY <2>2, <2>3, <3>1, <4>1, <4>2, <4>3, <4>4
      <3>. HIDE DEF IInv, TypeOK
      <3>2. acked' = acked /\ sent' = sent /\ Len(dispatched') = Len(dispatched) + 1
        BY <2>4, <2>7
      <3>. QED BY <3>1, <3>2 DEF AckedNotLost, SequenceID
    <2>11. QueueDrained' BY <1>5, <2>4 DEF DispatchNext, QueueDrained
    <2>12. \A q \in queue' : q.idx \in 1..Len(sent') /\ sent'[q.idx] = q BY <2>2, <2>4
    <2>13. nextExpected' = Len(dispatched') + 2 /\ connState' = "connected"
      BY <2>1, <2>3, <2>4, <2>7
    <2>. QED BY <2>4, <2>8, <2>9, <2>10, <2>11, <2>12, <2>13
  <1>6. CASE DispatchDone
    <2>. USE <1>6 DEF DispatchDone
    <2>1. TypeOK' BY Zenon
    <2>2. InOrder' BY DEF InOrder
    <2>3. AckedNotLost' BY DEF AckedNotLost, SequenceID
    <2>4. QueueDrained' BY DEF QueueDrained, SequenceID
    <2>. QED BY <2>1, <2>2, <2>3, <2>4
  <1>7. CASE UNCHANGED vars
    <2>. USE <1>7 DEF vars
    <2>1. TypeOK' OBVIOUS
    <2>2. InOrder' /\ AckedNotLost' /\ QueueDrained'
      BY DEF InOrder, AckedNotLost, QueueDrained, SequenceID
    <2>. QED BY <2>1, <2>2
  <1>. QED BY <1>1, <1>2, <1>3, <1>4, <1>5, <1>6, <1>7, Zenon DEF Next

\* IInv is an invariant of every short session without a late CONNECT.
LEMMA IInvHolds ==
    ASSUME ShortSession, ~LateConnect
    PROVE  Spec => []IInv
  <1>1. Init => IInv BY InitIInv
  <1>2. IInv /\ [Next]_vars => IInv' BY NextIInv
  <1>. QED BY <1>1, <1>2, PTL DEF Spec

\* The variables of the dispatch queue and of the fragment buffer keep their types.
THEOREM TypeCorrect ==
    ASSUME ShortSession, ~LateConnect
    PROVE  Spec => []TypeOK
  <1>1. IInv => TypeOK BY DEF IInv
  <1>. QED BY <1>1, IInvHolds, PTL

\* HandleReliable hands over the packets of a session in the order they were sent,
\* each once, for every loss, duplication and reordering by the network.
THEOREM InOrderHolds ==
    ASSUME ShortSession, ~LateConnect
    PROVE  Spec => []InOrder
  <1>1. IInv => InOrder BY DEF IInv
  <1>. QED BY <1>1, IInvHolds, PTL

\* A packet that was acknowledged is dispatched or still queued ahead of the counter.
THEOREM AckedNotLostHolds ==
    ASSUME ShortSession, ~LateConnect
    PROVE  Spec => []AckedNotLost
  <1>1. IInv => AckedNotLost BY DEF IInv
  <1>. QED BY <1>1, IInvHolds, PTL

\* Between handlers only a reliable PING can be at the head of the dispatch queue.
THEOREM QueueDrainedHolds ==
    ASSUME ShortSession, ~LateConnect
    PROVE  Spec => []QueueDrained
  <1>1. IInv => QueueDrained BY DEF IInv
  <1>. QED BY <1>1, IInvHolds, PTL

\* Every step of the substream is a step of the ordered stream or a stutter.
LEMMA StepImplements ==
    ASSUME ShortSession, IInv, [Next]_vars
    PROVE  [Stream!Next]_(Stream!vars)
  <1>. USE DEF Stream!Next, Stream!vars, IInv, TypeOK
  <1>1. ASSUME NEW kind \in Kinds, ClientSend(kind) PROVE Stream!Send
    <2>. DEFINE p == [ses |-> session, idx |-> Len(sent) + 1, kind |-> kind]
    <2>1. p \in Packet BY DEF Packet
    <2>. HIDE DEF p
    <2>2. sent' = Append(sent, p) /\ UNCHANGED dispatched BY <1>1 DEF ClientSend, p
    <2>. QED BY <2>1, <2>2 DEF Stream!Send
  <1>2. CASE HandleSyn BY <1>2 DEF HandleSyn, Stream!NewSession
  <1>3. CASE HandleConnect BY <1>3 DEF HandleConnect
  <1>4. ASSUME NEW i \in 1..Len(sent), Receive(i) PROVE UNCHANGED <<sent, dispatched>>
    BY <1>4 DEF Receive, HandleReliable, HandlePing
  <1>5. CASE DispatchNext
    <2>1. connState = "connected" BY <1>5 DEF DispatchNext
    <2>2. PICK p \in queue : /\ SequenceID(p) = nextExpected
                             /\ dispatched' = Append(dispatched, p)
      BY <1>5 DEF DispatchNext
    <2>3. Len(dispatched) < Len(sent) /\ p = sent[Len(dispatched) + 1]
      BY <2>1, <2>2, NextIsNext
    <2>. QED BY <1>5, <2>2, <2>3 DEF DispatchNext, Stream!HandOver
  <1>6. CASE DispatchDone BY <1>6 DEF DispatchDone
  <1>7. CASE UNCHANGED vars BY <1>7 DEF vars
  <1>. QED BY <1>1, <1>2, <1>3, <1>4, <1>5, <1>6, <1>7 DEF Next

\* The inbound substream implements the ordered stream OrderedStream specifies.
THEOREM Refinement ==
    ASSUME ShortSession, ~LateConnect
    PROVE  Spec => ImplementsOrderedStream
  <1>1. Init => Stream!Init BY DEF Init, Stream!Init
  <1>2. IInv /\ [Next]_vars => [Stream!Next]_(Stream!vars) BY StepImplements
  <1>. QED BY <1>1, <1>2, IInvHolds, PTL DEF Spec, ImplementsOrderedStream, Stream!Spec

------------------------------------------------------------------------------
(* Messages: the order of the packets carries over to what the loop of       *)
(* HandleReliable puts together.  The buffer and every delivered message are *)
(* described by one predicate, so that delivering is a change of place.      *)

\* The fragments of m that are of this session are those from start + 1 to end, in
\* their order, and come after those of other sessions.
Own(m) == {j \in DOMAIN m : m[j].ses = session}
Fragments(start, end) == {i \in start + 1 .. end : sent[i].kind # "ping"}
Ordered(m, start, end) ==
    /\ {m[j].idx : j \in Own(m)} = Fragments(start, end)
    /\ \A i, j \in Own(m) : i < j => m[i].idx < m[j].idx
    /\ \A i \in DOMAIN m, j \in Own(m) : i > j => i \in Own(m)

\* The index at which a message ends, and the one before the k-th begins
LastIdx(m) == m[Len(m)].idx
Start(k) == IF k = 1 THEN 0 ELSE LastIdx(delivered[k - 1])

\* Only the last fragment of a message has fragment ID 0.
Message(m) == \A j \in DOMAIN m : (m[j].kind = "last") <=> (j = Len(m))

\* The k-th message is whole and in order.
Delivered(k) ==
    /\ Start(k) \in Nat /\ LastIdx(delivered[k]) \in 1..Len(dispatched)
    /\ k > 1 => Own(delivered[k]) = DOMAIN delivered[k]
    /\ Ordered(delivered[k], Start(k), LastIdx(delivered[k]))
    /\ Message(delivered[k])

\* What is in the buffer is what was dispatched since the last message, after what a
\* session before left in it; once a message was delivered nothing of that is left.
MInv ==
    /\ \A i \in 1..Len(sent) : sent[i].ses = session
    /\ \A j \in 1..Len(buffer) : buffer[j].kind = "fragment" /\ buffer[j].ses <= session
    /\ Start(Len(delivered) + 1) \in 0..Len(dispatched)
    /\ Ordered(buffer, Start(Len(delivered) + 1), Len(dispatched))
    /\ delivered # <<>> => Own(buffer) = DOMAIN buffer
    /\ \A k \in 1..Len(delivered) : Delivered(k)

\* MInv is strong enough.
LEMMA MInvImplies == MInv /\ TypeOK => MessagesOrdered
<1> SUFFICES ASSUME MInv, TypeOK, NEW k \in DOMAIN delivered
             PROVE  LET m == delivered[k]
                        start == IF k = 1 THEN 0 ELSE delivered[k-1][Len(delivered[k-1])].idx
                        fragments == {i \in start + 1 .. m[Len(m)].idx : sent[i].kind # "ping"}
                        own == {j \in DOMAIN m : m[j].ses = session}
                    IN  /\ k > 1 => own = DOMAIN m
                        /\ {m[j].idx : j \in own} = fragments
                        /\ \A j \in DOMAIN m : (m[j].kind = "last") <=> (j = Len(m))
                        /\ \A i, j \in own : i < j => m[i].idx < m[j].idx
                        /\ \A i \in DOMAIN m, j \in own : i > j => i \in own
  BY Zenon DEF MessagesOrdered
<1>1. k \in 1..Len(delivered) BY DEF TypeOK
<1>2. /\ k > 1 => Own(delivered[k]) = DOMAIN delivered[k]
      /\ Ordered(delivered[k], Start(k), LastIdx(delivered[k]))
      /\ Message(delivered[k])
  BY <1>1 DEF MInv, Delivered
<1> QED BY <1>2 DEF Ordered, Own, Fragments, Start, LastIdx, Message

\* Nothing is dispatched at the start.
LEMMA InitMInv == Init => MInv
<1> SUFFICES ASSUME Init PROVE MInv OBVIOUS
<1>1. Len(sent) = 0 /\ Len(buffer) = 0 /\ Len(dispatched) = 0 /\ Len(delivered) = 0
      /\ DOMAIN buffer = {} /\ session = 0
  BY DEF Init
<1>2. Start(Len(delivered) + 1) = 0 BY <1>1 DEF Start
<1>3. Ordered(buffer, 0, 0) BY <1>1 DEF Ordered, Own, Fragments
<1> QED BY <1>1, <1>2, <1>3 DEF MInv, Init

\* Appending the next packet keeps the fragments in order.
LEMMA OrderedAppend ==
    ASSUME TypeOK, NEW m \in Seq(Packet), NEW p \in Packet, NEW start \in Nat, NEW end \in Nat,
           start <= end, Ordered(m, start, end),
           p.ses = session, p.idx = end + 1, sent[end + 1].kind # "ping"
    PROVE  /\ Ordered(Append(m, p), start, end + 1)
           /\ Own(Append(m, p)) = Own(m) \cup {Len(m) + 1}
           /\ LastIdx(Append(m, p)) = end + 1
<1> DEFINE n == Append(m, p)
<1>1. /\ n \in Seq(Packet) /\ Len(n) = Len(m) + 1 /\ n[Len(m) + 1] = p
      /\ DOMAIN n = DOMAIN m \cup {Len(m) + 1} /\ Len(m) + 1 \notin DOMAIN m
      /\ DOMAIN m = 1..Len(m) /\ Len(m) \in Nat
      /\ \A j \in DOMAIN m : n[j] = m[j]
  OBVIOUS
<1> HIDE DEF n
<1>2. Own(n) = Own(m) \cup {Len(m) + 1} BY <1>1 DEF Own
<1>3. Fragments(start, end + 1) = Fragments(start, end) \cup {end + 1}
  BY DEF Fragments
<1>4. \A j \in Own(m) : j \in DOMAIN m /\ n[j] = m[j] BY <1>1 DEF Own
<1>5. {n[j].idx : j \in Own(n)} = {m[j].idx : j \in Own(m)} \cup {end + 1}
  BY <1>1, <1>2, <1>4
<1>6. {m[j].idx : j \in Own(m)} = Fragments(start, end) BY DEF Ordered
<1>7. \A j \in Own(m) : m[j].idx \in Fragments(start, end) BY <1>6
<1>8. \A j \in Own(m) : m[j].idx < end + 1 BY <1>7 DEF Fragments
<1>9. ASSUME NEW i \in Own(n), NEW j \in Own(n), i < j PROVE n[i].idx < n[j].idx
  <2>1. i \in Own(m) BY <1>1, <1>2, <1>4, <1>9
  <2>2. CASE j = Len(m) + 1 BY <1>1, <1>4, <1>8, <2>1, <2>2, Zenon
  <2>3. CASE j \in Own(m) BY <1>4, <1>9, <2>1, <2>3 DEF Ordered
  <2> QED BY <1>2, <2>2, <2>3
<1>10. ASSUME NEW i \in DOMAIN n, NEW j \in Own(n), i > j PROVE i \in Own(n)
  <2>1. CASE i = Len(m) + 1 BY <1>2, <2>1
  <2>2. CASE i \in DOMAIN m
    <3>1. j \in Own(m) BY <1>1, <1>2, <1>10, <2>2
    <3> QED BY <1>2, <1>10, <2>2, <3>1 DEF Ordered
  <2> QED BY <1>1, <2>1, <2>2
<1>11. LastIdx(n) = end + 1 BY <1>1 DEF LastIdx
<1> QED BY <1>2, <1>3, <1>5, <1>6, <1>9, <1>10, <1>11, Zenon DEF Ordered, n

\* Steps that leave the dispatched packets, the buffer and the messages alone.
LEMMA QuietMInv ==
    ASSUME TypeOK, MInv, UNCHANGED <<session, buffer, dispatched, delivered>>,
           \A i \in 1..Len(dispatched) : sent'[i] = sent[i],
           \A i \in 1..Len(sent') : sent'[i].ses = session
    PROVE  MInv'
<1>1. Len(dispatched) \in Nat /\ Len(delivered) \in Nat BY DEF TypeOK
<1>2. \A s, e \in Nat : e <= Len(dispatched) => Fragments(s, e)' = Fragments(s, e)
  BY <1>1 DEF Fragments
<1>3. \A m : Own(m)' = Own(m) BY DEF Own
<1>4. \A k : Start(k)' = Start(k) BY DEF Start, LastIdx
<1>5. \A m : \A s, e \in Nat : e <= Len(dispatched) /\ Ordered(m, s, e) => Ordered(m, s, e)'
  BY <1>2, <1>3 DEF Ordered
<1>6. Ordered(buffer, Start(Len(delivered) + 1), Len(dispatched))'
  BY <1>1, <1>4, <1>5 DEF MInv
<1>7. \A k \in 1..Len(delivered) : Delivered(k)'
  <2> SUFFICES ASSUME NEW k \in 1..Len(delivered) PROVE Delivered(k)' OBVIOUS
  <2>1. Delivered(k) BY DEF MInv
  <2>2. LastIdx(delivered[k])' = LastIdx(delivered[k]) /\ Message(delivered[k])' = Message(delivered[k])
    BY DEF LastIdx, Message
  <2>3. Start(k) \in Nat /\ LastIdx(delivered[k]) \in Nat /\ LastIdx(delivered[k]) <= Len(dispatched)
    BY <1>1, <2>1 DEF Delivered
  <2>4. Ordered(delivered[k], Start(k), LastIdx(delivered[k]))'
    <3>1. Ordered(delivered[k], Start(k), LastIdx(delivered[k])) BY <2>1 DEF Delivered
    <3> QED BY <1>4, <1>5, <2>2, <2>3, <3>1
  <2> QED BY <1>3, <1>4, <2>1, <2>2, <2>4 DEF Delivered
<1> QED BY <1>3, <1>4, <1>6, <1>7 DEF MInv

\* Every step keeps the messages in order.
LEMMA NextMInv ==
    ASSUME ShortSession, ~LateConnect, IInv, IInv', MInv, [Next]_vars
    PROVE  MInv'
<1>t. TypeOK /\ TypeOK' BY DEF IInv
<1>n. Len(dispatched) \in Nat /\ Len(delivered) \in Nat /\ Len(sent) \in Nat /\ Len(buffer) \in Nat
      /\ Len(dispatched) <= Len(sent) /\ session \in Nat
  BY <1>t DEF TypeOK, IInv, InOrder
<1>1. ASSUME NEW kind \in Kinds, ClientSend(kind) PROVE MInv'
  <2> DEFINE p == [ses |-> session, idx |-> Len(sent) + 1, kind |-> kind]
  <2>1. p \in Packet /\ p.ses = session BY <1>n DEF Packet
  <2> HIDE DEF p
  <2>2. sent' = Append(sent, p) /\ UNCHANGED <<session, buffer, dispatched, delivered>>
    BY <1>1 DEF ClientSend, p
  <2>3. /\ Len(sent') = Len(sent) + 1 /\ sent'[Len(sent) + 1] = p
        /\ \A i \in 1..Len(sent) : sent'[i] = sent[i]
    BY <1>t, <2>1, <2>2 DEF TypeOK
  <2>4. \A i \in 1..Len(sent') : sent'[i].ses = session
    <3>1. \A i \in 1..Len(sent) : sent[i].ses = session BY DEF MInv
    <3>2. \A i \in 1..Len(sent') : i \in 1..Len(sent) \/ i = Len(sent) + 1 BY <1>n, <2>3
    <3> QED BY <2>1, <2>3, <3>1, <3>2, Zenon
  <2>5. \A i \in 1..Len(dispatched) : sent'[i] = sent[i] BY <1>n, <2>3
  <2> QED BY <1>t, <2>2, <2>4, <2>5, QuietMInv, Zenon
<1>2. CASE HandleSyn
  <2>1. /\ session' = session + 1 /\ Len(sent') = 0 /\ Len(dispatched') = 0
        /\ delivered' = <<>> /\ buffer' = buffer
    BY <1>2 DEF HandleSyn
  <2>2. \A j \in 1..Len(buffer) : buffer[j].ses <= session' /\ buffer[j].ses # session'
    <3>1. \A j \in 1..Len(buffer) : buffer[j] \in Packet BY <1>t DEF TypeOK
    <3>2. \A j \in 1..Len(buffer) : buffer[j].ses \in Nat BY <3>1 DEF Packet
    <3> QED BY <1>n, <2>1, <3>2 DEF MInv
  <2>3. Own(buffer)' = {}
    <3>1. DOMAIN buffer = 1..Len(buffer) BY <1>t DEF TypeOK
    <3> QED BY <2>1, <2>2, <3>1 DEF Own
  <2>4. Start(Len(delivered) + 1)' = 0 BY <2>1 DEF Start
  <2>5. Fragments(0, 0)' = {} BY DEF Fragments
  <2>6. Ordered(buffer, Start(Len(delivered) + 1), Len(dispatched))'
    BY <2>1, <2>3, <2>4, <2>5 DEF Ordered
  <2>7. \A j \in 1..Len(buffer') : buffer'[j].kind = "fragment" /\ buffer'[j].ses <= session'
    BY <2>1, <2>2 DEF MInv
  <2>8. Len(delivered') = 0 BY <2>1
  <2> QED BY <2>1, <2>4, <2>6, <2>7, <2>8 DEF MInv
<1>3. CASE HandleConnect
  BY <1>3, <1>t, QuietMInv DEF HandleConnect, MInv
<1>4. ASSUME NEW i \in 1..Len(sent), Receive(i) PROVE MInv'
  BY <1>4, <1>t, QuietMInv DEF Receive, HandleReliable, HandlePing, MInv
<1>5. CASE DispatchNext
  <2>1. connState = "connected" /\ UNCHANGED <<session, sent>> BY <1>5 DEF DispatchNext, IInv
  <2>2. PICK p \in queue : /\ SequenceID(p) = nextExpected
                           /\ Reassemble(p)
                           /\ dispatched' = Append(dispatched, p)
    BY <1>5 DEF DispatchNext
  <2>3. p.idx = Len(dispatched) + 1 /\ p = sent[p.idx] /\ p.idx \in 1..Len(sent)
    BY <2>1, <2>2, NextIsNext
  <2>4. p \in Packet /\ p.ses = session BY <1>t, <2>3 DEF TypeOK, MInv
  <2>5. Len(dispatched') = Len(dispatched) + 1 BY <1>t, <2>2, <2>4 DEF TypeOK
  <2> DEFINE D == Len(dispatched)
             from == Start(Len(delivered) + 1)
  <2>6. from \in Nat /\ from <= D /\ D \in Nat BY <1>n DEF MInv
  <2>7. \A m, s, e : Ordered(m, s, e)' = Ordered(m, s, e) /\ Own(m)' = Own(m)
    BY <2>1 DEF Ordered, Own, Fragments
  <2>k. ASSUME delivered' = delivered, NEW k \in 1..Len(delivered) PROVE Delivered(k)'
    <3>1. Delivered(k) BY DEF MInv
    <3>2. Start(k)' = Start(k) /\ LastIdx(delivered[k])' = LastIdx(delivered[k])
      BY <2>k DEF Start, LastIdx
    <3>3. Message(delivered[k])' = Message(delivered[k]) BY <2>k DEF Message
    <3>4. /\ Ordered(delivered[k], Start(k), LastIdx(delivered[k]))'
          /\ Own(delivered[k])' = Own(delivered[k])
      BY <2>7, <2>k, <3>1, <3>2 DEF Delivered
    <3>5. LastIdx(delivered[k]) \in 1..(Len(dispatched) + 1) BY <1>n, <3>1 DEF Delivered
    <3> QED BY <2>5, <2>k, <3>1, <3>2, <3>3, <3>4, <3>5 DEF Delivered
  <2>8. CASE p.kind = "ping"
    <3>1. UNCHANGED <<buffer, delivered>> BY <2>2, <2>8 DEF Reassemble
    <3>2. Fragments(from, D + 1) = Fragments(from, D)
      BY <2>3, <2>6, <2>8 DEF Fragments
    <3>3. Ordered(buffer, from, D + 1) BY <3>2 DEF Ordered, MInv
    <3>4. \A k : Start(k)' = Start(k) BY <3>1 DEF Start, LastIdx
    <3>5. Ordered(buffer, Start(Len(delivered) + 1), Len(dispatched))'
      BY <2>5, <2>7, <3>1, <3>3, <3>4
    <3>6. Own(buffer)' = Own(buffer) BY <2>7, <3>1
    <3>7. Start(Len(delivered) + 1)' \in 0..Len(dispatched') BY <2>5, <2>6, <3>1, <3>4
    <3>8. \A k \in 1..Len(delivered') : Delivered(k)' BY <2>k, <3>1
    <3> HIDE DEF from, D
    <3> QED BY <2>1, <3>1, <3>5, <3>6, <3>7, <3>8 DEF MInv
  <2>9. ASSUME p.kind # "ping"
        PROVE  /\ Ordered(Append(buffer, p), from, D + 1)
               /\ Own(Append(buffer, p)) = Own(buffer) \cup {Len(buffer) + 1}
               /\ LastIdx(Append(buffer, p)) = D + 1
    <3>1. Ordered(buffer, from, D) BY DEF MInv
    <3>2. buffer \in Seq(Packet) BY <1>t DEF TypeOK
    <3>3. p.idx = D + 1 /\ sent[D + 1].kind # "ping" BY <2>3, <2>9
    <3> HIDE DEF from, D
    <3> QED BY <1>t, <2>4, <2>6, <3>1, <3>2, <3>3, OrderedAppend
  <2> DEFINE m == Append(buffer, p)
  <2>m. /\ m \in Seq(Packet) /\ Len(m) = Len(buffer) + 1 /\ m[Len(buffer) + 1] = p
        /\ DOMAIN m = DOMAIN buffer \cup {Len(buffer) + 1} /\ DOMAIN buffer = 1..Len(buffer)
        /\ \A j \in 1..Len(buffer) : m[j] = buffer[j]
    <3>1. buffer \in Seq(Packet) BY <1>t DEF TypeOK
    <3> QED BY <2>4, <3>1
  <2> HIDE DEF m
  <2>d. delivered # <<>> => Own(buffer) = DOMAIN buffer BY DEF MInv
  <2>10. CASE p.kind = "fragment"
    <3>1. buffer' = m /\ delivered' = delivered BY <2>2, <2>10 DEF Reassemble, m
    <3>2. Ordered(m, from, D + 1) /\ Own(m) = Own(buffer) \cup {Len(buffer) + 1}
      BY <2>9, <2>10 DEF m
    <3>3. \A j \in 1..Len(m) : m[j].kind = "fragment" /\ m[j].ses <= session
      <4>1. \A j \in 1..Len(buffer) : buffer[j].kind = "fragment" /\ buffer[j].ses <= session
        BY DEF MInv
      <4> QED BY <1>n, <2>4, <2>10, <2>m, <4>1
    <3>4. \A k : Start(k)' = Start(k) BY <3>1 DEF Start, LastIdx
    <3>5. Ordered(buffer, Start(Len(delivered) + 1), Len(dispatched))'
      BY <2>5, <2>7, <3>1, <3>2, <3>4
    <3>6. \A k \in 1..Len(delivered') : Delivered(k)' BY <2>k, <3>1
    <3>7. Own(buffer)' = Own(m) BY <2>7, <3>1
    <3>8. delivered' # <<>> => Own(buffer)' = DOMAIN buffer'
      BY <2>m, <2>d, <3>1, <3>2, <3>7
    <3>9. Start(Len(delivered) + 1)' \in 0..Len(dispatched') BY <2>5, <2>6, <3>1, <3>4
    <3> HIDE DEF from, D
    <3> QED BY <2>1, <3>1, <3>3, <3>5, <3>6, <3>8, <3>9 DEF MInv
  <2>11. CASE p.kind = "last"
    <3> DEFINE K == Len(delivered) + 1
    <3>1. buffer' = <<>> /\ delivered' = Append(delivered, m) BY <2>2, <2>11 DEF Reassemble, m
    <3>2. /\ Ordered(m, from, D + 1) /\ Own(m) = Own(buffer) \cup {Len(buffer) + 1}
          /\ LastIdx(m) = D + 1
      BY <2>9, <2>11 DEF m
    <3>3. Message(m)
      <4>1. \A j \in DOMAIN buffer : m[j].kind = "fragment" /\ j # Len(m)
        BY <1>n, <2>m DEF MInv
      <4> QED BY <2>11, <2>m, <4>1 DEF Message
    <3>4. /\ Len(delivered') = K /\ delivered'[K] = m
          /\ \A k \in 1..Len(delivered) : delivered'[k] = delivered[k]
      BY <1>t, <2>m, <3>1, SMTT(30) DEF TypeOK
    <3>5. \A k \in 1..K : Start(k)' = Start(k)
      BY <1>n, <3>4 DEF Start, LastIdx
    <3>6. Start(Len(delivered) + 1)' = D + 1
      BY <1>n, <3>2, <3>4 DEF Start, LastIdx
    <3>7. Ordered(buffer, Start(Len(delivered) + 1), Len(dispatched))'
      <4>1. Ordered(<<>>, D + 1, D + 1) BY <2>6 DEF Ordered, Own, Fragments
      <4> QED BY <2>5, <2>7, <3>1, <3>6, <4>1
    <3>8. ASSUME NEW k \in 1..K
          PROVE  Delivered(k)'
      <4>1. CASE k = K
        <5>1. k > 1 => Own(m) = DOMAIN m
          <6>1. k > 1 => delivered # <<>> BY <4>1
          <6> QED BY <2>m, <2>d, <3>2, <6>1
        <5>2. delivered'[k] = m /\ Start(k)' = from BY <3>4, <3>5, <4>1
        <5>3. LastIdx(delivered[k])' = D + 1 BY <3>2, <5>2 DEF LastIdx
        <5>4. Message(delivered[k])' BY <3>3, <5>2 DEF Message
        <5>5. Ordered(delivered[k], Start(k), LastIdx(delivered[k]))'
          BY <2>7, <3>2, <5>2, <5>3
        <5>6. Own(delivered[k])' = Own(m) BY <2>7, <5>2
        <5>7. from \in Nat /\ D + 1 \in 1..Len(dispatched') BY <2>5, <2>6
        <5> QED BY <5>1, <5>2, <5>3, <5>4, <5>5, <5>6, <5>7 DEF Delivered
      <4>2. CASE k \in 1..Len(delivered)
        <5>1. delivered'[k] = delivered[k] /\ Start(k)' = Start(k) BY <1>n, <3>4, <3>5, <4>2
        <5>2. LastIdx(delivered[k])' = LastIdx(delivered[k]) BY <5>1 DEF LastIdx
        <5>3. Message(delivered[k])' = Message(delivered[k]) BY <5>1 DEF Message
        <5>4. Delivered(k) BY <4>2 DEF MInv
        <5>5. /\ Ordered(delivered[k], Start(k), LastIdx(delivered[k]))'
              /\ Own(delivered[k])' = Own(delivered[k])
          BY <2>7, <5>1, <5>2, <5>4 DEF Delivered
        <5>6. LastIdx(delivered[k]) \in 1..Len(dispatched') BY <1>n, <2>5, <5>4 DEF Delivered
        <5> QED BY <5>1, <5>2, <5>3, <5>4, <5>5, <5>6 DEF Delivered
      <4> QED BY <1>n, <4>1, <4>2
    <3>9. Own(buffer)' = DOMAIN buffer' BY <3>1 DEF Own
    <3> HIDE DEF from, D, K
    <3>10. \A i \in 1..Len(sent') : sent'[i].ses = session' BY <2>1 DEF MInv
    <3>11. Start(Len(delivered) + 1)' \in 0..Len(dispatched') BY <2>5, <2>6, <3>6 DEF D
    <3>12. Len(buffer') = 0 BY <3>1
    <3>13. \A k \in 1..Len(delivered') : Delivered(k)' BY <3>4, <3>8
    <3> QED BY <3>7, <3>9, <3>10, <3>11, <3>12, <3>13 DEF MInv
  <2> QED BY <2>4, <2>8, <2>10, <2>11 DEF Packet
<1>6. CASE DispatchDone
  BY <1>6, <1>t, QuietMInv DEF DispatchDone, MInv
<1>7. CASE UNCHANGED vars
  BY <1>7, <1>t, QuietMInv DEF vars, MInv
<1> QED BY <1>1, <1>2, <1>3, <1>4, <1>5, <1>6, <1>7 DEF Next

\* A message HandleReliable emits consists of all fragments since the message before it,
\* in their order, behind what an earlier session may have left in the fragment buffer.
THEOREM MessagesOrderedHolds ==
    ASSUME ShortSession, ~LateConnect
    PROVE  Spec => []MessagesOrdered
  <1>1. IInv /\ MInv => MessagesOrdered BY MInvImplies DEF IInv
  <1>2. IInv /\ IInv' /\ MInv /\ [Next]_vars => MInv' BY NextMInv
  <1>. QED BY <1>1, <1>2, InitMInv, IInvHolds, PTL DEF Spec
==============================================================================
