------------------------ MODULE OutboundStream_proofs ------------------------
(***************************************************************************)
(* Proofs about the packets the server sends.                              *)
(*                                                                         *)
(* Unreliable: FreshKeyReadsAlways, for every number of key values.        *)
(*                                                                         *)
(* OutboundStream, for any limits and any number of windows and sessions,  *)
(* with all races: TypeCorrect, and as long as the server sends fewer      *)
(* packets than there are sequence IDs, NothingLostAlways and              *)
(* AckedNotResentAlways.                                                   *)
(*                                                                         *)
(* An acknowledgement names a sequence ID, and what it takes away is found *)
(* by window and sequence ID.  So the invariant has to say that within a   *)
(* window the sequence IDs grow with the order of sending (Numbered), and  *)
(* that the packets of a session that is being set up were all sent early  *)
(* (EarlyOnly), because their goroutines stop when they wake up then.      *)
(* For packets that are not sent again it has to say that one that was     *)
(* acknowledged is no longer pending in the window in use (AckedGone).     *)
(***************************************************************************)
EXTENDS Unreliable, OutboundStream, TLAPS

------------------------------------------------------------------------------
(* Unreliable packets *)

\* The values of a byte of the key
KeyBytes == 0..(KeyValues - 1)

\* The remainder of a number written as quotient and remainder
LEMMA Remainder ==
    ASSUME NEW n \in Nat \ {0}, NEW q \in Nat, NEW r \in Nat, r < n
    PROVE  (n * q + r) % n = r
<1> DEFINE a == n * q + r
           x == a \div n
           y == a % n
<1>1. a \in Nat OBVIOUS
<1>2. x \in Nat /\ y \in Nat /\ y < n /\ a = n * x + y BY <1>1
<1> HIDE DEF x, y
<1>3. n * q + r = n * x + y BY <1>2
<1>4. x = q
  <2>1. CASE x < q
    <3>1. n * q >= n * x + n
      <4> DEFINE k == q - x - 1
      <4>1. k \in Nat /\ q = x + 1 + k BY <2>1, <1>2
      <4> HIDE DEF k
      <4>2. n * q = n * x + n + n * k /\ n * k \in Nat BY <4>1, <1>2
      <4> QED BY <4>2, <1>2
    <3> QED BY <1>2, <1>3, <3>1
  <2>2. CASE q < x
    <3>1. n * x >= n * q + n
      <4> DEFINE k == x - q - 1
      <4>1. k \in Nat /\ x = q + 1 + k BY <2>2, <1>2
      <4> HIDE DEF k
      <4>2. n * x = n * q + n + n * k /\ n * k \in Nat BY <4>1, <1>2
      <4> QED BY <4>2, <1>2
    <3> QED BY <1>2, <1>3, <3>1
  <2> QED BY <1>2, <2>1, <2>2
<1>5. y = r BY <1>2, <1>3, <1>4
<1> QED BY <1>5 DEF y

\* Adding to a byte of the key makes the byte of the client's key if and only if
\* the byte was zero.
LEMMA ByteShift ==
    ASSUME NEW b \in KeyBytes, NEW d \in Nat
    PROVE  /\ (b + d) % KeyValues \in KeyBytes
           /\ (b + d) % KeyValues = d % KeyValues <=> b = 0
<1>1. KeyValues \in Nat \ {0} BY UnreliableAssumption
<1>2. b \in Nat /\ b < KeyValues BY <1>1 DEF KeyBytes
<1>3. (b + d) % KeyValues \in KeyBytes BY <1>1, <1>2 DEF KeyBytes
<1> DEFINE q == d \div KeyValues
           r == d % KeyValues
<1>4. q \in Nat /\ r \in Nat /\ r < KeyValues /\ d = KeyValues * q + r BY <1>1
<1> HIDE DEF q, r
<1>5. CASE b + r < KeyValues
  <2>1. b + d = KeyValues * q + (b + r) BY <1>1, <1>2, <1>4
  <2>2. (b + d) % KeyValues = b + r BY <1>1, <1>2, <1>4, <1>5, <2>1, Remainder
  <2>3. b + r = r <=> b = 0 BY <1>2, <1>4
  <2> QED BY <1>3, <2>2, <2>3 DEF r
<1>6. CASE ~(b + r < KeyValues)
  <2> DEFINE s == b + r - KeyValues
  <2>1. s \in Nat /\ s < KeyValues /\ q + 1 \in Nat /\ b + d = KeyValues * (q + 1) + s
    BY <1>1, <1>2, <1>4, <1>6
  <2> HIDE DEF s
  <2>2. (b + d) % KeyValues = s BY <1>1, <2>1, Remainder, Zenon
  <2>3. s # r /\ b # 0 BY <1>1, <1>2, <1>4, <1>6 DEF s
  <2> QED BY <1>3, <2>2, <2>3 DEF r
<1> QED BY <1>5, <1>6

\* What the packets on their way were encrypted with
NIInv ==
    /\ baseKey \in [1..3 -> KeyBytes]
    /\ unreliableCounter \in Nat
    /\ \A p \in toServer : p.seq \in Nat /\ p.key = PeerKey(p.seq)
    /\ \A p \in toClient : p.fresh <=> p.key = PeerKey(p.seq)
    /\ FreshKeyReads

\* processUnreliable's key is the one the other end makes exactly if the key it starts from
\* is still the session's.
LEMMA FreshKey ==
    ASSUME NEW base \in [1..3 -> KeyBytes], NEW seq \in Nat
    PROVE  /\ UniqueKey(base, seq) \in [1..3 -> KeyBytes]
           /\ UniqueKey(base, seq) = PeerKey(seq) <=> base = SessionBaseKey
<1>1. \A i \in 1..3 : IDs(seq)[i] \in Nat BY UnreliableAssumption DEF IDs
<1>2. \A i \in 1..3 : /\ (base[i] + IDs(seq)[i]) % KeyValues \in KeyBytes
                      /\ (base[i] + IDs(seq)[i]) % KeyValues = IDs(seq)[i] % KeyValues <=> base[i] = 0
  <2> SUFFICES ASSUME NEW i \in 1..3 
               PROVE  /\ (base[i] + IDs(seq)[i]) % KeyValues \in KeyBytes
                      /\ (base[i] + IDs(seq)[i]) % KeyValues = IDs(seq)[i] % KeyValues <=> base[i] = 0
    OBVIOUS
  <2>1. base[i] \in KeyBytes /\ IDs(seq)[i] \in Nat BY <1>1
  <2> QED BY <2>1, ByteShift
<1>3. UniqueKey(base, seq) \in [1..3 -> KeyBytes] BY <1>2 DEF UniqueKey
<1>4. UniqueKey(base, seq) = PeerKey(seq) <=> \A i \in 1..3 : base[i] = 0
  BY <1>2 DEF UniqueKey, PeerKey
<1>5. base = SessionBaseKey <=> \A i \in 1..3 : base[i] = 0
  <2>1. SessionBaseKey = [i \in 1..3 |-> 0] BY DEF SessionBaseKey
  <2> QED BY <2>1
<1> QED BY <1>3, <1>4, <1>5

\* A session starts with its base key.
LEMMA NInitInv == NInit => NIInv
<1> SUFFICES ASSUME NInit PROVE NIInv
  OBVIOUS
<1>1. 0 \in KeyBytes BY UnreliableAssumption DEF KeyBytes
<1> QED BY <1>1 DEF NInit, NIInv, SessionBaseKey, FreshKeyReads

\* Every unreliable packet that is sent or read keeps the invariant.
LEMMA NNextInv == NIInv /\ [NNext]_nvars => NIInv'
<1> SUFFICES ASSUME NIInv, [NNext]_nvars PROVE NIInv'
  OBVIOUS
<1> USE DEF NIInv
<1>1. ASSUME NEW seq \in ClientSequenceIDs, NEW fragment \in {0, 1},
             ClientSendsUnreliable(seq, fragment)
      PROVE  NIInv'
  <2>1. seq \in Nat BY UnreliableAssumption
  <2> QED BY <1>1, <2>1 DEF ClientSendsUnreliable, FreshKeyReads, PeerKey, IDs
<1>2. CASE ServerSendsUnreliable
  <2>1. unreliableCounter' \in Nat BY <1>2 DEF ServerSendsUnreliable
  <2>2. baseKey' \in [1..3 -> KeyBytes]
    BY <1>2, <2>1, FreshKey DEF ServerSendsUnreliable
  <2>3. baseKey' = PeerKey(unreliableCounter') <=> baseKey = SessionBaseKey
    BY <1>2, <2>1, FreshKey, Zenon DEF ServerSendsUnreliable
  <2>4. \A p \in toClient' : p.fresh <=> p.key = PeerKey(p.seq)
    <3> DEFINE new == [seq |-> unreliableCounter', key |-> baseKey',
                       fresh |-> baseKey = SessionBaseKey]
    <3>1. new.seq = unreliableCounter' /\ new.key = baseKey'
          /\ (new.fresh <=> baseKey = SessionBaseKey)
      BY Zenon
    <3>2. toClient' = toClient \cup {new} BY <1>2 DEF ServerSendsUnreliable
    <3> HIDE DEF new
    <3>3. new.fresh <=> new.key = PeerKey(new.seq) BY <2>3, <3>1
    <3> QED BY <3>2, <3>3
  <2> QED BY <1>2, <2>1, <2>2, <2>4 DEF ServerSendsUnreliable, FreshKeyReads, PeerKey, IDs
<1>3. ASSUME NEW p \in toServer, HandleUnreliable(p) PROVE NIInv'
  <2>1. CASE p.fragment # 0
    BY <1>3, <2>1 DEF HandleUnreliable, FreshKeyReads, PeerKey, IDs
  <2>2. CASE ~(p.fragment # 0)
    <3>1. p.seq \in Nat /\ p.key = PeerKey(p.seq) OBVIOUS
    <3>2. baseKey' \in [1..3 -> KeyBytes] /\ (baseKey' = p.key <=> baseKey = SessionBaseKey)
      <4>1. baseKey' = UniqueKey(baseKey, p.seq) BY <1>3, <2>2 DEF HandleUnreliable
      <4> QED BY <3>1, <4>1, FreshKey
    <3>3. FreshKeyReads' BY <1>3, <2>2, <3>2 DEF HandleUnreliable, FreshKeyReads
    <3> QED BY <1>3, <3>2, <3>3 DEF HandleUnreliable, PeerKey, IDs
  <2> QED BY <2>1, <2>2
<1>4. ASSUME NEW p \in toClient, ClientReadsUnreliable(p) PROVE NIInv'
  BY <1>4, Zenon DEF ClientReadsUnreliable, FreshKeyReads, PeerKey, IDs
<1>5. CASE UNCHANGED nvars
  BY <1>5 DEF nvars, FreshKeyReads, PeerKey, IDs
<1> QED BY <1>1, <1>2, <1>3, <1>4, <1>5 DEF NNext

\* The unreliable packets of either end are read right exactly as long as the server has made
\* no key before, for every size of the IDs and of a byte of the key.
THEOREM FreshKeyReadsAlways == NSpec => []FreshKeyReads
<1>1. NIInv => FreshKeyReads BY DEF NIInv
<1> QED BY <1>1, NInitInv, NNextInv, PTL DEF NSpec

------------------------------------------------------------------------------
(* The outbound substream *)

SentPacket == [session : 1..MaxSessions, window : 1..MaxWindows, seq : 0..(SeqMod - 1),
               count : 1..MaxPacketRetransmissions, early : BOOLEAN]

Established == connState \in {"connecting", "connected"} => session >= 1

Numbered ==
    /\ \A i \in DOMAIN sent : sent[i].session <= session /\ sent[i].window <= windows
    /\ \A i, j \in DOMAIN sent : i < j /\ sent[i].window = sent[j].window => sent[i].seq < sent[j].seq
    /\ \A i \in DOMAIN sent : sent[i].window = window => sent[i].seq <= counter
    /\ counter <= Len(sent)

EarlyOnly ==
    connState \notin {"connected", "closed"} =>
        \A i \in DOMAIN sent : sent[i].session = session => sent[i].early

OutboundType == TypeOK /\ Established /\ Len(sent) <= MaxPackets

OutboundInv == OutboundType /\ Numbered /\ EarlyOnly /\ NothingLost

\* The connection object starts with nothing sent.
LEMMA OutboundInitInv == Init => OutboundInv
<1> SUFFICES ASSUME Init PROVE OutboundInv
  OBVIOUS
<1>1. sent = <<>> /\ Len(sent) = 0 /\ DOMAIN sent = {}
  BY DEF Init
<1>2. TypeOK
  <2>1. sent \in Seq(SentPacket)
    BY <1>1
  <2>2. stale \in BOOLEAN /\ connState \in {"not_connected", "connecting", "connected", "closed"}
    BY Zenon DEF Init
  <2>3. QED
    BY <2>1, <2>2, OutboundAssumption DEF Init, TypeOK, SentPacket
<1>3. QED
  BY <1>1, <1>2, OutboundAssumption
  DEF Init, OutboundInv, OutboundType, Established, Numbered, EarlyOnly, NothingLost

\* The sequence of sent packets as sendPacket extends it
LEMMA Extended ==
    ASSUME NEW S, NEW s \in Seq(S), NEW e \in S
    PROVE  /\ Append(s, e) \in Seq(S)
           /\ Len(Append(s, e)) = Len(s) + 1
           /\ DOMAIN Append(s, e) = DOMAIN s \cup {Len(s) + 1}
           /\ \A i \in DOMAIN s : Append(s, e)[i] = s[i] /\ i <= Len(s)
           /\ Append(s, e)[Len(s) + 1] = e
OBVIOUS

\* What sending does to the numbers of the packets
LEMMA SendFacts ==
    ASSUME OutboundType, Send
    PROVE  /\ sent' \in Seq(SentPacket) /\ Len(sent') = Len(sent) + 1 /\ Len(sent') <= MaxPackets
           /\ DOMAIN sent' = DOMAIN sent \cup {Len(sent) + 1}
           /\ \A i \in DOMAIN sent : sent'[i] = sent[i] /\ i <= Len(sent)
           /\ LET e == sent'[Len(sent) + 1]
              IN  /\ e.session = session /\ e.window = window' /\ e.seq = counter'
                  /\ e.early = (connState # "connected")
           /\ \/ window = 0 /\ window' = windows + 1 /\ windows' = windows + 1
                 /\ counter' = 1 % SeqMod
              \/ window # 0 /\ UNCHANGED <<window, windows>> /\ counter' = (counter + 1) % SeqMod
           /\ windows' \in 0..MaxWindows /\ window' \in 1..windows' /\ counter' \in 0..(SeqMod - 1)
           /\ UNCHANGED <<connState, session, got, stale, acked, sampled>>
<1> USE OutboundAssumption DEF OutboundType
<1>1. UNCHANGED <<connState, session, got, stale, acked, sampled>> /\ Len(sent) < MaxPackets
  BY DEF Send
<1>2. \/ window = 0 /\ window' = windows + 1 /\ windows' = windows + 1 /\ counter' = 1 % SeqMod
         /\ windows < MaxWindows
      \/ window # 0 /\ UNCHANGED <<window, windows>> /\ counter' = (counter + 1) % SeqMod
  BY DEF Send
<1>3. windows' \in 0..MaxWindows /\ window' \in 1..windows'
  BY <1>2 DEF TypeOK
<1>4. counter' \in 0..(SeqMod - 1)
  BY <1>2 DEF TypeOK
<1> DEFINE e == [session |-> session, window |-> window', seq |-> counter', count |-> 1,
                 early |-> connState # "connected"]
<1>5. sent' = Append(sent, e)
  BY DEF Send
<1>6. session \in 1..MaxSessions
  BY DEF Send, Established, TypeOK
<1>7. (connState # "connected") \in BOOLEAN
  OBVIOUS
<1>8. e \in SentPacket
  BY <1>3, <1>4, <1>6, <1>7 DEF SentPacket
<1>9. e.session = session /\ e.window = window' /\ e.seq = counter' /\ e.early = (connState # "connected")
  OBVIOUS
<1> HIDE DEF e
<1>10. sent \in Seq(SentPacket) /\ Len(sent) \in Nat
  BY DEF TypeOK, SentPacket
<1>11. QED
  BY <1>1, <1>2, <1>3, <1>4, <1>5, <1>8, <1>9, <1>10, Extended

\* The elements of a sequence are of its type.
LEMMA ElementType == ASSUME NEW S, NEW s \in Seq(S) PROVE \A i \in DOMAIN s : s[i] \in S
OBVIOUS

\* The packets sent so far, as a sequence.
LEMMA SentType ==
    ASSUME OutboundType
    PROVE  /\ sent \in Seq(SentPacket) /\ Len(sent) \in Nat /\ DOMAIN sent = 1..Len(sent)
           /\ \A i \in DOMAIN sent : sent[i] \in SentPacket
<1>1. sent \in Seq(SentPacket)
  BY DEF OutboundType, TypeOK, SentPacket
<1>2. QED
  BY <1>1, ElementType

\* Timeout and the handlers of sessions and acknowledgements change of the sent packets
\* at most the send count, and take entries away.
SentKept ==
    /\ sent' \in Seq(SentPacket) /\ Len(sent') = Len(sent) /\ DOMAIN sent' = DOMAIN sent
    /\ \A i \in DOMAIN sent :
          /\ sent'[i].session = sent[i].session /\ sent'[i].window = sent[i].window
          /\ sent'[i].seq = sent[i].seq /\ sent'[i].early = sent[i].early

\* A step that neither sends nor resends keeps the packets.
LEMMA UnchangedKept == OutboundType /\ UNCHANGED sent => SentKept
BY DEF OutboundType, TypeOK, SentKept, SentPacket

\* sendPacket again: a packet that is resent keeps its window and its sequence ID.
LEMMA ResendKept ==
    ASSUME OutboundType, NEW i \in DOMAIN sent, Resend(i)
    PROVE  SentKept
<1> USE OutboundAssumption DEF OutboundType
<1>1. sent \in Seq(SentPacket) /\ sent[i] \in SentPacket
  BY SentType
<1>c. sent[i].count < MaxPacketRetransmissions
  BY DEF Resend
<1> DEFINE e == [sent[i] EXCEPT !.count = @ + 1]
<1>2. sent' = [sent EXCEPT ![i] = e]
  BY DEF Resend
<1>3. /\ e \in SentPacket
      /\ e.session = sent[i].session /\ e.window = sent[i].window
      /\ e.seq = sent[i].seq /\ e.early = sent[i].early
  <2>1. sent[i].count + 1 \in 1..MaxPacketRetransmissions
    <3>1. sent[i].count \in 1..MaxPacketRetransmissions
      BY <1>1 DEF SentPacket
    <3>2. QED
      BY <1>c, <3>1
  <2> DEFINE n == sent[i].count + 1
  <2>2. e = [sent[i] EXCEPT !.count = n]
    OBVIOUS
  <2> HIDE DEF n
  <2>3. n \in 1..MaxPacketRetransmissions
    BY <2>1 DEF n
  <2> HIDE DEF e
  <2>4. e \in SentPacket
    BY <1>1, <2>2, <2>3, Zenon DEF SentPacket
  <2>5. /\ e.session = sent[i].session /\ e.window = sent[i].window
        /\ e.seq = sent[i].seq /\ e.early = sent[i].early
    BY <1>1, <2>2 DEF SentPacket
  <2>6. QED
    BY <2>4, <2>5
<1> HIDE DEF e
<1>4. /\ sent' \in Seq(SentPacket) /\ Len(sent') = Len(sent) /\ DOMAIN sent' = DOMAIN sent
      /\ \A j \in DOMAIN sent : sent'[j] = IF j = i THEN e ELSE sent[j]
  BY <1>1, <1>2, <1>3
<1>5. QED
  BY <1>3, <1>4 DEF SentKept

\* TimeoutManager.Stop: what was pending goes, and nothing is added.
LEMMA StopWindowFacts ==
    ASSUME NEW ending, StopWindow(ending)
    PROVE  window' = 0 /\ pending' \subseteq pending /\ waiting' \subseteq waiting
BY DEF StopWindow

\* Timeout, taken apart
LEMMA TimeoutFacts ==
    ASSUME OutboundType, NEW i \in DOMAIN sent, Timeout(i)
    PROVE  /\ SentKept
           /\ pending' \subseteq pending /\ waiting' \subseteq waiting
           /\ window' \in {0, window} /\ connState' \in {connState, "closed"}
           /\ UNCHANGED <<session, windows, counter, got, stale, acked, sampled>>
           /\ connState' = "connected" =>
                 /\ UNCHANGED <<connState, window, pending>>
                 /\ waiting' = waiting \/ (waiting' = waiting \ {i} /\ i \notin pending)
<1>1. UNCHANGED <<session, windows, counter, got, stale, acked, sampled>>
  BY DEF Timeout
<1>2. CASE Resend(i)
  BY <1>1, <1>2, ResendKept, Zenon DEF Resend
<1>3. CASE GiveUp(i)
  <2>1. connState' = "closed" /\ StopWindow({i}) /\ UNCHANGED sent
    BY <1>3 DEF GiveUp, Close
  <2>2. QED
    BY <1>1, <2>1, StopWindowFacts, UnchangedKept
<1>4. CASE StopWaiting(i)
  <2>1. /\ connState # "connected" \/ ~Has(i)
        /\ waiting' = waiting \ {i} /\ UNCHANGED <<connState, window, sent, pending>>
    BY <1>4 DEF StopWaiting
  <2>2. ~Has(i) => i \notin pending
    BY DEF Has, SameSlot
  <2>3. QED
    BY <1>1, <2>1, <2>2, UnchangedKept
<1>5. QED
  BY <1>2, <1>3, <1>4 DEF Timeout

\* An acknowledgement, taken apart: seqs are the sequence IDs it stops.
LEMMA AckFacts ==
    ASSUME OutboundType, NEW seqs, AcknowledgePackets(seqs)
    PROVE  /\ pending' \subseteq pending
           /\ \A j \in pending \ pending' : sent[j].window = window /\ sent[j].seq \in seqs
           /\ sampled' \subseteq Nat
<1>1. pending \subseteq DOMAIN sent /\ sampled \subseteq Nat
  BY DEF OutboundType, TypeOK
<1>2. \A j \in pending : sent[j].count \in Nat
  BY <1>1, SentType, OutboundAssumption DEF SentPacket
<1>3. QED
  BY <1>1, <1>2, Zenon DEF AcknowledgePackets

\* Every step of sender, timers and acknowledgements keeps the types.
LEMMA OutboundNextType == OutboundType /\ [Next]_vars => OutboundType'
<1> SUFFICES ASSUME OutboundType, [Next]_vars PROVE OutboundType'
  OBVIOUS
<1> USE OutboundAssumption DEF OutboundType
<1>t. TypeOK /\ sent \in Seq(SentPacket) /\ Len(sent) \in Nat
  BY SentType
<1>1. CASE Send
  <2>1. Established'
    BY <1>1, SendFacts DEF Established
  <2>2. pending' \cup waiting' \subseteq DOMAIN sent'
    BY <1>1, <1>t, SendFacts, Zenon DEF Send, TypeOK
  <2>3. got' \cup acked' \subseteq DOMAIN sent'
    BY <1>1, <1>t, SendFacts DEF TypeOK
  <2>4. TypeOK'
    <3>1. sent' \in Seq(SentPacket) /\ windows' \in 0..MaxWindows /\ window' \in 0..windows'
      BY <1>1, <1>t, SendFacts DEF TypeOK
    <3>2. /\ counter' \in 0..(SeqMod - 1)
          /\ UNCHANGED <<connState, session, got, stale, acked, sampled>>
      BY <1>1, SendFacts
    <3>3. QED
      BY <1>t, <2>2, <2>3, <3>1, <3>2 DEF TypeOK, SentPacket
  <2>5. QED
    BY <1>1, <2>1, <2>4, SendFacts
<1>k. UNCHANGED sent => SentKept
  BY UnchangedKept
<1>s. ASSUME SentKept,
             pending' \cup waiting' \cup got' \cup acked' \subseteq DOMAIN sent,
             connState' \in {"not_connected", "connecting", "connected", "closed"},
             session' \in 0..MaxSessions, windows' \in 0..MaxWindows, window' \in 0..windows',
             counter' \in 0..(SeqMod - 1), stale' \in BOOLEAN, sampled' \subseteq Nat, Established'
      PROVE  OutboundType'
  BY <1>s, <1>t DEF SentKept, TypeOK, SentPacket
<1>2. CASE HandleSyn
  <2>1. /\ session' = session + 1 /\ session < MaxSessions /\ connState' = "connecting"
        /\ UNCHANGED <<windows, counter, sent, got, stale, acked, sampled>>
        /\ window' = 0 /\ pending' \subseteq pending /\ waiting' \subseteq waiting
    BY <1>2, StopWindowFacts DEF HandleSyn
  <2>2. QED
    BY <1>k, <1>s, <1>t, <2>1 DEF TypeOK, Established
<1>3. CASE HandleConnect
  <2>1. /\ windows' = windows + 1 /\ windows < MaxWindows /\ window' = windows' /\ counter' = 0
        /\ connState' \in {"connecting", "connected"} /\ connState \in {"connecting", "connected"}
        /\ UNCHANGED <<session, sent, pending, waiting, got, stale, acked, sampled>>
    BY <1>3 DEF HandleConnect
  <2>2. QED
    BY <1>k, <1>s, <1>t, <2>1 DEF TypeOK, Established
<1>4. CASE Cleanup
  <2>1. /\ connState' = "closed"
        /\ UNCHANGED <<session, windows, counter, sent, got, stale, acked, sampled>>
        /\ window' = 0 /\ pending' \subseteq pending /\ waiting' \subseteq waiting
    BY <1>4, StopWindowFacts DEF Cleanup, Close
  <2>2. QED
    BY <1>k, <1>s, <1>t, <2>1 DEF TypeOK, Established
<1>5. ASSUME NEW i \in DOMAIN sent, Timeout(i) PROVE OutboundType'
  <2>1. /\ SentKept
        /\ pending' \subseteq pending /\ waiting' \subseteq waiting
        /\ window' \in {0, window} /\ connState' \in {connState, "closed"}
        /\ UNCHANGED <<session, windows, counter, got, stale, acked, sampled>>
    BY <1>5, TimeoutFacts
  <2>2. pending' \cup waiting' \cup got' \cup acked' \subseteq DOMAIN sent
    BY <1>t, <2>1 DEF TypeOK
  <2>3. Established'
    <3>1. connState' # "closed" => connState' = connState
      BY <2>1
    <3>2. QED
      BY <2>1, <3>1 DEF Established
  <2>w. window' \in 0..windows'
    <3>1. window \in 0..windows /\ windows \in 0..MaxWindows
      BY <1>t DEF TypeOK
    <3>2. QED
      BY <2>1, <3>1
  <2>4. QED
    BY <1>s, <1>t, <2>1, <2>2, <2>3, <2>w, Zenon DEF TypeOK
<1>6. ASSUME NEW i \in DOMAIN sent, ClientReceive(i) PROVE OutboundType'
  <2>1. /\ got' = got \cup {i}
        /\ UNCHANGED <<connState, session, window, windows, counter, sent, pending,
                       waiting, stale, acked, sampled>>
    BY <1>6 DEF ClientReceive
  <2>2. QED
    BY <1>k, <1>s, <1>t, <2>1 DEF TypeOK, Established
<1>7. ASSUME NEW i \in DOMAIN sent, AckArrives(i), NEW seqs, AcknowledgePackets(seqs),
             acked' \subseteq DOMAIN sent,
             UNCHANGED <<connState, session, window, windows, counter, sent, waiting, got>>
      PROVE  OutboundType'
  <2>1. stale' \in BOOLEAN
    BY <1>7, <1>t DEF AckArrives, TypeOK
  <2>2. QED
    BY <1>7, <1>k, <1>s, <1>t, <2>1, AckFacts, Zenon DEF TypeOK, Established
<1>8. ASSUME NEW i \in DOMAIN sent, HandleAcknowledgment(i) PROVE OutboundType'
  BY <1>7, <1>8, <1>t DEF HandleAcknowledgment, TypeOK
<1>9. ASSUME NEW i \in DOMAIN sent,
             NEW more \in SUBSET {j \in got : j > i /\ sent[j].window = sent[i].window},
             HandleMultiAcknowledgment(i, more)
      PROVE  OutboundType'
  <2>1. UpTo(i) \subseteq DOMAIN sent /\ more \subseteq DOMAIN sent
    <3>1. got \subseteq DOMAIN sent /\ DOMAIN sent = 1..Len(sent)
      BY <1>t, SentType DEF TypeOK
    <3>2. 1..i \subseteq DOMAIN sent
      BY <3>1, <1>t
    <3>3. QED
      BY <3>1, <3>2 DEF UpTo
  <2>2. acked' \subseteq DOMAIN sent
    BY <1>9, <1>t, <2>1 DEF HandleMultiAcknowledgment, TypeOK
  <2>3. QED
    BY <1>7, <1>9, <2>2 DEF HandleMultiAcknowledgment
<1>10. CASE UNCHANGED vars
  BY <1>10, <1>k, <1>s, <1>t DEF vars, TypeOK, Established
<1>11. QED
  BY <1>1, <1>2, <1>3, <1>4, <1>5, <1>6, <1>8, <1>9, <1>10 DEF Next

\* The fields of the sent packets that count
LEMMA SentNumbers ==
    ASSUME OutboundType
    PROVE  /\ Len(sent) \in Nat
           /\ \A i \in DOMAIN sent : /\ sent[i].window \in Nat \ {0} /\ sent[i].session \in Nat
                                     /\ sent[i].seq \in Nat
BY SentType, OutboundAssumption, SMTT(30) DEF SentPacket

\* The numbers of the packets stay in order when no packet is sent and the window in use
\* stays, goes, or is a new one.
LEMMA KeptNumbered ==
    ASSUME OutboundType, Numbered, SentKept, session' \in Nat, windows' \in Nat,
           session <= session', windows <= windows',
           \/ window' = 0 /\ counter' = counter
           \/ window' = windows + 1 /\ counter' = 0
           \/ UNCHANGED <<window, counter>>
    PROVE  Numbered'
<1>1. /\ \A i \in DOMAIN sent : /\ sent[i].window \in Nat \ {0} /\ sent[i].session \in Nat
                                /\ sent[i].seq \in Nat
      /\ session \in Nat /\ windows \in Nat /\ counter \in Nat /\ Len(sent) \in Nat
  <2>1. session \in Nat /\ windows \in Nat /\ counter \in Nat
    BY OutboundAssumption DEF OutboundType, TypeOK
  <2>2. QED
    BY <2>1, SentNumbers
<1>2. \A i \in DOMAIN sent' : sent'[i].session <= session' /\ sent'[i].window <= windows'
  BY <1>1 DEF Numbered, SentKept
<1>3. \A i, j \in DOMAIN sent' :
          i < j /\ sent'[i].window = sent'[j].window => sent'[i].seq < sent'[j].seq
  BY DEF Numbered, SentKept
<1>4. \A i \in DOMAIN sent' : sent'[i].window = window' => sent'[i].seq <= counter'
  BY <1>1 DEF Numbered, SentKept
<1>5. counter' <= Len(sent')
  BY <1>1 DEF Numbered, SentKept
<1>6. QED
  BY <1>2, <1>3, <1>4, <1>5 DEF Numbered

\* Nothing is lost when the session stays and only packets the client has received lose
\* their entry or their goroutine.
LEMMA KeptNothingLost ==
    ASSUME NothingLost, SentKept, UNCHANGED <<connState, session>>, stale' = FALSE => stale = FALSE,
           stale \in BOOLEAN, stale' \in BOOLEAN, got \subseteq got',
           \A i \in DOMAIN sent :
               i \in pending /\ i \in waiting /\ ~stale' =>
                   i \in got \/ (i \in pending' /\ i \in waiting')
    PROVE  NothingLost'
<1> SUFFICES ASSUME connState' = "connected", ~stale', NEW i \in DOMAIN sent',
                    sent'[i].session = session', ~sent'[i].early
             PROVE  i \in got' \/ (i \in pending' /\ i \in waiting')
  BY DEF NothingLost
<1>1. i \in DOMAIN sent /\ sent[i].session = session /\ ~sent[i].early
  BY DEF SentKept
<1>2. i \in got \/ (i \in pending /\ i \in waiting)
  BY <1>1 DEF NothingLost
<1>3. QED
  BY <1>1, <1>2

\* Every step of sender, timers and acknowledgements keeps OutboundInv.
LEMMA OutboundNextInv ==
    ASSUME MaxPackets < SeqMod
    PROVE  OutboundInv /\ [Next]_vars => OutboundInv'
<1> SUFFICES ASSUME OutboundInv, [Next]_vars PROVE OutboundInv'
  OBVIOUS
<1> USE OutboundAssumption DEF OutboundInv
<1>t. OutboundType'
  BY OutboundNextType
<1>n. /\ session \in Nat /\ windows \in Nat /\ counter \in Nat /\ window \in Nat
      /\ stale \in BOOLEAN /\ window <= windows
      /\ pending \subseteq DOMAIN sent /\ got \subseteq DOMAIN sent
      /\ session' \in Nat /\ windows' \in Nat /\ stale' \in BOOLEAN
  BY <1>t DEF OutboundType, TypeOK
<1>p. /\ DOMAIN sent = 1..Len(sent) /\ Len(sent) \in Nat
      /\ \A i \in DOMAIN sent : /\ sent[i].window \in Nat \ {0} /\ sent[i].session \in Nat
                                /\ sent[i].seq \in Nat
  BY SentType, SMTT(30) DEF SentPacket
<1>k. UNCHANGED sent => SentKept
  BY UnchangedKept
<1>1. CASE Send
  <2> DEFINE n == Len(sent) + 1
  <2>1. /\ DOMAIN sent' = DOMAIN sent \cup {n} /\ n \in Nat /\ Len(sent') = n /\ n <= MaxPackets
        /\ \A i \in DOMAIN sent : sent'[i] = sent[i] /\ i < n
        /\ UNCHANGED <<connState, session, got, stale, acked, sampled>>
    BY <1>1, <1>p, SendFacts
  <2>2. /\ sent'[n].session = session /\ sent'[n].window = window' /\ sent'[n].seq = counter'
        /\ sent'[n].early = (connState # "connected")
    BY <1>1, SendFacts
  <2>3. \/ window' = windows + 1 /\ windows' = windows + 1 /\ counter' = 1
        \/ window # 0 /\ UNCHANGED <<window, windows>> /\ counter' = counter + 1
    <3>1. \/ window' = windows + 1 /\ windows' = windows + 1 /\ counter' = 1 % SeqMod
          \/ window # 0 /\ UNCHANGED <<window, windows>> /\ counter' = (counter + 1) % SeqMod
      BY <1>1, SendFacts
    <3>2. 1 % SeqMod = 1
      BY <1>p, <2>1
    <3>3. counter + 1 < SeqMod
      BY <1>n, <1>p, <2>1 DEF Numbered
    <3>4. (counter + 1) % SeqMod = counter + 1
      BY <1>n, <3>3
    <3>5. QED
      BY <3>1, <3>2, <3>4
  <2>4. \A j \in DOMAIN sent : sent[j].window = window' => sent[j].seq < counter'
    BY <1>n, <1>p, <2>3 DEF Numbered
  <2> HIDE DEF n
  <2>5. Numbered'
    <3>1. \A i \in DOMAIN sent' : sent'[i].session <= session' /\ sent'[i].window <= windows'
      BY <1>n, <1>p, <2>1, <2>2, <2>3 DEF Numbered
    <3>2. \A i, j \in DOMAIN sent' :
              i < j /\ sent'[i].window = sent'[j].window => sent'[i].seq < sent'[j].seq
      BY <1>p, <2>1, <2>2, <2>4 DEF Numbered
    <3>3. \A i \in DOMAIN sent' : sent'[i].window = window' => sent'[i].seq <= counter'
      BY <1>n, <1>p, <2>1, <2>2, <2>3, <2>4
    <3>4. counter' <= Len(sent')
      BY <1>n, <1>p, <2>1, <2>3 DEF Numbered, n
    <3>5. QED
      BY <3>1, <3>2, <3>3, <3>4 DEF Numbered
  <2>6. EarlyOnly'
    BY <2>1, <2>2, Zenon DEF EarlyOnly
  <2>7. pending' = pending \cup {n} /\ waiting' = waiting \cup {n}
    <3>1. /\ pending' = {j \in pending : ~(sent[j].window = window' /\ sent[j].seq = counter')} \cup {n}
          /\ waiting' = waiting \cup {n}
      BY <1>1, <2>1 DEF Send
    <3>2. \A j \in pending : ~(sent[j].window = window' /\ sent[j].seq = counter')
      BY <1>n, <1>p, <2>4
    <3>3. QED
      BY <3>1, <3>2
  <2>8. NothingLost'
    BY <2>1, <2>7 DEF NothingLost
  <2>9. QED
    BY <1>t, <2>5, <2>6, <2>8
<1>2. CASE HandleSyn
  <2>1. /\ session' = session + 1 /\ connState' = "connecting" /\ window' = 0
        /\ UNCHANGED <<windows, counter, sent>>
    BY <1>2, StopWindowFacts DEF HandleSyn
  <2>2. Numbered'
    BY <1>k, <1>n, <2>1, KeptNumbered
  <2>3. \A i \in DOMAIN sent' : sent'[i].session # session'
    BY <1>n, <1>p, <2>1 DEF Numbered
  <2>4. EarlyOnly' /\ NothingLost'
    BY <2>1, <2>3 DEF EarlyOnly, NothingLost
  <2>5. QED
    BY <1>t, <2>2, <2>4
<1>3. CASE HandleConnect
  <2>1. /\ windows' = windows + 1 /\ window' = windows + 1 /\ counter' = 0
        /\ connState' \in {connState, "connected"} /\ connState \in {"connecting", "connected"}
        /\ UNCHANGED <<session, sent, pending, waiting, got, stale, acked, sampled>>
    BY <1>3 DEF HandleConnect
  <2>2. Numbered'
    BY <1>k, <1>n, <2>1, KeptNumbered
  <2>3. EarlyOnly'
    BY <2>1 DEF EarlyOnly
  <2>4. NothingLost'
    <3>1. CASE connState = "connected"
      BY <2>1, <3>1 DEF NothingLost
    <3>2. CASE connState = "connecting"
      BY <2>1, <3>2 DEF NothingLost, EarlyOnly
    <3>3. QED
      BY <2>1, <3>1, <3>2
  <2>5. QED
    BY <1>t, <2>2, <2>3, <2>4
<1>4. CASE Cleanup
  <2>1. connState' = "closed" /\ window' = 0 /\ UNCHANGED <<session, windows, counter, sent>>
    BY <1>4, StopWindowFacts DEF Cleanup, Close
  <2>2. Numbered'
    BY <1>k, <1>n, <2>1, KeptNumbered
  <2>3. QED
    BY <1>t, <2>1, <2>2 DEF EarlyOnly, NothingLost
<1>e. ASSUME SentKept, UNCHANGED <<session, connState>> PROVE EarlyOnly'
  BY <1>e DEF EarlyOnly, SentKept
<1>5. ASSUME NEW i \in DOMAIN sent, Timeout(i) PROVE OutboundInv'
  <2>1. /\ SentKept /\ window' \in {0, window} /\ connState' \in {connState, "closed"}
        /\ UNCHANGED <<session, windows, counter, got, stale, acked, sampled>>
    BY <1>5, TimeoutFacts
  <2>2. Numbered'
    BY <1>n, <2>1, KeptNumbered
  <2>3. CASE connState' = "closed"
    BY <1>t, <2>2, <2>3 DEF EarlyOnly, NothingLost
  <2>4. CASE UNCHANGED connState
    <3>1. EarlyOnly'
      BY <1>e, <2>1, <2>4
    <3>2. CASE connState = "connected"
      <4>1. /\ UNCHANGED pending
            /\ waiting' = waiting \/ (waiting' = waiting \ {i} /\ i \notin pending)
        BY <1>5, <2>4, <3>2, TimeoutFacts
      <4>2. NothingLost'
        BY <1>n, <2>1, <2>4, <4>1, KeptNothingLost, Zenon
      <4>3. QED
        BY <1>t, <2>2, <3>1, <4>2
    <3>3. CASE connState # "connected"
      BY <1>t, <2>2, <2>4, <3>1, <3>3 DEF NothingLost
    <3>4. QED
      BY <3>2, <3>3
  <2>5. QED
    BY <2>1, <2>3, <2>4
<1>6. ASSUME NEW i \in DOMAIN sent, ClientReceive(i) PROVE OutboundInv'
  <2>1. /\ got' = got \cup {i}
        /\ UNCHANGED <<connState, session, window, windows, counter, sent, pending,
                       waiting, stale, acked, sampled>>
    BY <1>6 DEF ClientReceive
  <2>2. Numbered'
    BY <1>k, <1>n, <2>1, KeptNumbered
  <2>3. NothingLost'
    BY <1>k, <1>n, <2>1, KeptNothingLost, Zenon
  <2>4. QED
    BY <1>e, <1>k, <1>t, <2>1, <2>2, <2>3
<1>7. ASSUME NEW i \in DOMAIN sent, AckArrives(i), NEW seqs, AcknowledgePackets(seqs),
             UNCHANGED <<connState, session, window, windows, counter, sent, waiting, got>>,
             \A j \in pending : sent[i].window = sent[j].window /\ sent[j].seq \in seqs => j \in got
      PROVE  OutboundInv'
  <2>1. Numbered'
    BY <1>7, <1>k, <1>n, KeptNumbered
  <2>2. ~stale' => ~stale /\ sent[i].window = window
    BY <1>7, Zenon DEF AckArrives
  <2>3. \A j \in pending \ pending' : sent[j].window = window /\ sent[j].seq \in seqs
    BY <1>7, AckFacts
  <2>4. \A j \in pending : ~stale' => j \in got \/ j \in pending'
    BY <1>7, <2>2, <2>3
  <2>5. NothingLost'
    BY <1>7, <1>k, <1>n, <2>2, <2>4, KeptNothingLost, Zenon
  <2>6. QED
    BY <1>7, <1>e, <1>k, <1>t, <2>1, <2>5
<1>8. ASSUME NEW i \in DOMAIN sent, HandleAcknowledgment(i) PROVE OutboundInv'
  <2>1. \A j \in pending : sent[i].window = sent[j].window /\ sent[j].seq = sent[i].seq => j = i
    BY <1>n, <1>p DEF Numbered
  <2>2. AckArrives(i) /\ i \in got /\ AcknowledgePackets({sent[i].seq})
    BY <1>8 DEF HandleAcknowledgment, AckArrives
  <2>3. UNCHANGED <<connState, session, window, windows, counter, sent, waiting, got>>
    BY <1>8 DEF HandleAcknowledgment
  <2>4. QED
    BY <1>7, <2>1, <2>2, <2>3
<1>9. ASSUME NEW i \in DOMAIN sent,
             NEW more \in SUBSET {j \in got : j > i /\ sent[j].window = sent[i].window},
             HandleMultiAcknowledgment(i, more)
      PROVE  OutboundInv'
  <2> DEFINE seqs == {s \in 0..(SeqMod - 1) : AckedBy(sent[i].seq, s)} \cup {sent[j].seq : j \in more}
  <2>1. /\ AckArrives(i) /\ UpTo(i) \subseteq got /\ AcknowledgePackets(seqs)
        /\ UNCHANGED <<connState, session, window, windows, counter, sent, waiting, got>>
    BY <1>9 DEF HandleMultiAcknowledgment
  <2>2. ASSUME NEW j \in pending, sent[i].window = sent[j].window, sent[j].seq \in seqs
        PROVE  j \in got
    <3>1. CASE sent[j].seq <= sent[i].seq
      <4>1. j <= i
        BY <1>n, <1>p, <2>2, <3>1, SMTT(30) DEF Numbered
      <4>2. QED
        BY <1>n, <1>p, <2>1, <2>2, <4>1 DEF UpTo
    <3>2. CASE \E k \in more : sent[j].seq = sent[k].seq
      <4>1. PICK k \in more : sent[j].seq = sent[k].seq
        BY <3>2
      <4>2. k \in got /\ k \in DOMAIN sent /\ sent[k].window = sent[j].window
        BY <1>n, <2>2
      <4>3. j \in DOMAIN sent /\ j \in Nat /\ k \in Nat
        BY <1>n, <1>p, <4>2
      <4>4. ~(j < k) /\ ~(k < j)
        BY <1>p, <4>1, <4>2, <4>3 DEF Numbered
      <4>5. QED
        BY <4>2, <4>3, <4>4
    <3>3. QED
      BY <2>2, <3>1, <3>2 DEF AckedBy
  <2> HIDE DEF seqs
  <2>3. QED
    BY <1>7, <2>1, <2>2
<1>10. CASE UNCHANGED vars
  BY <1>10, <1>t DEF vars, Numbered, EarlyOnly, NothingLost
<1>11. QED
  BY <1>1, <1>2, <1>3, <1>4, <1>5, <1>6, <1>8, <1>9, <1>10 DEF Next

\* The state of the outbound substream keeps its type: no packet is sent more often than
\* MaxPacketRetransmissions times, whatever the races.
THEOREM TypeCorrect == Spec => []TypeOK
<1>1. OutboundType => TypeOK
  BY DEF OutboundType
<1>2. Init => OutboundType
  BY OutboundInitInv DEF OutboundInv
<1>3. QED
  BY <1>1, <1>2, OutboundNextType, PTL DEF Spec

\* sendPacket, TimeoutManager and the acknowledgement handlers: while sequence IDs do not
\* repeat, what the client has not received stays scheduled, through all races but an
\* acknowledgement for another window.
THEOREM NothingLostAlways ==
    ASSUME MaxPackets < SeqMod
    PROVE  Spec => []NothingLost
<1>1. OutboundInv => NothingLost
  BY DEF OutboundInv
<1>2. OutboundInv /\ [Next]_vars => OutboundInv'
  BY OutboundNextInv
<1>3. QED
  BY <1>1, <1>2, OutboundInitInv, PTL DEF Spec

------------------------------------------------------------------------------
(* Acknowledged packets *)

\* AcknowledgePacket has taken the entry of every acknowledged packet of the window in use,
\* and no other packet has the sequence ID.
AckedGone ==
    \A i \in acked : sent[i].window = window => \A j \in pending : ~SameSlot(i, j)

\* The entries of acknowledged packets stay away when no packet is sent or acknowledged, and
\* the window stays, goes, or is a new one.
LEMMA KeptAckedGone ==
    ASSUME OutboundType, Numbered, AckedGone, SentKept, pending' \subseteq pending, acked' = acked,
           window' \in {0, window, windows + 1}
    PROVE  AckedGone'
<1> SUFFICES ASSUME NEW i \in acked, sent'[i].window = window', NEW j \in pending'
             PROVE  ~SameSlot(i, j)'
  BY DEF AckedGone
<1>1. i \in DOMAIN sent /\ j \in DOMAIN sent /\ j \in pending
  BY DEF OutboundType, TypeOK
<1>2. /\ sent'[i].window = sent[i].window /\ sent'[i].seq = sent[i].seq
      /\ sent'[j].window = sent[j].window /\ sent'[j].seq = sent[j].seq
  BY <1>1 DEF SentKept
<1>3. sent[i].window \in Nat \ {0} /\ sent[i].window <= windows /\ windows \in Nat
  <2>1. windows \in Nat BY OutboundAssumption DEF OutboundType, TypeOK
  <2> QED BY <1>1, <2>1, SentNumbers DEF Numbered
<1>4. sent[i].window = window
  BY <1>2, <1>3
<1>5. ~SameSlot(i, j)
  BY <1>1, <1>4 DEF AckedGone
<1> QED
  BY <1>2, <1>5 DEF SameSlot

\* An acknowledgement takes the entries of the packets it is for.
LEMMA AckAckedGone ==
    ASSUME AckedGone, NEW seqs, AcknowledgePackets(seqs), NEW A, acked' = acked \cup A,
           \A i \in A : sent[i].window = window => sent[i].seq \in seqs,
           UNCHANGED <<sent, window>>
    PROVE  AckedGone'
<1> SUFFICES ASSUME NEW i \in acked', sent[i].window = window, NEW j \in pending', SameSlot(i, j)
             PROVE  FALSE
  BY DEF AckedGone, SameSlot
<1>1. j \in pending /\ ~(sent[j].window = window /\ sent[j].seq \in seqs)
  BY DEF AcknowledgePackets
<1>2. i \notin acked
  BY <1>1 DEF AckedGone
<1>3. sent[i].seq \in seqs
  BY <1>2
<1> QED
  BY <1>1, <1>3 DEF SameSlot

\* Every step keeps the entries of acknowledged packets away.
LEMMA AckedGoneNext ==
    ASSUME MaxPackets < SeqMod, OutboundInv, AckedGone, [Next]_vars
    PROVE  AckedGone'
<1> USE OutboundAssumption
<1>t. OutboundType /\ Numbered BY DEF OutboundInv
<1>a. /\ acked \subseteq DOMAIN sent /\ pending \subseteq DOMAIN sent
      /\ windows \in Nat /\ window \in Nat /\ counter \in Nat
  BY <1>t DEF OutboundType, TypeOK
<1>k. UNCHANGED sent => SentKept BY <1>t, UnchangedKept
<1>1. CASE Send
  <2>1. /\ \A i \in DOMAIN sent : sent'[i] = sent[i]
        /\ sent'[Len(sent) + 1].seq = counter' /\ acked' = acked
        /\ \/ window = 0 /\ window' = windows + 1
           \/ window # 0 /\ window' = window /\ counter' = (counter + 1) % SeqMod
    BY <1>1, <1>t, SendFacts
  <2>2. pending' \subseteq pending \cup {Len(sent) + 1}
    <3>1. Len(sent') = Len(sent) + 1 BY <1>1, <1>t, SendFacts
    <3> QED BY <1>1, <3>1 DEF Send
  <2> SUFFICES ASSUME NEW i \in acked, sent'[i].window = window', NEW j \in pending', SameSlot(i, j)'
               PROVE  FALSE
    BY <2>1 DEF AckedGone
  <2>3. i \in DOMAIN sent /\ sent'[i] = sent[i] BY <1>a, <2>1
  <2>4. /\ sent[i].window \in Nat /\ sent[i].seq \in Nat /\ sent[i].window <= windows
        /\ sent[i].window = window => sent[i].seq <= counter
    BY <1>t, <2>3, SentNumbers DEF Numbered
  <2>5. window # 0 /\ window' = window /\ counter' = (counter + 1) % SeqMod /\ sent[i].window = window
    BY <1>a, <2>1, <2>3, <2>4
  <2>6. CASE j \in pending
    <3>1. j \in DOMAIN sent /\ sent'[j] = sent[j] BY <1>a, <2>1, <2>6
    <3>2. SameSlot(i, j) BY <2>3, <3>1 DEF SameSlot
    <3> QED BY <2>5, <2>6, <3>2 DEF AckedGone
  <2>7. CASE j = Len(sent) + 1
    <3>1. counter <= Len(sent) /\ Len(sent) < MaxPackets /\ Len(sent) \in Nat
      BY <1>1, <1>t, SentType DEF Numbered, Send
    <3>2. (counter + 1) % SeqMod = counter + 1 BY <1>a, <3>1
    <3>3. sent[i].seq = counter' BY <2>1, <2>3, <2>7 DEF SameSlot
    <3> QED BY <1>a, <2>4, <2>5, <3>2, <3>3
  <2> QED BY <2>2, <2>6, <2>7
<1>2. CASE HandleSyn
  BY <1>2, <1>k, <1>t, StopWindowFacts, KeptAckedGone DEF HandleSyn
<1>3. CASE HandleConnect
  BY <1>3, <1>k, <1>t, KeptAckedGone DEF HandleConnect
<1>4. CASE Cleanup
  BY <1>4, <1>k, <1>t, StopWindowFacts, KeptAckedGone DEF Cleanup, Close
<1>5. ASSUME NEW i \in DOMAIN sent, Timeout(i) PROVE AckedGone'
  <2>1. SentKept /\ pending' \subseteq pending /\ acked' = acked /\ window' \in {0, window}
    BY <1>5, <1>t, TimeoutFacts
  <2> QED BY <1>t, <2>1, KeptAckedGone
<1>6. ASSUME NEW i \in DOMAIN sent, ClientReceive(i) PROVE AckedGone'
  BY <1>6, <1>k, <1>t, KeptAckedGone DEF ClientReceive
<1>7. ASSUME NEW i \in DOMAIN sent, HandleAcknowledgment(i) PROVE AckedGone'
  <2> DEFINE seqs == {sent[i].seq}
             A == {i}
  <2>1. AcknowledgePackets(seqs) /\ acked' = acked \cup A /\ UNCHANGED <<sent, window>>
    BY <1>7 DEF HandleAcknowledgment
  <2>2. \A j \in A : sent[j].seq \in seqs
    OBVIOUS
  <2> HIDE DEF seqs, A
  <2> QED BY <2>1, <2>2, AckAckedGone
<1>8. ASSUME NEW i \in DOMAIN sent,
             NEW more \in SUBSET {j \in got : j > i /\ sent[j].window = sent[i].window},
             HandleMultiAcknowledgment(i, more)
      PROVE  AckedGone'
  <2> DEFINE seqs == {s \in 0..(SeqMod - 1) : AckedBy(sent[i].seq, s)} \cup {sent[j].seq : j \in more}
             A == UpTo(i) \cup more
  <2>1. AcknowledgePackets(seqs) /\ acked' = acked \cup A /\ UNCHANGED <<sent, window>>
    BY <1>8 DEF HandleMultiAcknowledgment
  <2>2. ASSUME NEW j \in A PROVE sent[j].seq \in seqs
    <3>1. CASE j \in more BY <3>1
    <3>2. CASE j \in UpTo(i)
      <4>1. j \in 1..i /\ sent[j].window = sent[i].window BY <3>2 DEF UpTo
      <4>2. DOMAIN sent = 1..Len(sent) /\ Len(sent) \in Nat BY <1>t, SentType
      <4>3. j \in DOMAIN sent /\ (j = i \/ j < i) BY <4>1, <4>2
      <4>4. sent[j].seq \in 0..(SeqMod - 1) /\ sent[i].seq \in 0..(SeqMod - 1)
        BY <1>t, <4>3, SentType, Zenon DEF SentPacket
      <4>5. sent[j].seq <= sent[i].seq BY <1>t, <4>1, <4>3, <4>4 DEF Numbered
      <4> QED BY <4>4, <4>5 DEF AckedBy
    <3> QED BY <3>1, <3>2
  <2> HIDE DEF seqs, A
  <2> QED BY <2>1, <2>2, AckAckedGone
<1>9. CASE UNCHANGED vars
  BY <1>9, <1>k, <1>t, KeptAckedGone DEF vars
<1> QED
  BY <1>1, <1>2, <1>3, <1>4, <1>5, <1>6, <1>7, <1>8, <1>9 DEF Next

\* A packet whose count grows was found in the manager of the window in use, or of one that
\* a CONNECT replaced.
LEMMA ResentPending ==
    ASSUME OutboundType, [Next]_vars, NEW i \in DOMAIN sent, sent'[i].count > sent[i].count
    PROVE  Has(i)
<1>n. sent[i].count \in Nat
  BY SentType, OutboundAssumption DEF SentPacket
<1>c. sent'[i] # sent[i]
  BY <1>n
<1>1. CASE Send
  BY <1>1, <1>c, SendFacts
<1>2. ASSUME NEW k \in DOMAIN sent, Timeout(k) PROVE Has(i)
  <2>1. sent' # sent BY <1>c
  <2>2. Has(k) /\ sent' = [sent EXCEPT ![k].count = @ + 1]
    BY <1>2, <2>1 DEF Timeout, Resend, GiveUp, StopWaiting
  <2>3. k = i BY <1>c, <2>2
  <2> QED BY <2>2, <2>3
<1>3. ASSUME UNCHANGED sent PROVE FALSE
  BY <1>c, <1>3
<1>4. CASE UNCHANGED vars
  BY <1>3, <1>4 DEF vars
<1>5. CASE HandleSyn
  BY <1>3, <1>5 DEF HandleSyn
<1>6. CASE HandleConnect
  BY <1>3, <1>6 DEF HandleConnect
<1>7. CASE Cleanup
  BY <1>3, <1>7 DEF Cleanup
<1>8. ASSUME NEW k \in DOMAIN sent, ClientReceive(k) PROVE FALSE
  BY <1>3, <1>8 DEF ClientReceive
<1>9. ASSUME NEW k \in DOMAIN sent, HandleAcknowledgment(k) PROVE FALSE
  BY <1>3, <1>9 DEF HandleAcknowledgment
<1>10. ASSUME NEW k \in DOMAIN sent, NEW more, HandleMultiAcknowledgment(k, more) PROVE FALSE
  BY <1>3, <1>10 DEF HandleMultiAcknowledgment
<1> QED
  BY <1>1, <1>2, <1>4, <1>5, <1>6, <1>7, <1>8, <1>9, <1>10 DEF Next

\* TimeoutManager.start and the acknowledgement handlers: while sequence IDs do not repeat, an
\* acknowledged packet is not sent again unless a CONNECT has replaced its window, whatever
\* the races.
THEOREM AckedNotResentAlways ==
    ASSUME MaxPackets < SeqMod
    PROVE  Spec => AckedNotResent
<1> DEFINE Inv == OutboundInv /\ AckedGone
<1>1. Init => Inv
  <2>1. Init => acked = {} BY DEF Init
  <2> QED BY <2>1, OutboundInitInv DEF AckedGone
<1>2. Inv /\ [Next]_vars => Inv'
  BY OutboundNextInv, AckedGoneNext
<1>3. ASSUME Inv, [Next]_vars
      PROVE  [\A i \in DOMAIN sent :
                 sent'[i].count > sent[i].count => i \notin acked \/ sent[i].window # window]_vars
  <2>1. OutboundType /\ AckedGone BY <1>3 DEF OutboundInv
  <2>2. ASSUME NEW i \in DOMAIN sent, sent'[i].count > sent[i].count
        PROVE  i \notin acked \/ sent[i].window # window
    <3>1. Has(i) BY <1>3, <2>1, <2>2, ResentPending
    <3> QED BY <2>1, <3>1 DEF Has, AckedGone
  <2> QED BY <2>2
<1> HIDE DEF Inv
<1> QED
  BY <1>1, <1>2, <1>3, PTL DEF Spec, AckedNotResent
==============================================================================
