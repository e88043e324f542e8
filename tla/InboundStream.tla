---------------------------- MODULE InboundStream ----------------------------
(***************************************************************************)
(* The inbound half of one reliable substream of a PRUDP connection:       *)
(* PacketDispatchQueue, HandleReliable, the reliable part of handlePing,   *)
(* and what handleSyn and handleConnect do to the queue and to the         *)
(* fragment buffer.  The client and the network between it and the server  *)
(* are the environment: a packet may be lost, reordered and duplicated,    *)
(* and the client numbers its packets consecutively, starting at 2.  A     *)
(* packet does not outlive its session: the handlers tell the packets of   *)
(* two sessions apart by nothing but their sequence IDs.                   *)
(*                                                                         *)
(* A handler runs under the connection's mutex.  HandleReliable is the     *)
(* only one with a loop; its iterations are separate steps, and locked is  *)
(* TRUE while it runs, so that no other handler can start.                 *)
(***************************************************************************)
EXTENDS Naturals, Sequences

CONSTANTS
    SeqMod,          \* number of sequence IDs (2^16: Counter[uint16])
    Kinds,           \* kinds of reliable packets the client sends
    Window,          \* packets the client sends beyond the acknowledged ones
    Lifetime,        \* how far behind the stream a duplicate may arrive
    LateConnect,     \* a duplicate CONNECT may reach a connected session
    MaxPackets,      \* bound: packets per session
    MaxSessions      \* bound: sessions of the client on this connection

ASSUME InboundAssumption ==
    /\ SeqMod \in Nat /\ SeqMod > 2
    /\ Kinds \subseteq {"fragment", "last", "ping"}
    /\ Window \in Nat \ {0}
    /\ Lifetime \in Nat
    /\ LateConnect \in BOOLEAN
    /\ MaxPackets \in Nat
    /\ MaxSessions \in Nat

VARIABLES
    connState,       \* ConnectionState of the connection
    session,         \* number of the client's current session
    sent,            \* packets the client has sent in this session
    acked,           \* indices of the packets the server has acknowledged
    queue,           \* PacketDispatchQueue.queue
    nextExpected,    \* PacketDispatchQueue.nextExpectedSequenceId
    locked,          \* HandleReliable is in its dispatch loop
    buffer,          \* incomingFragmentBuffers of the substream
    dispatched,      \* history: packets that went through Dispatched
    delivered        \* history: fragment sequences emitted as "data"

vars == <<connState, session, sent, acked, queue, nextExpected, locked,
          buffer, dispatched, delivered>>

Packet == [ses : Nat, idx : Nat \ {0}, kind : {"fragment", "last", "ping"}]

\* The client's CONNECT has sequence ID 1, its i-th reliable packet i + 1.
SequenceID(p) == (p.idx + 1) % SeqMod

\* NewPacketDispatchQueue starts its counter here.
FirstSequenceID == 2

\* Mutant: a packet is skipped.
CounterNextSkips(c) == (c + 2) % SeqMod

\* Counter.Next of a uint16 counter.
CounterNext(c) == (c + 1) % SeqMod

\* PacketDispatchQueue.Queue: the map entry of the sequence ID is replaced.
Queue(q, p) == {r \in q : SequenceID(r) # SequenceID(p)} \cup {p}

Init ==
    /\ connState = "not_connected"
    /\ session = 0
    /\ sent = <<>>
    /\ acked = {}
    /\ queue = {}
    /\ nextExpected = FirstSequenceID
    /\ locked = FALSE
    /\ buffer = <<>>
    /\ dispatched = <<>>
    /\ delivered = <<>>

------------------------------------------------------------------------------
(* The client *)

\* The client sends its next reliable packet, at most Window beyond the last
\* one before which everything is acknowledged.
ClientSend(kind) ==
    /\ connState = "connected"
    /\ Len(sent) < MaxPackets
    /\ \A i \in 1..Len(sent) : i + Window <= Len(sent) + 1 => i \in acked
    /\ sent' = Append(sent, [ses |-> session, idx |-> Len(sent) + 1, kind |-> kind])
    /\ UNCHANGED <<connState, session, acked, queue, nextExpected, locked,
                   buffer, dispatched, delivered>>

\* A packet of this session the network may still deliver.  Retransmissions and
\* duplicates are deliveries of a packet that was delivered before.
InFlight(i) == i + Lifetime > Len(dispatched)

------------------------------------------------------------------------------
(* The server's handlers *)

\* handleSyn of a client that starts a session: Reset purges the queues; the
\* fragment buffer is not among the fields Reset clears.
HandleSyn ==
    /\ ~locked
    /\ session < MaxSessions
    /\ session' = session + 1
    /\ connState' = "connecting"
    /\ queue' = {}
    /\ sent' = <<>>
    /\ acked' = {}
    /\ dispatched' = <<>>
    /\ delivered' = <<>>
    /\ UNCHANGED <<nextExpected, locked, buffer>>

\* handleConnect: the dispatch queues are created anew before the ticket is read;
\* only a good ticket makes the connection connected.  A CONNECT that arrives
\* when the connection already is connected takes the same path.
HandleConnect ==
    /\ ~locked
    /\ connState \in {"connecting", "connected"}
    /\ connState = "connected" => LateConnect
    /\ queue' = {}
    /\ nextExpected' = FirstSequenceID
    /\ connState' \in {connState, "connected"}
    /\ UNCHANGED <<session, sent, acked, locked, buffer, dispatched, delivered>>

\* Mutant: the packet is queued and nothing is dispatched.
HandleReliableNoLoop(i) ==
    /\ ~locked
    /\ connState = "connected"
    /\ sent[i].kind # "ping"
    /\ acked' = acked \cup {i}
    /\ queue' = Queue(queue, sent[i])
    /\ UNCHANGED <<connState, session, sent, nextExpected, locked, buffer,
                   dispatched, delivered>>

\* handleData and HandleReliable up to the loop: acknowledge, then queue.
HandleReliable(i) ==
    /\ ~locked
    /\ connState = "connected"
    /\ sent[i].kind # "ping"
    /\ acked' = acked \cup {i}
    /\ queue' = Queue(queue, sent[i])
    /\ locked' = TRUE
    /\ UNCHANGED <<connState, session, sent, nextExpected, buffer,
                   dispatched, delivered>>

\* Mutant: the PING is acknowledged and not queued.
HandlePingNotQueued(i) ==
    /\ ~locked
    /\ connState = "connected"
    /\ sent[i].kind = "ping"
    /\ acked' = acked \cup {i}
    /\ UNCHANGED <<connState, session, sent, queue, nextExpected, locked, buffer,
                   dispatched, delivered>>

\* handlePing of a reliable PING: acknowledged and queued, the loop is not run.
HandlePing(i) ==
    /\ ~locked
    /\ connState = "connected"
    /\ sent[i].kind = "ping"
    /\ acked' = acked \cup {i}
    /\ queue' = Queue(queue, sent[i])
    /\ UNCHANGED <<connState, session, sent, nextExpected, locked, buffer,
                   dispatched, delivered>>

\* Mutant: the buffer is not cleared.
ReassembleKeepsBuffer(p) ==
    /\ buffer' = Append(buffer, p)
    /\ delivered' = IF p.kind = "last" THEN Append(delivered, buffer') ELSE delivered

\* What one iteration of the loop does with the fragment buffer.
Reassemble(p) ==
    CASE p.kind = "ping" ->
            UNCHANGED <<buffer, delivered>>
      [] p.kind = "fragment" ->
            /\ buffer' = Append(buffer, p)
            /\ UNCHANGED delivered
      [] p.kind = "last" ->
            /\ delivered' = Append(delivered, Append(buffer, p))
            /\ buffer' = <<>>

\* One iteration: GetNextToDispatch finds a packet, it is reassembled, Dispatched.
DispatchNext ==
    /\ locked
    /\ \E p \in queue :
          /\ SequenceID(p) = nextExpected
          /\ Reassemble(p)
          /\ dispatched' = Append(dispatched, p)
          /\ queue' = queue \ {p}
    /\ nextExpected' = CounterNext(nextExpected)
    /\ UNCHANGED <<connState, session, sent, acked, locked>>

\* GetNextToDispatch finds nothing: the loop ends and the mutex is released.
DispatchDone ==
    /\ locked
    /\ \A p \in queue : SequenceID(p) # nextExpected
    /\ locked' = FALSE
    /\ UNCHANGED <<connState, session, sent, acked, queue, nextExpected, buffer,
                   dispatched, delivered>>

Receive(i) == InFlight(i) /\ (HandleReliable(i) \/ HandlePing(i))

Next ==
    \/ \E kind \in Kinds : ClientSend(kind)
    \/ HandleSyn
    \/ HandleConnect
    \/ \E i \in 1..Len(sent) : Receive(i)
    \/ DispatchNext
    \/ DispatchDone

Spec == Init /\ [][Next]_vars

\* The client retransmits what is not acknowledged and the network is fair to
\* retransmissions; the goroutine that holds the mutex runs its loop to the end.
Fairness ==
    /\ \A i \in 1..MaxPackets :
          SF_vars(i \in (DOMAIN sent) \ acked /\ Receive(i))
    /\ WF_vars(DispatchNext)
    /\ WF_vars(DispatchDone)

FairSpec == Spec /\ Fairness

------------------------------------------------------------------------------
(* Properties *)

\* The type invariant.  nextExpectedSequenceId stays a sequence ID, the buffer
\* HandleReliable builds is a sequence of packets and what it emits a sequence of those.
TypeOK ==
    /\ connState \in {"not_connected", "connecting", "connected"}
    /\ session \in Nat
    /\ sent \in Seq(Packet)
    /\ acked \subseteq Nat
    /\ queue \subseteq Packet
    /\ nextExpected \in 0..(SeqMod - 1)
    /\ locked \in BOOLEAN
    /\ buffer \in Seq(Packet)
    /\ dispatched \in Seq(Packet)
    /\ delivered \in Seq(Seq(Packet))

\* The dispatch loop of HandleReliable hands the packets of a session over in the
\* order the client sent them, none skipped and none twice, whatever the network
\* loses, duplicates and reorders.
InOrder ==
    /\ Len(dispatched) <= Len(sent)
    /\ \A i \in 1..Len(dispatched) : dispatched[i] = sent[i]

\* HandleReliable and handlePing acknowledge a packet before they queue it, and
\* the client never sends an acknowledged packet again: so it has been dispatched
\* or it waits in the dispatch queue, in which the counter has not passed it.
AckedNotLost ==
    \A i \in acked :
        \/ i <= Len(dispatched)
        \/ i \in DOMAIN sent /\ sent[i] \in queue /\ nextExpected <= SequenceID(sent[i])

\* A connected session waits for the packet that follows the dispatched ones: the
\* queue NewPacketDispatchQueue makes starts at 2 because the first DATA packet
\* the client sends to it has that sequence ID.
WaitsForNext ==
    connState = "connected" => nextExpected = (Len(dispatched) + 2) % SeqMod

\* When no handler runs, the packet GetNextToDispatch would return next is absent,
\* or it is a PING: handlePing queues without running the loop, and only the next
\* DATA packet moves the queue on.
QueueDrained ==
    ~locked => \A p \in queue : SequenceID(p) = nextExpected => p.kind = "ping"

\* A message that HandleReliable emits consists of consecutive fragments of one
\* session, and only the last of them has fragment ID 0.
MessagesWhole ==
    \A k \in DOMAIN delivered :
        LET m == delivered[k] IN
        \A j \in DOMAIN m :
            /\ m[j].ses = session
            /\ (m[j].kind = "last") <=> (j = Len(m))
            /\ j > 1 => /\ m[j-1].idx < m[j].idx
                        /\ \A i \in (m[j-1].idx + 1)..(m[j].idx - 1) : sent[i].kind = "ping"

\* HandleReliable may put what a session before left in the fragment buffer in front of
\* the first message; apart from that, a message it emits consists of all fragments
\* from the end of the message before it to the last one, in their order.
MessagesOrdered ==
    \A k \in DOMAIN delivered :
        LET m == delivered[k]
            start == IF k = 1 THEN 0 ELSE delivered[k-1][Len(delivered[k-1])].idx
            fragments == {i \in start + 1 .. m[Len(m)].idx : sent[i].kind # "ping"}
            own == {j \in DOMAIN m : m[j].ses = session}
        IN  /\ k > 1 => own = DOMAIN m
            /\ {m[j].idx : j \in own} = fragments
            /\ \A j \in DOMAIN m : (m[j].kind = "last") <=> (j = Len(m))
            /\ \A i, j \in own : i < j => m[i].idx < m[j].idx
            /\ \A i \in DOMAIN m, j \in own : i > j => i \in own

\* Every reliable packet of a client is dispatched, unless the session ends, or a PING
\* that handlePing queued is next and holds up what came before it arrived.
DataDispatched ==
    \A i \in 1..MaxPackets, s \in 1..MaxSessions :
        (session = s /\ i \in DOMAIN sent)
            ~> \/ Len(dispatched) >= i
               \/ session # s
               \/ \E p \in queue : p.kind = "ping" /\ SequenceID(p) = nextExpected

\* The substream implements the ordered stream the layer above relies on: what goes
\* in is what the client sends, what comes out is what Dispatched goes past.
Stream == INSTANCE OrderedStream WITH Packet <- Packet, input <- sent, output <- dispatched
ImplementsOrderedStream == Stream!Spec
==============================================================================
