---------------------------- MODULE OutboundStream ----------------------------
(***************************************************************************)
(* The outbound half of one reliable substream of a PRUDP connection:      *)
(* sendPacket, SlidingWindow, TimeoutManager, the acknowledgement          *)
(* handlers, and what handleSyn, handleConnect and cleanup do to the       *)
(* sliding windows.  It is the life of one connection object: after        *)
(* cleanup it is closed, and PRUDPEndpoint models the object that follows. *)
(*                                                                         *)
(* Every sent packet has a goroutine (TimeoutManager.start) that wakes     *)
(* when the retransmission timeout is over.  The network may lose, delay,  *)
(* reorder and duplicate packets and acknowledgements.                     *)
(*                                                                         *)
(* Races names what the run lets happen at its worst:                      *)
(*   late_connect  a CONNECT arrives for a connected connection            *)
(*   late_send     the server sends between a SYN and the CONNECT after it *)
(*   late_ack      an acknowledgement of an earlier session arrives        *)
(***************************************************************************)
EXTENDS Naturals, Sequences

CONSTANTS
    SeqMod,                    \* number of sequence IDs (2^16: Counter[uint16])
    MaxPacketRetransmissions,  \* StreamSettings, 20 in the code
    RTTRetransmit,             \* StreamSettings, 2 in the code
    Races,                     \* see above
    MaxPackets,                \* bound: packets the server sends
    MaxWindows,                \* bound: sliding windows created
    MaxSessions                \* bound: sessions on the connection

ASSUME OutboundAssumption ==
    /\ SeqMod \in Nat \ {0}
    /\ MaxPacketRetransmissions \in Nat \ {0}
    /\ RTTRetransmit \in Nat
    /\ Races \subseteq {"late_connect", "late_send", "late_ack"}
    /\ MaxPackets \in Nat
    /\ MaxWindows \in Nat
    /\ MaxSessions \in Nat

VARIABLES
    connState,   \* ConnectionState; "closed" after cleanup
    session,     \* number of the client's current session
    window,      \* the SlidingWindow of the substream, 0 when the map has none
    windows,     \* SlidingWindow objects created so far
    counter,     \* sequenceIDCounter of the window
    sent,        \* the packets sendPacket sent, in their order
    pending,     \* TimeoutManager.packets of every window, as indices of sent
    waiting,     \* packets whose TimeoutManager.start goroutine waits
    got,         \* packets the client has received
    stale,       \* history: an acknowledgement for another window was handled
    acked,       \* history: packets whose acknowledgement the server has handled
    sampled      \* history: send counts of the packets the RTT was adjusted for

vars == <<connState, session, window, windows, counter, sent, pending, waiting,
          got, stale, acked, sampled>>

\* The entry TimeoutManager.packets has for packet i's sequence ID in its window.
SameSlot(i, j) == sent[i].window = sent[j].window /\ sent[i].seq = sent[j].seq
Has(i) == \E j \in pending : SameSlot(i, j)

Init ==
    /\ connState = "not_connected"
    /\ session = 0
    /\ window = 0
    /\ windows = 0
    /\ counter = 0
    /\ sent = <<>>
    /\ pending = {}
    /\ waiting = {}
    /\ got = {}
    /\ stale = FALSE
    /\ acked = {}
    /\ sampled = {}

------------------------------------------------------------------------------
(* Sending *)

\* sendPacket of a reliable DATA packet that needs an acknowledgement: the next
\* sequence ID of the window (SlidingWindow() creates a missing one), then
\* SchedulePacketTimeout.
Send ==
    /\ \/ connState = "connected"
       \/ connState = "connecting" /\ "late_send" \in Races
    /\ Len(sent) < MaxPackets
    /\ IF window = 0
       THEN /\ windows < MaxWindows
            /\ windows' = windows + 1
            /\ window' = windows'
            /\ counter' = 1 % SeqMod
       ELSE /\ counter' = (counter + 1) % SeqMod
            /\ UNCHANGED <<window, windows>>
    /\ sent' = Append(sent, [session |-> session, window |-> window',
                             seq |-> counter', count |-> 1,
                             early |-> connState # "connected"])
    /\ LET i == Len(sent')
       IN  /\ pending' = {j \in pending : ~(sent[j].window = window' /\ sent[j].seq = counter')}
                            \cup {i}
           /\ waiting' = waiting \cup {i}
    /\ UNCHANGED <<connState, session, got, stale, acked, sampled>>

\* Reset: the TimeoutManager of every window in the map is stopped and emptied, the
\* map is cleared.  A stopped manager's goroutines wake, find nothing and end; so do
\* the goroutines of the packets in ending.
StopWindow(ending) ==
    LET stopped == {i \in DOMAIN sent : sent[i].window = window}
    IN  /\ pending' = pending \ stopped
        /\ waiting' = waiting \ (stopped \cup ending)
        /\ window' = 0

\* CleanupConnection, as far as the substream goes
Close(ending) == connState' = "closed" /\ StopWindow(ending)

\* TimeoutManager.start with retransmissions left: the goroutine is started again.
Resend(i) ==
    /\ sent[i].count < MaxPacketRetransmissions
    /\ sent' = [sent EXCEPT ![i].count = @ + 1]
    /\ UNCHANGED <<connState, window, pending, waiting>>

\* Mutant: instead of the connection being given up, the count starts again.
GiveUpNever(i) ==
    /\ sent[i].count >= MaxPacketRetransmissions
    /\ sent' = [sent EXCEPT ![i].count = 1]
    /\ UNCHANGED <<connState, window, pending, waiting>>

\* TimeoutManager.start with none left: the goroutine ends in CleanupConnection.
GiveUp(i) ==
    /\ sent[i].count >= MaxPacketRetransmissions
    /\ Close({i})
    /\ UNCHANGED sent

\* TimeoutManager.start of a closed connection or an acknowledged packet
StopWaiting(i) ==
    /\ connState # "connected" \/ ~Has(i)
    /\ waiting' = waiting \ {i}
    /\ UNCHANGED <<connState, window, sent, pending>>

\* TimeoutManager.start, when packet i's timeout is over
Timeout(i) ==
    /\ i \in waiting
    /\ \/ connState = "connected" /\ Has(i) /\ (Resend(i) \/ GiveUp(i))
       \/ StopWaiting(i)
    /\ UNCHANGED <<session, windows, counter, got, stale, acked, sampled>>

------------------------------------------------------------------------------
(* Acknowledgements *)

\* The network delivers a packet to the client.
ClientReceive(i) ==
    /\ i \notin got
    /\ got' = got \cup {i}
    /\ UNCHANGED <<connState, session, window, windows, counter, sent, pending,
                   waiting, stale, acked, sampled>>

\* TimeoutManager.AcknowledgePacket of every sequence ID of a set
AcknowledgePackets(seqs) ==
    LET removed == {j \in pending : sent[j].window = window /\ sent[j].seq \in seqs}
    IN  /\ pending' = pending \ removed
        /\ sampled' = sampled \cup {sent[j].count :
                                      j \in {k \in removed : sent[k].count >= RTTRetransmit}}

AckArrives(i) ==
    /\ connState = "connected"
    /\ i \in got
    /\ sent[i].session = session \/ "late_ack" \in Races
    /\ stale' = (stale \/ sent[i].window # window)

\* Mutant: the aggregate acknowledgement also takes the packet after its base.
AckedByBeyond(base, seq) == seq <= base + 1

\* handleMultiAcknowledgment: the pending sequence IDs its base covers
AckedBy(base, seq) == seq <= base

\* Mutant: an acknowledgement stops nothing.
HandleAcknowledgmentLost(i) ==
    /\ AckArrives(i)
    /\ acked' = acked \cup {i}
    /\ UNCHANGED <<connState, session, window, windows, counter, sent, pending,
                   waiting, got, sampled>>

\* handleAcknowledgment of the acknowledgement of one packet
HandleAcknowledgment(i) ==
    /\ AckArrives(i)
    /\ AcknowledgePackets({sent[i].seq})
    /\ acked' = acked \cup {i}
    /\ UNCHANGED <<connState, session, window, windows, counter, sent, waiting, got>>

\* The packets of packet i's window up to it
UpTo(i) == {j \in 1..i : sent[j].window = sent[i].window}

\* handleMultiAcknowledgment: the client has everything of the window up to packet i,
\* the base, and the further packets the acknowledgement lists.
HandleMultiAcknowledgment(i, more) ==
    /\ AckArrives(i)
    /\ UpTo(i) \subseteq got
    /\ AcknowledgePackets({s \in 0..(SeqMod - 1) : AckedBy(sent[i].seq, s)}
                            \cup {sent[j].seq : j \in more})
    /\ acked' = acked \cup UpTo(i) \cup more
    /\ UNCHANGED <<connState, session, window, windows, counter, sent, waiting, got>>

------------------------------------------------------------------------------
(* Sessions *)

\* handleSyn
HandleSyn ==
    /\ connState # "closed"
    /\ session < MaxSessions
    /\ session' = session + 1
    /\ connState' = "connecting"
    /\ StopWindow({})
    /\ UNCHANGED <<windows, counter, sent, got, stale, acked, sampled>>

\* handleConnect: InitializeSlidingWindows replaces the map, before the ticket is
\* read, without stopping the TimeoutManagers it held.
HandleConnect ==
    /\ connState = "connecting" \/ (connState = "connected" /\ "late_connect" \in Races)
    /\ windows < MaxWindows
    /\ windows' = windows + 1
    /\ window' = windows'
    /\ counter' = 0
    /\ connState' \in {connState, "connected"}
    /\ UNCHANGED <<session, sent, pending, waiting, got, stale, acked, sampled>>

\* cleanup for any other reason: a DISCONNECT, a kick
Cleanup ==
    /\ connState # "closed"
    /\ Close({})
    /\ UNCHANGED <<session, windows, counter, sent, got, stale, acked, sampled>>

Next ==
    \/ Send
    \/ HandleSyn
    \/ HandleConnect
    \/ Cleanup
    \/ \E i \in DOMAIN sent :
          \/ Timeout(i)
          \/ ClientReceive(i)
          \/ HandleAcknowledgment(i)
          \/ \E more \in SUBSET {j \in got : j > i /\ sent[j].window = sent[i].window} :
                HandleMultiAcknowledgment(i, more)

Spec == Init /\ [][Next]_vars

\* Timeouts end.  Nothing is assumed of the network or of the client.
Fairness == \A i \in 1..MaxPackets : WF_vars(i \in DOMAIN sent /\ Timeout(i))

FairSpec == Spec /\ Fairness

------------------------------------------------------------------------------
(* Properties *)

\* The type invariant.  TimeoutManager.start sends no packet more often than
\* MaxPacketRetransmissions times, its first transmission included.
TypeOK ==
    /\ connState \in {"not_connected", "connecting", "connected", "closed"}
    /\ session \in 0..MaxSessions
    /\ windows \in 0..MaxWindows
    /\ window \in 0..windows
    /\ counter \in 0..(SeqMod - 1)
    /\ sent \in Seq([session : 1..MaxSessions, window : 1..MaxWindows,
                     seq : 0..(SeqMod - 1), count : 1..MaxPacketRetransmissions,
                     early : BOOLEAN])
    /\ stale \in BOOLEAN
    /\ pending \cup waiting \cup got \cup acked \subseteq DOMAIN sent
    /\ sampled \subseteq Nat

\* The TimeoutManager "manages the resending of reliable PRUDP packets": while the
\* connection is up, a packet sent in the session since its CONNECT that the client has
\* not received is pending and a goroutine waits to send it again, also when a further
\* CONNECT replaces the windows.  Only an acknowledgement for a packet of another window,
\* which has the same sequence ID, breaks this.
NothingLost ==
    connState = "connected" /\ ~stale =>
        \A i \in DOMAIN sent :
            sent[i].session = session /\ ~sent[i].early
                => i \in got \/ (i \in pending /\ i \in waiting)

\* An acknowledged packet "will be ignored at the next resend attempt" of
\* TimeoutManager.start: it is not sent again, unless a CONNECT has replaced its window.
AckedNotResent ==
    [][\A i \in DOMAIN sent :
          sent'[i].count > sent[i].count => i \notin acked \/ sent[i].window # window]_vars

\* AcknowledgePacket updates the RTT "if the packet hasn't been resent".
SampleNotResent == sampled \subseteq {1}

\* No packet is retransmitted for ever: it is acknowledged, or its session ends, or
\* TimeoutManager.start gives the connection up, whatever the races and the network.
WaitingEnds == \A i \in 1..MaxPackets : (i \in waiting) ~> (i \notin waiting)
==============================================================================
