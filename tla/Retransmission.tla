---------------------------- MODULE Retransmission ---------------------------
(***************************************************************************)
(* How long the server waits for acknowledgements: the RTT that is         *)
(* measured (rtt.go), the retransmission timeout computed from it          *)
(* (ComputeRetransmitTimeout) and the transmissions of one reliable packet *)
(* after another (TimeoutManager), against a client that answers every     *)
(* transmission it gets after the same time.  OutboundStream lets a        *)
(* timeout end at any time; here there is a clock, in milliseconds, that   *)
(* starts with each packet.  The RTT is in microseconds.                   *)
(***************************************************************************)
EXTENDS Integers

CONSTANTS
    Latencies,                 \* times a client takes to answer
    MaxPacketRetransmissions,  \* StreamSettings, 20 in the code
    RTTRetransmit,             \* StreamSettings, 2 in the code
    InitialRTT,                \* StreamSettings, 750 in the code
    MaxTimed,                  \* bound: packets sent
    MaxPings                   \* bound: pings answered

\* The client answers before the last of the initial timeouts would be over, and the
\* last timeout is at least 16 times the base.
ASSUME RetransmissionAssumption ==
    /\ Latencies \subseteq Nat \ {0}
    /\ MaxPacketRetransmissions \in Nat /\ MaxPacketRetransmissions >= 13
    /\ RTTRetransmit \in Nat
    /\ InitialRTT \in Nat
    /\ \A l \in Latencies : l <= 8 * InitialRTT
    /\ MaxTimed \in Nat
    /\ MaxPings \in Nat

VARIABLES
    latency,         \* the time this client takes
    average,         \* RTT.average, -1 while not initialized
    sendCount,       \* SendCount of the packet, 0 when none is pending
    sentAt,          \* SentAt: the time of its last transmission, since its first
    due,             \* when the timeout of that transmission is over
    answerAt,        \* when the first answer arrives, -1 if all transmissions were lost
    timed,           \* packets sent so far
    pings,           \* pings answered so far
    kicked,          \* CleanupConnection was called
    misled,          \* history: a sample was not the latency
    instant          \* history: a timeout was zero

rvars == <<latency, average, sendCount, sentAt, due, answerAt, timed, pings,
           kicked, misled, instant>>

RInit ==
    /\ latency \in Latencies
    /\ average = -1
    /\ sendCount = 0 /\ sentAt = 0 /\ due = 0 /\ answerAt = -1
    /\ timed = 0 /\ pings = 0
    /\ kicked = FALSE /\ misled = FALSE /\ instant = FALSE

\* RTT.Adjust.  The variance that is kept besides is read by a callback no server sets.
Adjust(next) ==
    IF average < 0 THEN 1000 * next + 4 * (500 * next)
    ELSE (7 * average + 1000 * next) \div 8

\* ComputeRetransmitTimeout of a packet other than SYN: an eighth of the average, in
\* whole milliseconds
Base == IF average < 0 THEN InitialRTT ELSE (average \div 1000) \div 8

\* Mutant: the timeout does not grow with the send count.
ComputeRetransmitTimeoutFlat(count) == (Base * 5) \div 4

\* The multiplier is 1.25 up to 50 transmissions.
ComputeRetransmitTimeout(count) == (Base * count * 5) \div 4

\* A transmission at a time, and the timeout that starts with it.  It is lost, or
\* answered after the latency of the client; only the first answer counts.
Transmit(now, count, lost, answered) ==
    /\ sendCount' = count
    /\ sentAt' = now
    /\ due' = now + ComputeRetransmitTimeout(count)
    /\ answerAt' = IF answered >= 0 THEN answered ELSE IF lost THEN -1 ELSE now + latency
    /\ instant' = (instant \/ due' = now)

\* sendPacket of a reliable DATA packet, and SchedulePacketTimeout
SendTimed(lost) ==
    /\ ~kicked /\ sendCount = 0 /\ timed < MaxTimed
    /\ timed' = timed + 1
    /\ Transmit(0, 1, lost, -1)
    /\ UNCHANGED <<latency, average, pings, kicked, misled>>

\* TimeoutManager.start when the timeout is over, before an answer
TimeoutOver(lost) ==
    /\ ~kicked /\ sendCount > 0
    /\ answerAt >= 0 => due <= answerAt
    /\ IF sendCount < MaxPacketRetransmissions
       THEN Transmit(due, sendCount + 1, lost, answerAt) /\ UNCHANGED kicked
       ELSE kicked' = TRUE /\ UNCHANGED <<sendCount, sentAt, due, answerAt, instant>>
    /\ UNCHANGED <<latency, average, timed, pings, misled>>

\* AcknowledgePacket, when the first answer arrives: a packet that was sent again is a
\* sample of the RTT, counted from its last transmission.
AnswerArrives ==
    /\ ~kicked /\ sendCount > 0
    /\ answerAt >= 0 /\ answerAt <= due
    /\ sendCount' = 0
    /\ IF sendCount >= RTTRetransmit
       THEN /\ average' = Adjust(answerAt - sentAt)
            /\ misled' = (misled \/ answerAt - sentAt # latency)
       ELSE UNCHANGED <<average, misled>>
    /\ UNCHANGED <<latency, sentAt, due, answerAt, timed, pings, kicked, instant>>

\* handleAcknowledgment of the answer to the latest PING
PingAnswered ==
    /\ ~kicked /\ pings < MaxPings
    /\ pings' = pings + 1
    /\ average' = Adjust(latency)
    /\ UNCHANGED <<latency, sendCount, sentAt, due, answerAt, timed, kicked, misled,
                   instant>>

RNext ==
    \/ \E lost \in BOOLEAN : SendTimed(lost) \/ TimeoutOver(lost)
    \/ AnswerArrives
    \/ PingAnswered

RSpec == RInit /\ [][RNext]_rvars

------------------------------------------------------------------------------
(* Properties *)

\* A client is given up only if none of the transmissions reached it: the wait after
\* the last leaves room for its answer.  Excepted are a timeout of zero, which an
\* average below 8 ms gives, with which every retransmission is due at once, and a
\* sample that took the late answer to one transmission for the answer to the next.
GivenUpUnheard == kicked => answerAt < 0 \/ instant \/ misled

\* The average never falls below the latency of the client and never rises above
\* three times it, unless a sample was not the latency.
AverageBounded ==
    average >= 0 /\ ~misled => average \in (1000 * latency)..(3000 * latency)
==============================================================================
