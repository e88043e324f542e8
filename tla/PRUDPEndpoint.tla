---------------------------- MODULE PRUDPEndpoint ----------------------------
(***************************************************************************)
(* The life of the connections of one secure PRUDP endpoint: the           *)
(* Connections map, the state of each connection object, its heartbeat and *)
(* ping-kick timers, and the events the endpoint emits to the code above.  *)
(* What a connection carries is in InboundStream and OutboundStream.       *)
(*                                                                         *)
(* Every packet is handled by a goroutine of its own that first looks its  *)
(* connection up (or creates it) and then takes the connection's mutex.    *)
(* Timer callbacks run in goroutines that do not take the mutex.  A        *)
(* handler is one step; the two halves of CleanupConnection are two steps  *)
(* when a timer runs it, because nothing keeps other goroutines out.       *)
(*                                                                         *)
(* Races names what the run lets happen at its worst:                      *)
(*   rehandshake    a SYN or CONNECT arrives for a connected connection    *)
(*                  (a duplicate, a retry after a lost acknowledgement, a  *)
(*                  console that restarts from the same port)              *)
(*   late_lock      other goroutines run between lookup and mutex          *)
(*   late_callback  other goroutines run between a timer's expiry and its  *)
(*                  callback, and between the halves of CleanupConnection  *)
(***************************************************************************)
EXTENDS Naturals, Sequences, FiniteSets

CONSTANTS
    Addr,         \* discriminators: client address, stream type, stream ID
    MaxConn,      \* bound: connection objects the endpoint creates
    MaxPackets,   \* bound: packets that arrive
    Races         \* see above

ASSUME EndpointAssumption ==
    /\ MaxConn \in Nat
    /\ MaxPackets \in Nat
    /\ Races \subseteq {"rehandshake", "late_lock", "late_callback"}

VARIABLES
    conns,        \* PRUDPEndPoint.Connections: discriminator -> connection, 0 for none
    created,      \* ConnectionIDCounter
    obj,          \* the connection objects
    arrived,      \* packets whose connection is looked up, not handled yet
    tasks,        \* callback goroutines that have started, per connection
    events,       \* the events the last step emitted, in their order
    ended,        \* history: the connections connectionEnded was emitted for
    packets       \* packets that arrived so far

vars == <<conns, created, obj, arrived, tasks, events, ended, packets>>

Conn == 1..MaxConn
NoConn == 0

PacketTypes == {"syn", "connect", "traffic", "disconnect"}

\* NewPRUDPConnection, with the discriminator it is stored under.  heartbeat is
\* heartbeatTimer # nil; beat and kick say whether the timers the object refers
\* to run; lostBeats and lostKicks count running timers it no longer refers to.
NewPRUDPConnection(a) ==
    [addr |-> a, state |-> "not_connected", pid |-> FALSE, heartbeat |-> FALSE,
     beat |-> FALSE, lostBeats |-> 0, kick |-> FALSE, lostKicks |-> 0]

\* Mutants: the kick timer is not stopped; the heartbeat is not armed again.
ResetHeartbeatKeepsKick(o) == [o EXCEPT !.beat = @ \/ o.heartbeat]
ResetHeartbeatForgetsBeat(o) == [o EXCEPT !.kick = FALSE]

ResetHeartbeat(o) == [o EXCEPT !.kick = FALSE, !.beat = @ \/ o.heartbeat]

\* The AfterFunc of StartHeartbeat replaces heartbeatTimer; a timer that was
\* running there runs on.
StartHeartbeat(o) ==
    [o EXCEPT !.heartbeat = TRUE, !.beat = TRUE,
              !.lostBeats = IF o.beat THEN @ + 1 ELSE @]

\* Mutant: the callback sends its PING and sets no kick timer.
StartKickForgotten(o) == o

\* The heartbeat callback sends a PING and replaces pingKickTimer.
StartKick(o) ==
    [o EXCEPT !.kick = TRUE, !.lostKicks = IF o.kick THEN @ + 1 ELSE @]

\* The lifecycle fields PRUDPConnection.Reset clears: not the PID, not the timers.
Reset(o) == [o EXCEPT !.state = "not_connected"]

\* Mutants: one of the two timers is left running.
StopHeartbeatTimersKeepsKick(o) == [o EXCEPT !.beat = FALSE]
StopHeartbeatTimersKeepsBeat(o) == [o EXCEPT !.kick = FALSE]

StopHeartbeatTimers(o) == [o EXCEPT !.kick = FALSE, !.beat = FALSE]

\* Mutant: cleanup stops the timers and leaves the connection state.
CleanupKeepsState(o) == StopHeartbeatTimers(o)

\* PRUDPConnection.cleanup up to emitConnectionEnded
Cleanup(o) == StopHeartbeatTimers(Reset(o))

Event(name, c) == [event |-> name, conn |-> c]

NoTasks == [beat |-> 0, remove |-> 0, finish |-> 0]

Init ==
    /\ conns = [a \in Addr |-> NoConn]
    /\ created = 0
    /\ obj = <<>>
    /\ arrived = {}
    /\ tasks = [c \in Conn |-> NoTasks]
    /\ events = <<>>
    /\ ended = {}
    /\ packets = 0

CallbacksRun == "late_callback" \notin Races => \A c \in Conn : tasks[c] = NoTasks
PacketsHandled == "late_lock" \notin Races => arrived = {}

------------------------------------------------------------------------------
(* Packets *)

Rehandshake(a, type) ==
    /\ type \in {"syn", "connect"}
    /\ conns[a] # NoConn
    /\ obj[conns[a]].state = "connected"

\* PRUDPEndPoint.processPacket up to the mutex: GetOrSetDefault.
Arrive(a, type) ==
    /\ CallbacksRun
    /\ PacketsHandled
    /\ packets < MaxPackets
    /\ Rehandshake(a, type) => "rehandshake" \in Races
    /\ packets' = packets + 1
    /\ events' = <<>>
    /\ \/ /\ conns[a] # NoConn
          /\ arrived' = arrived \cup {[conn |-> conns[a], type |-> type]}
          /\ UNCHANGED <<conns, created, obj>>
       \/ /\ conns[a] = NoConn
          /\ created < MaxConn
          /\ created' = created + 1
          /\ conns' = [conns EXCEPT ![a] = created']
          /\ obj' = Append(obj, NewPRUDPConnection(a))
          /\ arrived' = arrived \cup {[conn |-> created', type |-> type]}
    /\ UNCHANGED tasks

\* handleSyn
HandleSyn(c) ==
    /\ obj' = [obj EXCEPT ![c] = [Reset(ResetHeartbeat(@)) EXCEPT !.state = "connecting"]]
    /\ events' = <<Event("heard", c), Event("syn", c)>>
    /\ UNCHANGED <<conns, created, tasks>>

\* handleConnect of a good ticket
HandleConnect(c) ==
    /\ obj[c].state \in {"connecting", "connected"}
    /\ obj' = [obj EXCEPT ![c] =
                  StartHeartbeat([ResetHeartbeat(@) EXCEPT !.pid = TRUE, !.state = "connected"])]
    /\ events' = <<Event("heard", c), Event("connect", c)>>
    /\ UNCHANGED <<conns, created, tasks>>

\* handleConnect that finds the payload undecodable or the ticket expired
HandleConnectRefused(c) ==
    /\ obj[c].state \in {"connecting", "connected"}
    /\ obj' = [obj EXCEPT ![c] = ResetHeartbeat(@)]
    /\ events' = <<Event("heard", c)>>
    /\ UNCHANGED <<conns, created, tasks>>

\* handleData, handlePing and handleAcknowledgment, as far as the lifecycle goes
HandleTraffic(c) ==
    /\ obj[c].state = "connected"
    /\ obj' = [obj EXCEPT ![c] = ResetHeartbeat(@)]
    /\ events' = <<Event("heard", c)>>
    /\ UNCHANGED <<conns, created, tasks>>

\* handleDisconnect: the connection now in the map under the sender's discriminator
\* is cleaned up, then the disconnect event is emitted.
HandleDisconnect(c) ==
    LET a == obj[c].addr
        d == conns[a]
    IN  /\ IF d = NoConn
           THEN /\ events' = <<Event("disconnect", c)>>
                /\ UNCHANGED <<conns, obj>>
           ELSE /\ conns' = [conns EXCEPT ![a] = NoConn]
                /\ obj' = [obj EXCEPT ![d] = Cleanup(@)]
                /\ events' = <<Event("connectionEnded", d), Event("disconnect", c)>>
        /\ UNCHANGED <<created, tasks>>

\* The early returns of handleConnect, handleData, handlePing and handleAcknowledgment
HandleIgnored(c, type) ==
    /\ \/ type = "connect" /\ obj[c].state = "not_connected"
       \/ type = "traffic" /\ obj[c].state # "connected"
    /\ events' = <<>>
    /\ UNCHANGED <<conns, created, obj, tasks>>

\* PRUDPEndPoint.processPacket under the connection's mutex
Handle(p) ==
    /\ CallbacksRun
    /\ arrived' = arrived \ {p}
    /\ \/ p.type = "syn" /\ HandleSyn(p.conn)
       \/ p.type = "connect" /\ HandleConnect(p.conn)
       \/ p.type = "connect" /\ HandleConnectRefused(p.conn)
       \/ p.type = "traffic" /\ HandleTraffic(p.conn)
       \/ p.type = "disconnect" /\ HandleDisconnect(p.conn)
       \/ HandleIgnored(p.conn, p.type)
    /\ UNCHANGED packets

------------------------------------------------------------------------------
(* Timers and retransmission *)

\* A heartbeat timer expires: the one the connection refers to, or a lost one.
HeartbeatExpires(c) ==
    /\ CallbacksRun
    /\ PacketsHandled
    /\ \/ /\ obj[c].beat
          /\ obj' = [obj EXCEPT ![c].beat = FALSE]
       \/ /\ obj[c].lostBeats > 0
          /\ obj' = [obj EXCEPT ![c].lostBeats = @ - 1]
    /\ tasks' = [tasks EXCEPT ![c].beat = @ + 1]
    /\ events' = <<>>
    /\ UNCHANGED <<conns, created, arrived, packets>>

\* The heartbeat callback: sendPing, then a new ping-kick timer.
HeartbeatCallback(c) ==
    /\ tasks[c].beat > 0
    /\ tasks' = [tasks EXCEPT ![c].beat = @ - 1]
    /\ obj' = [obj EXCEPT ![c] = StartKick(@)]
    /\ events' = <<>>
    /\ UNCHANGED <<conns, created, arrived, packets>>

\* A ping-kick timer expires; its callback is CleanupConnection.
KickExpires(c) ==
    /\ CallbacksRun
    /\ PacketsHandled
    /\ \/ /\ obj[c].kick
          /\ obj' = [obj EXCEPT ![c].kick = FALSE]
       \/ /\ obj[c].lostKicks > 0
          /\ obj' = [obj EXCEPT ![c].lostKicks = @ - 1]
    /\ tasks' = [tasks EXCEPT ![c].remove = @ + 1]
    /\ events' = <<>>
    /\ UNCHANGED <<conns, created, arrived, packets>>

\* TimeoutManager.start gives a packet up: it calls CleanupConnection as well.
GiveUp(c) ==
    /\ CallbacksRun
    /\ PacketsHandled
    /\ obj[c].state = "connected"
    /\ tasks[c].remove + tasks[c].finish = 0
    /\ tasks' = [tasks EXCEPT ![c].remove = 1]
    /\ events' = <<>>
    /\ UNCHANGED <<conns, created, obj, arrived, packets>>

\* CleanupConnection, first half: RunAndDelete of the connection's discriminator.
CleanupRemove(c) ==
    /\ tasks[c].remove > 0
    /\ tasks' = [tasks EXCEPT ![c].remove = @ - 1, ![c].finish = @ + 1]
    /\ conns' = [conns EXCEPT ![obj[c].addr] = NoConn]
    /\ events' = <<>>
    /\ UNCHANGED <<created, obj, arrived, packets>>

\* CleanupConnection, second half: connection.cleanup().
CleanupFinish(c) ==
    /\ tasks[c].finish > 0
    /\ tasks' = [tasks EXCEPT ![c].finish = @ - 1]
    /\ obj' = [obj EXCEPT ![c] = Cleanup(@)]
    /\ events' = <<Event("connectionEnded", c)>>
    /\ UNCHANGED <<conns, created, arrived, packets>>

TimerStep(c) ==
    \/ HeartbeatExpires(c)
    \/ HeartbeatCallback(c)
    \/ KickExpires(c)
    \/ CleanupRemove(c)
    \/ CleanupFinish(c)

EndedNow == {c \in Conn : \E i \in DOMAIN events' : events'[i] = Event("connectionEnded", c)}

Next ==
    /\ \/ \E a \in Addr, type \in PacketTypes : Arrive(a, type)
       \/ \E p \in arrived : Handle(p)
       \/ \E c \in DOMAIN obj : TimerStep(c) \/ GiveUp(c)
    /\ ended' = ended \cup EndedNow

Spec == Init /\ [][Next]_vars

\* The runtime fires every timer and runs every callback.  Packets and GiveUp are not
\* fair: a client may fall silent at any time, with nothing to retransmit to it.
TimerStepFires(c) == c \in DOMAIN obj /\ TimerStep(c) /\ ended' = ended \cup EndedNow
Fairness == \A c \in Conn : WF_vars(TimerStepFires(c))
FairSpec == Spec /\ Fairness

------------------------------------------------------------------------------
(* Properties *)

Timers(c) == obj[c].beat \/ obj[c].kick \/ obj[c].lostBeats > 0 \/ obj[c].lostKicks > 0
Mapped(c) == conns[obj[c].addr] = c
Gone(c) == ~Mapped(c) /\ obj[c].state = "not_connected" /\ ~Timers(c)

\* The type invariant.  Connections are numbered in the order processPacket creates
\* them and each is stored under the discriminator it was created for.
TypeOK ==
    /\ created \in 0..MaxConn
    /\ obj \in Seq([addr : Addr, state : {"not_connected", "connecting", "connected"},
                    pid : BOOLEAN, heartbeat : BOOLEAN, beat : BOOLEAN, lostBeats : Nat,
                    kick : BOOLEAN, lostKicks : Nat])
    /\ Len(obj) = created
    /\ conns \in [Addr -> 0..created]
    /\ \A a \in Addr : conns[a] # NoConn => obj[conns[a]].addr = a
    /\ arrived \subseteq [conn : 1..created, type : PacketTypes]
    /\ tasks \in [Conn -> [beat : Nat, remove : Nat, finish : Nat]]
    /\ ended \subseteq 1..created
    /\ packets \in 0..MaxPackets

\* The endpoint never loses sight of a connected client: some heartbeat or kick timer
\* of it runs, or a callback that leads to its cleanup is on its way.  It is what makes
\* StartHeartbeat, ResetHeartbeat and the two callbacks enough to notice every silence.
ConnectedWatched ==
    \A c \in DOMAIN obj :
        obj[c].state = "connected" => Timers(c) \/ tasks[c] # NoTasks

\* CleanupConnection "cleans up and deletes a connection from this endpoint": an entry
\* leaves the Connections map only when the connection in it is the one cleaned up.
OwnEntryOnly ==
    [][\A a \in Addr : conns[a] # NoConn /\ conns'[a] # conns[a] =>
          \/ conns[a] \in EndedNow
          \/ tasks'[conns[a]].finish > tasks[conns[a]].finish]_vars

\* A connected client can be found: its connection is in the Connections map, where
\* FindConnectionByPID looks for it, until its cleanup has begun.
ConnectedMapped ==
    \A c \in DOMAIN obj :
        obj[c].state = "connected" => Mapped(c) \/ tasks[c].finish > 0

\* After connectionEnded is emitted for a connection, cleanup has left nothing of it:
\* no entry, no state, no timer, and no callback that would act on it again.
EndedIsDead == \A c \in ended : Gone(c) /\ tasks[c] = NoTasks

\* A packet that restarts the heartbeat (ResetHeartbeat) stops the kick: no timer is
\* left that would clean the connection up although the client was heard.
KicksStopped ==
    \A i \in DOMAIN events : events[i].event = "heard" =>
        LET c == events[i].conn
        IN  ~obj[c].kick /\ obj[c].lostKicks = 0 /\ tasks[c].remove = 0

\* Whatever the races, a connected client that falls silent is cleaned up in the end:
\* heartbeat, ping, kick, CleanupConnection.
SilentIsCleaned ==
    \A c \in Conn :
        (c \in DOMAIN obj /\ obj[c].state = "connected") ~> (c \in DOMAIN obj /\ Gone(c))
==============================================================================
