------------------------ MODULE PRUDPEndpoint_proofs -------------------------
(***************************************************************************)
(* Proofs about the life of connections, for any number of addresses,      *)
(* connection objects and packets.                                         *)
(*                                                                         *)
(* With all races: TypeCorrect, and ConnectedWatchedAlways, the safety     *)
(* half of "a silent client is cleaned up".  ConnectedWatched is not       *)
(* inductive: ResetHeartbeat arms a timer again only if there was one.     *)
(* The invariant adds that a connected connection has had its heartbeat    *)
(* timer made (HeartbeatMade), which Reset keeps.                          *)
(*                                                                         *)
(* Without the races of PRUDPEndpoint (Calm): who is in the map, and what  *)
(* a cleanup leaves behind.  The invariant (CalmInv) ties the timers of    *)
(* each connection to its callback and to its map entry: at most one       *)
(* callback runs at a time, it belongs to a connection that has not ended, *)
(* and a connection leaves the map only through its own CleanupConnection  *)
(* or DISCONNECT.                                                          *)
(*                                                                         *)
(* Observers, without the races: an address has at most one connection     *)
(* that has not ended (OnePerAddress), which is what makes a log keyed by  *)
(* address right: a step is quiet, a connect or the end of a connection    *)
(* (StepKinds), and the handlers follow it (LogInv).                       *)
(***************************************************************************)
EXTENDS Observers, TLAPS

Object == [addr : Addr, state : {"not_connected", "connecting", "connected"},
           pid : BOOLEAN, heartbeat : BOOLEAN, beat : BOOLEAN, lostBeats : Nat,
           kick : BOOLEAN, lostKicks : Nat]

Tasks == [beat : Nat, remove : Nat, finish : Nat]

HeartbeatMade ==
    \A c \in DOMAIN obj : obj[c].state = "connected" => obj[c].heartbeat

EndpointInv == TypeOK /\ HeartbeatMade /\ ConnectedWatched

\* The type invariant, with names for the objects and their callbacks
LEMMA TypeParts ==
    TypeOK <=>
        /\ created \in 0..MaxConn /\ obj \in Seq(Object) /\ Len(obj) = created
        /\ conns \in [Addr -> 0..created]
        /\ \A a \in Addr : conns[a] # NoConn => obj[conns[a]].addr = a
        /\ arrived \subseteq [conn : 1..created, type : PacketTypes]
        /\ tasks \in [Conn -> Tasks]
        /\ ended \subseteq 1..created /\ packets \in 0..MaxPackets
BY DEF TypeOK, Object, Tasks

\* One object is watched: it has a timer that runs or a callback that has started.
Watched(o, t) == o.beat \/ o.kick \/ o.lostBeats > 0 \/ o.lostKicks > 0 \/ t # NoTasks

\* What has to be true of an object and its callbacks
Good(o, t) == o.state = "connected" => o.heartbeat /\ Watched(o, t)

\* The invariant, connection by connection.
LEMMA GoodParts ==
    (\A c \in DOMAIN obj : Good(obj[c], tasks[c])) <=> HeartbeatMade /\ ConnectedWatched
BY DEF Good, Watched, HeartbeatMade, ConnectedWatched, Timers

\* The operations of a connection object keep its type and its address.
LEMMA Operations ==
    ASSUME NEW o \in Object
    PROVE  /\ ResetHeartbeat(o) \in Object /\ ResetHeartbeat(o).addr = o.addr
           /\ StartHeartbeat(o) \in Object /\ StartHeartbeat(o).addr = o.addr
           /\ StartKick(o) \in Object /\ StartKick(o).addr = o.addr
           /\ Reset(o) \in Object /\ Reset(o).addr = o.addr
           /\ Cleanup(o) \in Object /\ Cleanup(o).addr = o.addr
<1>1. ResetHeartbeat(o) \in Object /\ ResetHeartbeat(o).addr = o.addr
  <2>1. (o.beat \/ o.heartbeat) \in BOOLEAN
    OBVIOUS
  <2>2. QED
    BY <2>1, Zenon DEF Object, ResetHeartbeat
<1>2. StartHeartbeat(o) \in Object /\ StartHeartbeat(o).addr = o.addr
  <2> DEFINE n == IF o.beat THEN o.lostBeats + 1 ELSE o.lostBeats
  <2>1. n \in Nat
    BY DEF Object
  <2>2. StartHeartbeat(o) = [o EXCEPT !.heartbeat = TRUE, !.beat = TRUE, !.lostBeats = n]
    BY DEF StartHeartbeat
  <2> HIDE DEF n
  <2>3. QED
    BY <2>1, <2>2, Zenon DEF Object
<1>3. StartKick(o) \in Object /\ StartKick(o).addr = o.addr
  <2> DEFINE n == IF o.kick THEN o.lostKicks + 1 ELSE o.lostKicks
  <2>1. n \in Nat
    BY DEF Object
  <2>2. StartKick(o) = [o EXCEPT !.kick = TRUE, !.lostKicks = n]
    BY DEF StartKick
  <2> HIDE DEF n
  <2>3. QED
    BY <2>1, <2>2, Zenon DEF Object
<1>4. Reset(o) \in Object /\ Reset(o).addr = o.addr
  BY DEF Object, Reset
<1>5. Cleanup(o) \in Object /\ Cleanup(o).addr = o.addr
  BY Zenon DEF Object, Cleanup, StopHeartbeatTimers, Reset
<1>6. QED
  BY <1>1, <1>2, <1>3, <1>4, <1>5

\* Timers that expire leave an object of the same state.
LEMMA TimerFields ==
    ASSUME NEW o \in Object, NEW n \in Nat
    PROVE  \A e \in {[o EXCEPT !.beat = FALSE], [o EXCEPT !.kick = FALSE],
                     [o EXCEPT !.lostBeats = n], [o EXCEPT !.lostKicks = n]} :
               /\ e \in Object /\ e.addr = o.addr /\ e.state = o.state
               /\ e.heartbeat = o.heartbeat
<1>1. [o EXCEPT !.beat = FALSE] \in Object /\ [o EXCEPT !.kick = FALSE] \in Object
  BY Zenon DEF Object
<1>2. [o EXCEPT !.lostBeats = n] \in Object /\ [o EXCEPT !.lostKicks = n] \in Object
  BY DEF Object
<1>3. QED
  BY <1>1, <1>2, Zenon DEF Object

\* Replacing one object by one with the same address
LEMMA Replaced ==
    ASSUME obj \in Seq(Object), NEW c \in DOMAIN obj, NEW o \in Object, o.addr = obj[c].addr,
           obj' = [obj EXCEPT ![c] = o]
    PROVE  /\ obj' \in Seq(Object) /\ Len(obj') = Len(obj) /\ DOMAIN obj' = DOMAIN obj
           /\ \A d \in DOMAIN obj : obj'[d].addr = obj[d].addr
           /\ obj'[c] = o /\ \A d \in DOMAIN obj \ {c} : obj'[d] = obj[d]
OBVIOUS

\* Callbacks that start and end
LEMMA TaskSteps ==
    ASSUME NEW t \in Tasks
    PROVE  /\ [t EXCEPT !.beat = @ + 1] \in Tasks /\ [t EXCEPT !.beat = @ + 1] # NoTasks
           /\ t.beat > 0 => [t EXCEPT !.beat = @ - 1] \in Tasks
           /\ [t EXCEPT !.remove = @ + 1] \in Tasks /\ [t EXCEPT !.remove = @ + 1] # NoTasks
           /\ [t EXCEPT !.remove = 1] \in Tasks /\ [t EXCEPT !.remove = 1] # NoTasks
           /\ t.remove > 0 =>
                /\ [t EXCEPT !.remove = @ - 1, !.finish = @ + 1] \in Tasks
                /\ [t EXCEPT !.remove = @ - 1, !.finish = @ + 1] # NoTasks
           /\ t.finish > 0 => [t EXCEPT !.finish = @ - 1] \in Tasks
<1>1. /\ [t EXCEPT !.beat = @ + 1] \in Tasks /\ [t EXCEPT !.beat = @ + 1].beat # 0
      /\ t.beat > 0 => [t EXCEPT !.beat = @ - 1] \in Tasks
  BY DEF Tasks
<1>2. /\ [t EXCEPT !.remove = @ + 1] \in Tasks /\ [t EXCEPT !.remove = @ + 1].remove # 0
      /\ [t EXCEPT !.remove = 1] \in Tasks /\ [t EXCEPT !.remove = 1].remove # 0
  BY DEF Tasks
<1>3. t.remove > 0 =>
          /\ [t EXCEPT !.remove = @ - 1, !.finish = @ + 1] \in Tasks
          /\ [t EXCEPT !.remove = @ - 1, !.finish = @ + 1].finish # 0
  <2>1. SUFFICES ASSUME t.remove > 0
                 PROVE  /\ [t EXCEPT !.remove = @ - 1, !.finish = @ + 1] \in Tasks
                        /\ [t EXCEPT !.remove = @ - 1, !.finish = @ + 1].finish # 0
    OBVIOUS
  <2> DEFINE r == t.remove - 1
             f == t.finish + 1
  <2>2. r \in Nat /\ f \in Nat /\ f # 0
    BY <2>1 DEF Tasks
  <2> HIDE DEF r, f
  <2>3. [t EXCEPT !.remove = r, !.finish = f] \in Tasks /\ [t EXCEPT !.remove = r, !.finish = f].finish = f
    BY <2>2, Zenon DEF Tasks
  <2>4. QED
    BY <2>2, <2>3 DEF r, f
<1>4. t.finish > 0 => [t EXCEPT !.finish = @ - 1] \in Tasks
  BY DEF Tasks
<1>5. NoTasks.beat = 0 /\ NoTasks.remove = 0 /\ NoTasks.finish = 0
  BY DEF NoTasks
<1>6. QED
  BY <1>1, <1>2, <1>3, <1>4, <1>5, Zenon

\* A step that replaces at most one object and its callbacks by good ones, takes entries
\* out of the map at most, and looks no connection up, keeps the invariant.
LEMMA StepOnOne ==
    ASSUME EndpointInv, NEW c \in DOMAIN obj, NEW o \in Object, NEW t \in Tasks,
           o.addr = obj[c].addr, Good(o, t),
           obj' = [obj EXCEPT ![c] = o], tasks' = [tasks EXCEPT ![c] = t],
           UNCHANGED <<created, packets>>, conns' \in [Addr -> 0..created],
           \A a \in Addr : conns'[a] \in {conns[a], NoConn},
           arrived' \subseteq arrived, ended' \subseteq 1..created
    PROVE  EndpointInv'
<1>1. /\ obj' \in Seq(Object) /\ Len(obj') = Len(obj) /\ DOMAIN obj' = DOMAIN obj
      /\ \A d \in DOMAIN obj : obj'[d].addr = obj[d].addr
      /\ obj'[c] = o /\ \A d \in DOMAIN obj \ {c} : obj'[d] = obj[d]
  BY Replaced, TypeParts DEF EndpointInv
<1>2. DOMAIN obj = 1..created /\ created \in 0..MaxConn /\ DOMAIN obj \subseteq Conn
  BY TypeParts, EndpointAssumption DEF EndpointInv, Conn
<1>3. tasks' \in [Conn -> Tasks]
  BY <1>2, TypeParts DEF EndpointInv
<1>4. tasks'[c] = t /\ \A d \in DOMAIN obj \ {c} : tasks'[d] = tasks[d]
  BY <1>2, TypeParts DEF EndpointInv
<1>5. \A a \in Addr : conns'[a] # NoConn => obj'[conns'[a]].addr = a
  <2>1. SUFFICES ASSUME NEW a \in Addr, conns'[a] # NoConn PROVE obj'[conns'[a]].addr = a
    OBVIOUS
  <2>2. conns'[a] = conns[a] /\ conns[a] \in DOMAIN obj
    BY <1>2, <2>1, TypeParts DEF EndpointInv, NoConn
  <2>3. QED
    BY <1>1, <2>1, <2>2, TypeParts DEF EndpointInv
<1>6. TypeOK'
  <2>1. /\ created' \in 0..MaxConn /\ Len(obj') = created' /\ packets' \in 0..MaxPackets
        /\ conns' \in [Addr -> 0..created'] /\ ended' \subseteq 1..created'
        /\ arrived' \subseteq [conn : 1..created', type : PacketTypes]
    BY <1>1, TypeParts DEF EndpointInv
  <2>2. QED
    BY <1>1, <1>3, <1>5, <2>1 DEF TypeOK, Object, Tasks
<1>7. \A d \in DOMAIN obj' : Good(obj'[d], tasks'[d])
  BY <1>1, <1>4, GoodParts DEF EndpointInv
<1>8. HeartbeatMade' /\ ConnectedWatched'
  BY <1>7 DEF Good, Watched, HeartbeatMade, ConnectedWatched, Timers
<1>9. QED
  BY <1>6, <1>8 DEF EndpointInv

\* The endpoint starts without connections.
LEMMA EndpointInitInv == Init => EndpointInv
<1> SUFFICES ASSUME Init PROVE EndpointInv
  OBVIOUS
<1>1. obj = <<>> /\ DOMAIN obj = {} /\ obj \in Seq(Object) /\ Len(obj) = 0
  BY DEF Init
<1>2. tasks \in [Conn -> Tasks]
  BY DEF Init, NoTasks, Tasks
<1>3. TypeOK
  BY <1>1, <1>2, TypeParts, EndpointAssumption DEF Init, NoConn
<1>4. QED
  BY <1>1, <1>3 DEF EndpointInv, HeartbeatMade, ConnectedWatched

\* The set of those that ended grows by connections that exist.
LEMMA EndedType ==
    ASSUME EndpointInv, ended' = ended \cup EndedNow, EndedNow \subseteq DOMAIN obj
    PROVE  ended' \subseteq 1..created
BY TypeParts DEF EndpointInv

\* The steps that handle no packet.
LEMMA TimerInv ==
    ASSUME EndpointInv, NEW c \in DOMAIN obj, TimerStep(c) \/ GiveUp(c),
           ended' = ended \cup EndedNow
    PROVE  EndpointInv'
<1> DEFINE o == obj[c]
           t == tasks[c]
<1>1. /\ DOMAIN obj = 1..created /\ c \in Conn /\ o \in Object /\ t \in Tasks /\ o.addr \in Addr
      /\ conns \in [Addr -> 0..created] /\ created \in Nat /\ Good(o, t)
      /\ obj = [obj EXCEPT ![c] = o] /\ tasks = [tasks EXCEPT ![c] = t]
  <2>1. /\ DOMAIN obj = 1..created /\ c \in Conn /\ created \in Nat
        /\ conns \in [Addr -> 0..created]
    BY TypeParts, EndpointAssumption DEF EndpointInv, Conn
  <2>2. o \in Object /\ t \in Tasks
    BY <2>1, TypeParts DEF EndpointInv
  <2>3. o.addr \in Addr
    BY <2>2 DEF Object
  <2>4. Good(o, t)
    BY GoodParts DEF EndpointInv
  <2>5. obj = [obj EXCEPT ![c] = o] /\ tasks = [tasks EXCEPT ![c] = t]
    BY <2>1, TypeParts DEF EndpointInv
  <2>6. QED
    BY <2>1, <2>2, <2>3, <2>4, <2>5
<1>2. ASSUME NEW e \in Object, NEW u \in Tasks, e.addr = o.addr, Good(e, u),
             obj' = [obj EXCEPT ![c] = e], tasks' = [tasks EXCEPT ![c] = u],
             UNCHANGED <<created, arrived, packets>>,
             UNCHANGED conns \/ conns' = [conns EXCEPT ![o.addr] = NoConn],
             events' = <<>> \/ events' = <<Event("connectionEnded", c)>>
      PROVE  EndpointInv'
  <2>1. EndedNow \subseteq DOMAIN obj
    BY <1>2 DEF EndedNow, Event
  <2>2. conns' \in [Addr -> 0..created] /\ \A a \in Addr : conns'[a] \in {conns[a], NoConn}
    BY <1>1, <1>2 DEF NoConn
  <2>3. QED
    BY <1>2, <2>1, <2>2, EndedType, StepOnOne, Zenon
<1> HIDE DEF o, t
<1>3. CASE HeartbeatExpires(c)
  <2> DEFINE u == [t EXCEPT !.beat = @ + 1]
  <2>1. u \in Tasks /\ u # NoTasks
    BY <1>1, TaskSteps, Zenon
  <2>2. PICK e \in Object : /\ e.addr = o.addr /\ e.state = o.state /\ e.heartbeat = o.heartbeat
                            /\ obj' = [obj EXCEPT ![c] = e]
    <3>1. CASE obj' = [obj EXCEPT ![c].beat = FALSE]
      <4>1. obj' = [obj EXCEPT ![c] = [o EXCEPT !.beat = FALSE]]
        BY <3>1 DEF o
      <4>2. QED
        BY <1>1, <4>1, TimerFields, Zenon
    <3>2. CASE o.lostBeats > 0 /\ obj' = [obj EXCEPT ![c].lostBeats = @ - 1]
      <4> DEFINE n == o.lostBeats - 1
      <4>0. o.lostBeats \in Nat /\ o.lostBeats > 0
        BY <1>1, <3>2 DEF Object
      <4>1. n \in Nat /\ obj' = [obj EXCEPT ![c] = [o EXCEPT !.lostBeats = n]]
        <5>1. n \in Nat
          BY <4>0
        <5>2. obj' = [obj EXCEPT ![c] = [o EXCEPT !.lostBeats = n]]
          BY <3>2 DEF o
        <5>3. QED
          BY <5>1, <5>2
      <4> HIDE DEF n
      <4>2. QED
        BY <1>1, <4>1, TimerFields, Zenon
    <3>3. QED
      BY <1>3, <3>1, <3>2 DEF HeartbeatExpires, o
  <2>3. tasks' = [tasks EXCEPT ![c] = u]
    BY <1>3 DEF HeartbeatExpires, t
  <2>4. Good(e, u)
    BY <1>1, <2>1, <2>2 DEF Good, Watched
  <2>5. QED
    BY <1>2, <1>3, <2>1, <2>2, <2>3, <2>4, Zenon DEF HeartbeatExpires
<1>4. CASE KickExpires(c)
  <2> DEFINE u == [t EXCEPT !.remove = @ + 1]
  <2>1. u \in Tasks /\ u # NoTasks
    BY <1>1, TaskSteps, Zenon
  <2>2. PICK e \in Object : /\ e.addr = o.addr /\ e.state = o.state /\ e.heartbeat = o.heartbeat
                            /\ obj' = [obj EXCEPT ![c] = e]
    <3>1. CASE obj' = [obj EXCEPT ![c].kick = FALSE]
      <4>1. obj' = [obj EXCEPT ![c] = [o EXCEPT !.kick = FALSE]]
        BY <3>1 DEF o
      <4>2. QED
        BY <1>1, <4>1, TimerFields, Zenon
    <3>2. CASE o.lostKicks > 0 /\ obj' = [obj EXCEPT ![c].lostKicks = @ - 1]
      <4> DEFINE n == o.lostKicks - 1
      <4>0. o.lostKicks \in Nat /\ o.lostKicks > 0
        BY <1>1, <3>2 DEF Object
      <4>1. n \in Nat /\ obj' = [obj EXCEPT ![c] = [o EXCEPT !.lostKicks = n]]
        <5>1. n \in Nat
          BY <4>0
        <5>2. obj' = [obj EXCEPT ![c] = [o EXCEPT !.lostKicks = n]]
          BY <3>2 DEF o
        <5>3. QED
          BY <5>1, <5>2
      <4> HIDE DEF n
      <4>2. QED
        BY <1>1, <4>1, TimerFields, Zenon
    <3>3. QED
      BY <1>4, <3>1, <3>2 DEF KickExpires, o
  <2>3. tasks' = [tasks EXCEPT ![c] = u]
    BY <1>4 DEF KickExpires, t
  <2>4. Good(e, u)
    BY <1>1, <2>1, <2>2 DEF Good, Watched
  <2>5. QED
    BY <1>2, <1>4, <2>1, <2>2, <2>3, <2>4, Zenon DEF KickExpires
<1>5. CASE HeartbeatCallback(c)
  <2>1. [t EXCEPT !.beat = @ - 1] \in Tasks /\ tasks' = [tasks EXCEPT ![c] = [t EXCEPT !.beat = @ - 1]]
    BY <1>1, <1>5, TaskSteps, Zenon DEF HeartbeatCallback, t
  <2>2. /\ StartKick(o) \in Object /\ StartKick(o).addr = o.addr
        /\ obj' = [obj EXCEPT ![c] = StartKick(o)]
    BY <1>1, <1>5, Operations DEF HeartbeatCallback, o
  <2>3. StartKick(o).state = o.state /\ StartKick(o).heartbeat = o.heartbeat /\ StartKick(o).kick
    BY <1>1 DEF StartKick, Object
  <2>4. Good(StartKick(o), [t EXCEPT !.beat = @ - 1])
    BY <1>1, <2>3 DEF Good, Watched
  <2>5. QED
    BY <1>2, <1>5, <2>1, <2>2, <2>4, Zenon DEF HeartbeatCallback
<1>6. CASE GiveUp(c)
  <2>1. /\ [t EXCEPT !.remove = 1] \in Tasks /\ [t EXCEPT !.remove = 1] # NoTasks
        /\ tasks' = [tasks EXCEPT ![c] = [t EXCEPT !.remove = 1]]
    BY <1>1, <1>6, TaskSteps, Zenon DEF GiveUp, t
  <2>2. Good(o, [t EXCEPT !.remove = 1])
    BY <1>1, <2>1 DEF Good, Watched
  <2>3. QED
    BY <1>1, <1>2, <1>6, <2>1, <2>2, Zenon DEF GiveUp
<1>7. CASE CleanupRemove(c)
  <2> DEFINE u == [t EXCEPT !.remove = @ - 1, !.finish = @ + 1]
  <2>1. u \in Tasks /\ u # NoTasks
    BY <1>1, <1>7, TaskSteps, Zenon DEF CleanupRemove, t
  <2>2. tasks' = [tasks EXCEPT ![c] = u]
    BY <1>1, <1>7, TypeParts, Zenon DEF CleanupRemove, t, EndpointInv
  <2>3. Good(o, u)
    BY <1>1, <2>1 DEF Good, Watched
  <2>4. conns' = [conns EXCEPT ![o.addr] = NoConn]
    BY <1>7 DEF CleanupRemove, o
  <2> HIDE DEF u
  <2>5. QED
    BY <1>1, <1>2, <1>7, <2>1, <2>2, <2>3, <2>4, Zenon DEF CleanupRemove
<1>8. CASE CleanupFinish(c)
  <2>1. /\ [t EXCEPT !.finish = @ - 1] \in Tasks
        /\ tasks' = [tasks EXCEPT ![c] = [t EXCEPT !.finish = @ - 1]]
    BY <1>1, <1>8, TaskSteps, Zenon DEF CleanupFinish, t
  <2>2. /\ Cleanup(o) \in Object /\ Cleanup(o).addr = o.addr
        /\ obj' = [obj EXCEPT ![c] = Cleanup(o)]
    BY <1>1, <1>8, Operations DEF CleanupFinish, o
  <2>3. Good(Cleanup(o), [t EXCEPT !.finish = @ - 1])
    BY <1>1 DEF Good, Cleanup, StopHeartbeatTimers, Reset, Object
  <2>4. QED
    BY <1>2, <1>8, <2>1, <2>2, <2>3, Zenon DEF CleanupFinish
<1>9. QED
  BY <1>3, <1>4, <1>5, <1>6, <1>7, <1>8 DEF TimerStep

\* A packet that finds its connection or makes one
LEMMA ArriveInv ==
    ASSUME EndpointInv, NEW a \in Addr, NEW type \in PacketTypes, Arrive(a, type),
           ended' = ended \cup EndedNow
    PROVE  EndpointInv'
<1>1. /\ created \in 0..MaxConn /\ obj \in Seq(Object) /\ Len(obj) = created
      /\ conns \in [Addr -> 0..created] /\ DOMAIN obj = 1..created
      /\ arrived \subseteq [conn : 1..created, type : PacketTypes]
      /\ \A b \in Addr : conns[b] # NoConn => obj[conns[b]].addr = b
  BY TypeParts DEF EndpointInv
<1>2. UNCHANGED <<tasks, ended>> /\ packets' \in 0..MaxPackets
  <2>1. EndedNow = {}
    BY DEF Arrive, EndedNow
  <2>2. QED
    BY <2>1, TypeParts, EndpointAssumption DEF Arrive, EndpointInv
<1>3. CASE /\ conns[a] # NoConn /\ UNCHANGED <<conns, created, obj>>
           /\ arrived' = arrived \cup {[conn |-> conns[a], type |-> type]}
  <2>1. conns[a] \in 1..created
    BY <1>1, <1>3 DEF NoConn
  <2>2. arrived' \subseteq [conn : 1..created, type : PacketTypes]
    BY <1>1, <1>3, <2>1
  <2>3. TypeOK'
    BY <1>2, <1>3, <2>2, Zenon DEF EndpointInv, TypeOK
  <2>4. HeartbeatMade' /\ ConnectedWatched'
    BY <1>2, <1>3 DEF EndpointInv, HeartbeatMade, ConnectedWatched, Timers
  <2>5. QED
    BY <2>3, <2>4 DEF EndpointInv
<1>4. CASE /\ conns[a] = NoConn /\ created < MaxConn /\ created' = created + 1
           /\ conns' = [conns EXCEPT ![a] = created']
           /\ obj' = Append(obj, NewPRUDPConnection(a))
           /\ arrived' = arrived \cup {[conn |-> created', type |-> type]}
  <2> DEFINE e == NewPRUDPConnection(a)
  <2>1. e \in Object /\ e.addr = a /\ e.state = "not_connected"
    BY DEF NewPRUDPConnection, Object
  <2> HIDE DEF e
  <2>2. /\ obj' \in Seq(Object) /\ Len(obj') = created' /\ DOMAIN obj' = DOMAIN obj \cup {created'}
        /\ obj'[created'] = e /\ \A c \in DOMAIN obj : obj'[c] = obj[c]
    BY <1>1, <1>4, <2>1 DEF e
  <2>3. /\ created' \in 0..MaxConn /\ conns' \in [Addr -> 0..created']
        /\ ended' \subseteq 1..created'
    BY <1>1, <1>2, <1>4, TypeParts, EndpointAssumption DEF EndpointInv
  <2>4. arrived' \subseteq [conn : 1..created', type : PacketTypes]
    BY <1>1, <1>4
  <2>5. \A b \in Addr : conns'[b] # NoConn => obj'[conns'[b]].addr = b
    <3>1. SUFFICES ASSUME NEW b \in Addr, conns'[b] # NoConn PROVE obj'[conns'[b]].addr = b
      OBVIOUS
    <3>2. CASE b = a
      BY <1>1, <1>4, <2>1, <2>2, <3>2
    <3>3. CASE b # a
      <4>1. conns'[b] = conns[b] /\ conns[b] \in DOMAIN obj
        BY <1>1, <1>4, <3>1, <3>3 DEF NoConn
      <4>2. QED
        BY <1>1, <2>2, <3>1, <4>1
    <3>4. QED
      BY <3>2, <3>3
  <2>6. tasks' \in [Conn -> Tasks]
    BY <1>2, TypeParts DEF EndpointInv
  <2>7. TypeOK'
    BY <1>2, <2>2, <2>3, <2>4, <2>5, <2>6 DEF TypeOK, Object, Tasks
  <2>8. \A c \in DOMAIN obj' : Good(obj'[c], tasks'[c])
    <3>1. \A c \in DOMAIN obj : Good(obj'[c], tasks'[c])
      BY <1>2, <2>2, GoodParts DEF EndpointInv
    <3>2. Good(obj'[created'], tasks'[created'])
      BY <2>1, <2>2 DEF Good
    <3>3. QED
      BY <2>2, <3>1, <3>2
  <2>9. HeartbeatMade' /\ ConnectedWatched'
    BY <2>8 DEF Good, Watched, HeartbeatMade, ConnectedWatched, Timers
  <2>10. QED
    BY <2>7, <2>9 DEF EndpointInv
<1>5. QED
  BY <1>3, <1>4 DEF Arrive

\* A handler under the connection's mutex
LEMMA HandleInv ==
    ASSUME EndpointInv, NEW p \in arrived, Handle(p), ended' = ended \cup EndedNow
    PROVE  EndpointInv'
<1> DEFINE c == p.conn
           o == obj[c]
           t == tasks[c]
<1>1. /\ DOMAIN obj = 1..created /\ DOMAIN obj \subseteq Conn /\ c \in DOMAIN obj
      /\ conns \in [Addr -> 0..created] /\ created \in Nat
      /\ \A a \in Addr : conns[a] # NoConn => obj[conns[a]].addr = a
  BY TypeParts, EndpointAssumption DEF EndpointInv, Conn
<1>2. /\ \A d \in DOMAIN obj : /\ obj[d] \in Object /\ tasks[d] \in Tasks
                               /\ Good(obj[d], tasks[d])
      /\ \A d \in DOMAIN obj : obj = [obj EXCEPT ![d] = obj[d]]
                               /\ tasks = [tasks EXCEPT ![d] = tasks[d]]
  <2>1. \A d \in DOMAIN obj : obj[d] \in Object /\ tasks[d] \in Tasks
    BY <1>1, TypeParts DEF EndpointInv
  <2>2. \A d \in DOMAIN obj : Good(obj[d], tasks[d])
    BY GoodParts DEF EndpointInv
  <2>3. \A d \in DOMAIN obj : obj = [obj EXCEPT ![d] = obj[d]]
                              /\ tasks = [tasks EXCEPT ![d] = tasks[d]]
    BY <1>1, TypeParts DEF EndpointInv
  <2>4. QED
    BY <2>1, <2>2, <2>3
<1> HIDE DEF c, o, t
<1>3. ASSUME NEW d \in DOMAIN obj, NEW e \in Object, e.addr = obj[d].addr, Good(e, tasks[d]),
             obj' = [obj EXCEPT ![d] = e], UNCHANGED <<created, tasks>>,
             UNCHANGED conns \/ conns' = [conns EXCEPT ![obj[c].addr] = NoConn],
             EndedNow \subseteq DOMAIN obj
      PROVE  EndpointInv'
  <2>1. conns' \in [Addr -> 0..created] /\ \A a \in Addr : conns'[a] \in {conns[a], NoConn}
    BY <1>1, <1>3, SMTT(30) DEF NoConn
  <2>2. arrived' \subseteq arrived /\ UNCHANGED packets
    BY DEF Handle
  <2>3. tasks' = [tasks EXCEPT ![d] = tasks[d]] /\ tasks[d] \in Tasks
    BY <1>2, <1>3
  <2>4. ended' \subseteq 1..created
    BY <1>3, EndedType
  <2>5. QED
    BY <1>3, <2>1, <2>2, <2>3, <2>4, StepOnOne, Zenon
<1>4. /\ ResetHeartbeat(o) \in Object /\ ResetHeartbeat(o).addr = o.addr
      /\ ResetHeartbeat(o).state = o.state /\ ResetHeartbeat(o).heartbeat = o.heartbeat
      /\ o.heartbeat => ResetHeartbeat(o).beat
      /\ o \in Object /\ t \in Tasks /\ Good(o, t)
  <2>1. o \in Object /\ t \in Tasks /\ Good(o, t)
    BY <1>1, <1>2 DEF o, t
  <2>2. ResetHeartbeat(o) \in Object /\ ResetHeartbeat(o).addr = o.addr
    BY <2>1, Operations
  <2>3. /\ ResetHeartbeat(o).state = o.state /\ ResetHeartbeat(o).heartbeat = o.heartbeat
        /\ o.heartbeat => ResetHeartbeat(o).beat
    BY <2>1 DEF ResetHeartbeat, Object
  <2>4. QED
    BY <2>1, <2>2, <2>3
<1>5. ASSUME obj' = [obj EXCEPT ![c] = ResetHeartbeat(@)], EndedNow = {},
             UNCHANGED <<conns, created, tasks>>
      PROVE  EndpointInv'
  <2>1. Good(ResetHeartbeat(o), t)
    BY <1>4 DEF Good, Watched
  <2>2. obj' = [obj EXCEPT ![c] = ResetHeartbeat(o)]
    BY <1>5 DEF o
  <2>3. QED
    BY <1>1, <1>3, <1>4, <1>5, <2>1, <2>2, Zenon DEF o, t
<1>6. CASE HandleSyn(c)
  <2> DEFINE e == [Reset(ResetHeartbeat(o)) EXCEPT !.state = "connecting"]
  <2>1. e \in Object /\ e.addr = o.addr /\ e.state = "connecting"
    BY <1>4, Zenon DEF Reset, Object
  <2>2. obj' = [obj EXCEPT ![c] = e]
    BY <1>6 DEF HandleSyn, o
  <2> HIDE DEF e
  <2>3. Good(e, tasks[c])
    BY <2>1 DEF Good
  <2>4. EndedNow = {} /\ UNCHANGED <<conns, created, tasks>>
    BY <1>6 DEF HandleSyn, EndedNow, Event
  <2>5. QED
    BY <1>1, <1>3, <2>1, <2>2, <2>3, <2>4, Zenon DEF o
<1>7. CASE HandleConnect(c)
  <2> DEFINE r == [ResetHeartbeat(o) EXCEPT !.pid = TRUE, !.state = "connected"]
             e == StartHeartbeat(r)
  <2>1. r \in Object /\ r.addr = o.addr
    BY <1>4, Zenon DEF Object
  <2>2. obj' = [obj EXCEPT ![c] = e]
    BY <1>7 DEF HandleConnect, o
  <2> HIDE DEF r
  <2>3. e \in Object /\ e.addr = o.addr /\ e.heartbeat /\ e.beat
    <3>1. e \in Object /\ e.addr = o.addr
      BY <2>1, Operations
    <3>2. e.heartbeat /\ e.beat
      BY <2>1 DEF StartHeartbeat, Object
    <3>3. QED
      BY <3>1, <3>2
  <2> HIDE DEF e
  <2>4. Good(e, tasks[c])
    BY <2>3 DEF Good, Watched
  <2>5. EndedNow = {} /\ UNCHANGED <<conns, created, tasks>>
    BY <1>7 DEF HandleConnect, EndedNow, Event
  <2>6. QED
    BY <1>1, <1>3, <2>2, <2>3, <2>4, <2>5, Zenon DEF o
<1>8. CASE HandleConnectRefused(c) \/ HandleTraffic(c)
  BY <1>5, <1>8 DEF HandleConnectRefused, HandleTraffic, EndedNow, Event
<1>9. CASE HandleDisconnect(c)
  <2> DEFINE d == conns[obj[c].addr]
  <2>1. obj[c].addr \in Addr
    BY <1>1, <1>2 DEF Object
  <2>2. CASE d = NoConn
    <3>1. EndedNow = {} /\ UNCHANGED <<conns, created, tasks, obj>>
      BY <1>9, <2>2 DEF HandleDisconnect, EndedNow, Event
    <3>2. obj' = [obj EXCEPT ![c] = obj[c]]
      BY <1>1, <1>2, <3>1
    <3>3. QED
      BY <1>1, <1>2, <1>3, <3>1, <3>2, Zenon
  <2>3. CASE d # NoConn
    <3>1. d \in DOMAIN obj
      BY <1>1, <2>1, <2>3 DEF NoConn
    <3>2. /\ conns' = [conns EXCEPT ![obj[c].addr] = NoConn] /\ UNCHANGED <<created, tasks>>
          /\ obj' = [obj EXCEPT ![d] = Cleanup(obj[d])]
          /\ events' = <<Event("connectionEnded", d), Event("disconnect", c)>>
      BY <1>9, <2>3 DEF HandleDisconnect
    <3>3. EndedNow \subseteq DOMAIN obj
      BY <3>1, <3>2 DEF EndedNow, Event
    <3>4. Cleanup(obj[d]) \in Object /\ Cleanup(obj[d]).addr = obj[d].addr
      BY <1>2, <3>1, Operations
    <3>5. Good(Cleanup(obj[d]), tasks[d])
      BY <1>2, <3>1 DEF Good, Cleanup, StopHeartbeatTimers, Reset, Object
    <3> HIDE DEF d
    <3>6. QED
      BY <1>3, <3>1, <3>2, <3>3, <3>4, <3>5, Zenon
  <2>4. QED
    BY <2>2, <2>3
<1>10. CASE HandleIgnored(c, p.type)
  <2>1. EndedNow = {} /\ UNCHANGED <<conns, created, tasks, obj>>
    BY <1>10 DEF HandleIgnored, EndedNow
  <2>2. obj' = [obj EXCEPT ![c] = obj[c]]
    BY <1>1, <1>2, <2>1
  <2>3. QED
    BY <1>1, <1>2, <1>3, <2>1, <2>2, Zenon
<1>11. QED
  BY <1>6, <1>7, <1>8, <1>9, <1>10 DEF Handle, c

\* Every packet handler, timer and callback keeps EndpointInv.
LEMMA EndpointNextInv == EndpointInv /\ [Next]_vars => EndpointInv'
<1> SUFFICES ASSUME EndpointInv, [Next]_vars PROVE EndpointInv'
  OBVIOUS
<1>1. CASE Next
  BY <1>1, ArriveInv, HandleInv, TimerInv DEF Next
<1>2. CASE UNCHANGED vars
  BY <1>2 DEF vars, EndpointInv, TypeOK, HeartbeatMade, ConnectedWatched, Timers
<1>3. QED
  BY <1>1, <1>2

\* The connections map, the objects and the callbacks of processPacket, StartHeartbeat and
\* CleanupConnection keep their type; each entry of the map is stored under the
\* discriminator of its connection.
THEOREM TypeCorrect == Spec => []TypeOK
<1>1. EndpointInv => TypeOK
  BY DEF EndpointInv
<1>2. QED
  BY <1>1, EndpointInitInv, EndpointNextInv, PTL DEF Spec

\* StartHeartbeat, ResetHeartbeat and CleanupConnection: whatever the races, a connected
\* client always has a timer or a callback that will notice its silence.
THEOREM ConnectedWatchedAlways == Spec => []ConnectedWatched
<1>1. EndpointInv => ConnectedWatched
  BY DEF EndpointInv
<1>2. QED
  BY <1>1, EndpointInitInv, EndpointNextInv, PTL DEF Spec

------------------------------------------------------------------------------
(* The endpoint without races *)

\* Callbacks and handlers run without others in between, and no connected console shakes
\* hands again.
Calm == Races = {}

\* The one callback a connection may have
BeatTask == [beat |-> 1, remove |-> 0, finish |-> 0]
RemoveTask == [beat |-> 0, remove |-> 1, finish |-> 0]
FinishTask == [beat |-> 0, remove |-> 0, finish |-> 1]

\* No callback runs.
NoneRuns == \A c \in Conn : tasks[c] = NoTasks

\* One connection: after its end nothing of it is left; before, it is in the map unless
\* CleanupConnection is between its halves, and timers run only once it is connected.
CalmConn(c) ==
    LET o == obj[c]
    IN  /\ o.lostBeats = 0 /\ o.lostKicks = 0 /\ ~(o.beat /\ o.kick)
        /\ c \in ended => Gone(c) /\ tasks[c] = NoTasks
        /\ c \notin ended =>
              /\ Mapped(c) \/ tasks[c] = FinishTask
              /\ o.state = "connected" <=> o.heartbeat
              /\ ~o.heartbeat => ~o.beat /\ ~o.kick /\ tasks[c] = NoTasks
        /\ tasks[c] \in {NoTasks, BeatTask, RemoveTask, FinishTask}
        /\ tasks[c] = BeatTask => ~o.beat /\ ~o.kick
        /\ tasks[c] = FinishTask => conns[o.addr] = NoConn

\* The goroutines: one callback at a time, none while a packet waits for its handler, and
\* that packet's connection has not ended.
CalmTasks ==
    /\ \A c, d \in Conn : tasks[c] # NoTasks /\ tasks[d] # NoTasks => c = d
    /\ \A c \in Conn : tasks[c] # NoTasks => c \in DOMAIN obj
    /\ arrived # {} => NoneRuns
    /\ \A p, q \in arrived : p = q
    /\ \A p \in arrived : /\ p.conn \notin ended
                          /\ p.type \in {"syn", "connect"} => obj[p.conn].state # "connected"

\* The inductive invariant of the endpoint without races
CalmInv ==
    /\ CalmTasks
    /\ \A c \in DOMAIN obj : CalmConn(c)
    /\ KicksStopped

\* The callback counters as StartHeartbeat's callback and CleanupConnection move them
LEMMA TaskNames ==
    /\ NoTasks # BeatTask /\ NoTasks # RemoveTask /\ NoTasks # FinishTask
    /\ BeatTask # RemoveTask /\ BeatTask # FinishTask /\ RemoveTask # FinishTask
    /\ [NoTasks EXCEPT !.beat = @ + 1] = BeatTask
    /\ [BeatTask EXCEPT !.beat = @ - 1] = NoTasks
    /\ [NoTasks EXCEPT !.remove = @ + 1] = RemoveTask
    /\ [NoTasks EXCEPT !.remove = 1] = RemoveTask
    /\ [RemoveTask EXCEPT !.remove = @ - 1, !.finish = @ + 1] = FinishTask
    /\ [FinishTask EXCEPT !.finish = @ - 1] = NoTasks
<1>1. /\ NoTasks # BeatTask /\ NoTasks # RemoveTask /\ NoTasks # FinishTask
      /\ BeatTask # RemoveTask /\ BeatTask # FinishTask /\ RemoveTask # FinishTask
  <2>1. NoTasks.beat = 0 /\ NoTasks.remove = 0 /\ NoTasks.finish = 0 BY DEF NoTasks
  <2>2. BeatTask.beat = 1 /\ BeatTask.remove = 0 /\ BeatTask.finish = 0 BY DEF BeatTask
  <2>3. RemoveTask.beat = 0 /\ RemoveTask.remove = 1 /\ RemoveTask.finish = 0 BY DEF RemoveTask
  <2>4. FinishTask.beat = 0 /\ FinishTask.remove = 0 /\ FinishTask.finish = 1 BY DEF FinishTask
  <2> QED BY <2>1, <2>2, <2>3, <2>4
<1>2. [NoTasks EXCEPT !.beat = @ + 1] = BeatTask /\ [BeatTask EXCEPT !.beat = @ - 1] = NoTasks
  BY DEF NoTasks, BeatTask
<1>3. [NoTasks EXCEPT !.remove = @ + 1] = RemoveTask /\ [NoTasks EXCEPT !.remove = 1] = RemoveTask
  BY DEF NoTasks, RemoveTask
<1>4. [RemoveTask EXCEPT !.remove = @ - 1, !.finish = @ + 1] = FinishTask
  <2>1. RemoveTask.remove - 1 = 0 /\ RemoveTask.finish + 1 = 1 BY DEF RemoveTask
  <2> DEFINE x == [RemoveTask EXCEPT !.remove = 0, !.finish = 1]
  <2>2. RemoveTask \in Tasks /\ RemoveTask.beat = 0 BY DEF RemoveTask, Tasks
  <2>3. x \in Tasks /\ x.beat = 0 /\ x.remove = 0 /\ x.finish = 1 BY <2>2, Zenon DEF Tasks
  <2> HIDE DEF x
  <2>4. x = FinishTask BY <2>3 DEF Tasks, FinishTask
  <2> QED BY <2>1, <2>4, Zenon DEF x
<1>5. [FinishTask EXCEPT !.finish = @ - 1] = NoTasks
  BY DEF NoTasks, FinishTask
<1> QED BY <1>1, <1>2, <1>3, <1>4, <1>5

\* An endpoint starts without connections, so the invariant holds.
LEMMA CalmInitInv == Init => CalmInv
<1> SUFFICES ASSUME Init PROVE CalmInv OBVIOUS
<1>1. obj = <<>> /\ DOMAIN obj = {} /\ arrived = {} /\ events = <<>> /\ DOMAIN events = {}
  BY DEF Init
<1>2. \A c \in Conn : tasks[c] = NoTasks BY DEF Init
<1> QED BY <1>1, <1>2 DEF CalmInv, CalmTasks, KicksStopped

\* A step on one connection leaves the others as they are.
LEMMA CalmOthers ==
    ASSUME EndpointInv, CalmInv, NEW c \in DOMAIN obj, DOMAIN obj' = DOMAIN obj,
           \A d \in DOMAIN obj \ {c} : obj'[d] = obj[d] /\ tasks'[d] = tasks[d],
           conns' = conns \/ (Mapped(c) /\ conns' = [conns EXCEPT ![obj[c].addr] = NoConn]),
           ended' = ended \/ ended' = ended \cup {c}
    PROVE  \A d \in DOMAIN obj \ {c} : CalmConn(d)'
<1> SUFFICES ASSUME NEW d \in DOMAIN obj \ {c} PROVE CalmConn(d)'
  OBVIOUS
<1>1. /\ conns \in [Addr -> 0..created] /\ obj[c].addr \in Addr /\ obj[d].addr \in Addr
      /\ d \in Nat /\ d # 0
  <2>1. obj[c] \in Object /\ obj[d] \in Object /\ d \in Nat /\ d # 0
        /\ conns \in [Addr -> 0..created]
    BY TypeParts DEF EndpointInv
  <2> QED BY <2>1 DEF Object
<1>2. CalmConn(d) BY DEF CalmInv
<1>3. /\ obj'[d] = obj[d] /\ tasks'[d] = tasks[d] /\ (d \in ended' <=> d \in ended)
  OBVIOUS
<1>4. /\ Mapped(d)' <=> Mapped(d)
      /\ conns[obj[d].addr] = NoConn => conns'[obj[d].addr] = NoConn
  BY <1>1, <1>3 DEF Mapped, NoConn
<1>5. Gone(d)' <=> Gone(d) BY <1>3, <1>4 DEF Gone, Timers
<1> QED BY <1>2, <1>3, <1>4, <1>5 DEF CalmConn

\* One connection and its callback change, nothing else runs and no packet arrives.
LEMMA CalmStep ==
    ASSUME EndpointInv, EndpointInv', CalmInv, NEW c \in DOMAIN obj,
           NEW o \in Object, o.addr = obj[c].addr, obj' = [obj EXCEPT ![c] = o],
           NEW t \in Tasks, tasks' = [tasks EXCEPT ![c] = t],
           \A d \in Conn \ {c} : tasks[d] = NoTasks,
           conns' = conns \/ (Mapped(c) /\ conns' = [conns EXCEPT ![obj[c].addr] = NoConn]),
           ended' = ended \/ ended' = ended \cup {c}, arrived' = {},
           CalmConn(c)', KicksStopped'
    PROVE  CalmInv'
<1>1. /\ c \in Conn /\ DOMAIN obj' = DOMAIN obj /\ tasks \in [Conn -> Tasks]
      /\ \A d \in DOMAIN obj \ {c} : obj'[d] = obj[d] /\ d \in Conn
  <2>1. DOMAIN obj = 1..created /\ created \in 0..MaxConn /\ obj \in Seq(Object)
        /\ tasks \in [Conn -> Tasks]
    BY TypeParts DEF EndpointInv
  <2>2. DOMAIN obj \subseteq Conn BY <2>1, EndpointAssumption DEF Conn
  <2> QED BY <2>1, <2>2, Replaced
<1>2. \A d \in Conn \ {c} : tasks'[d] = NoTasks /\ tasks'[d] = tasks[d] BY <1>1
<1>3. \A d \in DOMAIN obj \ {c} : CalmConn(d)' BY <1>1, <1>2, CalmOthers
<1>4. CalmTasks' BY <1>1, <1>2 DEF CalmTasks
<1> QED BY <1>1, <1>3, <1>4 DEF CalmInv

\* The steps that handle no packet keep the invariant.
LEMMA CalmTimerInv ==
    ASSUME Calm, EndpointInv, EndpointInv', CalmInv, NEW c \in DOMAIN obj,
           TimerStep(c) \/ GiveUp(c), ended' = ended \cup EndedNow
    PROVE  CalmInv'
<1> DEFINE o == obj[c]
           t == tasks[c]
<1>1. /\ c \in Conn /\ o \in Object /\ t \in Tasks /\ o.addr \in Addr /\ c # NoConn
      /\ obj = [obj EXCEPT ![c] = o] /\ tasks = [tasks EXCEPT ![c] = t]
      /\ obj \in Seq(Object) /\ tasks \in [Conn -> Tasks] /\ conns \in [Addr -> 0..created]
  <2>1. /\ DOMAIN obj = 1..created /\ c \in Conn /\ obj \in Seq(Object)
        /\ tasks \in [Conn -> Tasks] /\ c # NoConn /\ conns \in [Addr -> 0..created]
    BY TypeParts, EndpointAssumption DEF EndpointInv, Conn, NoConn
  <2>2. o \in Object /\ t \in Tasks BY <2>1, TypeParts DEF EndpointInv
  <2>3. o.addr \in Addr BY <2>2 DEF Object
  <2>4. obj = [obj EXCEPT ![c] = o] /\ tasks = [tasks EXCEPT ![c] = t] BY <2>1
  <2> QED BY <2>1, <2>2, <2>3, <2>4
<1>2. CalmConn(c) /\ CalmTasks BY DEF CalmInv
<1>3. CallbacksRun => NoneRuns BY DEF CallbacksRun, NoneRuns, Calm
<1>4. PacketsHandled => arrived = {} BY DEF PacketsHandled, Calm
<1>5. t # NoTasks => arrived = {} /\ \A d \in Conn \ {c} : tasks[d] = NoTasks
  BY <1>1, <1>2 DEF CalmTasks, NoneRuns
<1>6. ASSUME events' = <<>> PROVE EndedNow = {} /\ ended' = ended /\ KicksStopped'
  BY <1>6 DEF EndedNow, KicksStopped
<1>7. o.lostBeats = 0 /\ o.lostKicks = 0 BY <1>2 DEF CalmConn
<1>8. \A e : obj' = [obj EXCEPT ![c] = e] => obj'[c] = e BY <1>1
<1>9. \A u : tasks' = [tasks EXCEPT ![c] = u] => tasks'[c] = u BY <1>1
<1>10. c \in ended => t = NoTasks /\ o.state # "connected" /\ ~o.beat /\ ~o.kick
  BY <1>2 DEF CalmConn, Gone, Timers
<1>11. NoTasks \in Tasks /\ BeatTask \in Tasks /\ RemoveTask \in Tasks /\ FinishTask \in Tasks
  BY DEF NoTasks, BeatTask, RemoveTask, FinishTask, Tasks
<1> HIDE DEF o, t
<1>a. CASE HeartbeatExpires(c)
  <2> DEFINE e == [o EXCEPT !.beat = FALSE]
  <2>1. NoneRuns /\ arrived = {} /\ t = NoTasks
    BY <1>a, <1>1, <1>3, <1>4 DEF HeartbeatExpires, NoneRuns, t
  <2>2. o.beat /\ obj' = [obj EXCEPT ![c] = e]
    BY <1>a, <1>7 DEF HeartbeatExpires, o
  <2>3. tasks' = [tasks EXCEPT ![c] = BeatTask]
    BY <1>a, <2>1, TaskNames, Zenon DEF HeartbeatExpires, t
  <2>4. UNCHANGED <<conns, arrived>> /\ ended' = ended /\ KicksStopped'
    BY <1>a, <1>6 DEF HeartbeatExpires
  <2>5. e \in Object /\ e = [o EXCEPT !.beat = FALSE] /\ e.addr = o.addr /\ ~e.beat /\ e.kick = o.kick
        /\ e.state = o.state /\ e.heartbeat = o.heartbeat
        /\ e.lostBeats = o.lostBeats /\ e.lostKicks = o.lostKicks
    BY <1>1, Zenon DEF Object
  <2> HIDE DEF e
  <2>6. CalmConn(c)'
    <3>1. obj'[c] = e /\ tasks'[c] = BeatTask BY <1>8, <1>9, <2>2, <2>3, Zenon
    <3>2. c \notin ended /\ Mapped(c) BY <1>2, <1>10, <2>1, <2>2, TaskNames DEF CalmConn, o, t
    <3>3. Mapped(c)' BY <2>4, <2>5, <3>1, <3>2 DEF Mapped, o
    <3>4. o.heartbeat /\ o.state = "connected" /\ ~o.kick BY <1>2, <2>2, <3>2 DEF CalmConn, o
    <3> QED BY <1>7, <2>4, <2>5, <3>1, <3>2, <3>3, <3>4, TaskNames DEF CalmConn
  <2>7. \A d \in Conn \ {c} : tasks[d] = NoTasks BY <2>1 DEF NoneRuns
  <2> QED BY <1>11, <2>1, <2>2, <2>3, <2>4, <2>5, <2>6, <2>7, CalmStep, Zenon DEF o

<1>b. CASE HeartbeatCallback(c)
  <2> DEFINE e == StartKick(o)
  <2>1. t = BeatTask
    <3>1. t.beat > 0 BY <1>b DEF HeartbeatCallback, t
    <3>2. NoTasks.beat = 0 /\ RemoveTask.beat = 0 /\ FinishTask.beat = 0
      BY DEF NoTasks, RemoveTask, FinishTask
    <3> QED BY <1>2, <3>1, <3>2 DEF CalmConn, t
  <2>2. ~o.beat /\ ~o.kick /\ c \notin ended BY <1>2, <1>10, <2>1, TaskNames DEF CalmConn, o, t
  <2>3. obj' = [obj EXCEPT ![c] = e] BY <1>b DEF HeartbeatCallback, o
  <2>4. tasks' = [tasks EXCEPT ![c] = NoTasks]
    BY <1>b, <2>1, TaskNames, Zenon DEF HeartbeatCallback, t
  <2>5. UNCHANGED <<conns, arrived>> /\ ended' = ended /\ KicksStopped'
    BY <1>b, <1>6 DEF HeartbeatCallback
  <2>6. e \in Object /\ e.addr = o.addr /\ e.beat = o.beat /\ e.kick
        /\ e.state = o.state /\ e.heartbeat = o.heartbeat
        /\ e.lostBeats = o.lostBeats /\ e.lostKicks = o.lostKicks
    <3>1. e \in Object /\ e.addr = o.addr BY <1>1, Operations
    <3> QED BY <1>1, <2>2, <3>1 DEF Object, StartKick
  <2> HIDE DEF e
  <2>7. CalmConn(c)'
    <3>1. obj'[c] = e /\ tasks'[c] = NoTasks BY <1>8, <1>9, <2>3, <2>4, Zenon
    <3>2. Mapped(c) /\ o.heartbeat /\ o.state = "connected"
      BY <1>2, <2>1, <2>2, TaskNames DEF CalmConn, o, t
    <3>3. Mapped(c)' BY <2>5, <2>6, <3>1, <3>2 DEF Mapped, o
    <3> QED BY <1>7, <2>2, <2>5, <2>6, <3>1, <3>2, <3>3, TaskNames, Zenon DEF CalmConn
  <2>8. arrived = {} /\ \A d \in Conn \ {c} : tasks[d] = NoTasks BY <1>5, <2>1, TaskNames
  <2> QED BY <1>11, <2>3, <2>4, <2>5, <2>6, <2>7, <2>8, CalmStep, Zenon DEF o
<1>c. CASE KickExpires(c)
  <2> DEFINE e == [o EXCEPT !.kick = FALSE]
  <2>1. NoneRuns /\ arrived = {} /\ t = NoTasks
    BY <1>c, <1>1, <1>3, <1>4 DEF KickExpires, NoneRuns, t
  <2>2. o.kick /\ obj' = [obj EXCEPT ![c] = e]
    BY <1>c, <1>7 DEF KickExpires, o
  <2>3. tasks' = [tasks EXCEPT ![c] = RemoveTask]
    BY <1>c, <2>1, TaskNames, Zenon DEF KickExpires, t
  <2>4. UNCHANGED <<conns, arrived>> /\ ended' = ended /\ KicksStopped'
    BY <1>c, <1>6 DEF KickExpires
  <2>5. e \in Object /\ e.addr = o.addr /\ ~e.kick /\ e.beat = o.beat
        /\ e.state = o.state /\ e.heartbeat = o.heartbeat
        /\ e.lostBeats = o.lostBeats /\ e.lostKicks = o.lostKicks
    BY <1>1, Zenon DEF Object
  <2> HIDE DEF e
  <2>6. CalmConn(c)'
    <3>1. obj'[c] = e /\ tasks'[c] = RemoveTask BY <1>8, <1>9, <2>2, <2>3, Zenon
    <3>2. c \notin ended /\ Mapped(c) BY <1>2, <1>10, <2>1, <2>2, TaskNames DEF CalmConn, o, t
    <3>3. Mapped(c)' BY <2>4, <2>5, <3>1, <3>2 DEF Mapped, o
    <3>4. o.heartbeat /\ o.state = "connected" BY <1>2, <2>2, <3>2 DEF CalmConn, o
    <3> QED BY <1>7, <2>4, <2>5, <3>1, <3>2, <3>3, <3>4, TaskNames, Zenon DEF CalmConn
  <2>7. \A d \in Conn \ {c} : tasks[d] = NoTasks BY <2>1 DEF NoneRuns
  <2> QED BY <1>11, <2>1, <2>2, <2>3, <2>4, <2>5, <2>6, <2>7, CalmStep, Zenon DEF o
<1>d. CASE GiveUp(c)
  <2>1. NoneRuns /\ arrived = {} /\ t = NoTasks /\ o.state = "connected"
    BY <1>d, <1>1, <1>3, <1>4 DEF GiveUp, NoneRuns, t, o
  <2>2. obj' = [obj EXCEPT ![c] = o] /\ obj' = obj BY <1>d, <1>1 DEF GiveUp
  <2>3. tasks' = [tasks EXCEPT ![c] = RemoveTask]
    BY <1>d, <2>1, TaskNames, Zenon DEF GiveUp, t
  <2>4. UNCHANGED <<conns, arrived>> /\ ended' = ended /\ KicksStopped'
    BY <1>d, <1>6 DEF GiveUp
  <2>6. CalmConn(c)'
    <3>1. obj'[c] = o /\ tasks'[c] = RemoveTask BY <1>9, <2>2, <2>3, Zenon DEF o
    <3>2. c \notin ended /\ Mapped(c) BY <1>2, <1>10, <2>1, TaskNames DEF CalmConn, o, t
    <3>3. Mapped(c)' BY <2>2, <2>4, <3>2 DEF Mapped
    <3>4. o.heartbeat /\ ~(o.beat /\ o.kick) BY <1>2, <2>1, <3>2 DEF CalmConn, o
    <3> QED BY <1>7, <2>1, <2>4, <3>1, <3>2, <3>3, <3>4, TaskNames DEF CalmConn
  <2>7. \A d \in Conn \ {c} : tasks[d] = NoTasks BY <2>1 DEF NoneRuns
  <2> QED BY <1>1, <1>11, <2>1, <2>2, <2>3, <2>4, <2>6, <2>7, CalmStep, Zenon DEF o
<1>e. CASE CleanupRemove(c)
  <2>1. t = RemoveTask
    <3>1. t.remove > 0 BY <1>e DEF CleanupRemove, t
    <3>2. NoTasks.remove = 0 /\ BeatTask.remove = 0 /\ FinishTask.remove = 0
      BY DEF NoTasks, BeatTask, FinishTask
    <3> QED BY <1>2, <3>1, <3>2 DEF CalmConn, t
  <2>2. c \notin ended /\ Mapped(c) /\ o.heartbeat /\ o.state = "connected" /\ ~(o.beat /\ o.kick)
    BY <1>2, <1>10, <2>1, TaskNames DEF CalmConn, o, t
  <2>3. obj' = [obj EXCEPT ![c] = o] /\ obj' = obj BY <1>e, <1>1 DEF CleanupRemove
  <2>4. tasks' = [tasks EXCEPT ![c] = FinishTask]
    <3>1. tasks' = [tasks EXCEPT ![c] = [t EXCEPT !.remove = @ - 1, !.finish = @ + 1]]
      BY <1>e, <1>1, Zenon DEF CleanupRemove, t
    <3> QED BY <2>1, <3>1, TaskNames, Zenon
  <2>5. UNCHANGED arrived /\ ended' = ended /\ KicksStopped'
        /\ conns' = [conns EXCEPT ![obj[c].addr] = NoConn]
    BY <1>e, <1>6 DEF CleanupRemove
  <2>6. CalmConn(c)'
    <3>1. obj'[c] = o /\ tasks'[c] = FinishTask BY <1>9, <2>3, <2>4, Zenon DEF o
    <3>2. conns'[o.addr] = NoConn BY <1>1, <2>5 DEF o
    <3> QED BY <1>7, <2>2, <2>5, <3>1, <3>2, TaskNames DEF CalmConn
  <2>7. arrived = {} /\ \A d \in Conn \ {c} : tasks[d] = NoTasks BY <1>5, <2>1, TaskNames
  <2> QED BY <1>1, <1>11, <2>2, <2>3, <2>4, <2>5, <2>6, <2>7, CalmStep, Zenon DEF o
<1>f. CASE CleanupFinish(c)
  <2> DEFINE e == Cleanup(o)
  <2>1. t = FinishTask
    <3>1. t.finish > 0 BY <1>f DEF CleanupFinish, t
    <3>2. NoTasks.finish = 0 /\ BeatTask.finish = 0 /\ RemoveTask.finish = 0
      BY DEF NoTasks, BeatTask, RemoveTask
    <3> QED BY <1>2, <3>1, <3>2 DEF CalmConn, t
  <2>2. conns[o.addr] = NoConn BY <1>2, <2>1 DEF CalmConn, o, t
  <2>3. obj' = [obj EXCEPT ![c] = e] BY <1>f DEF CleanupFinish, o
  <2>4. tasks' = [tasks EXCEPT ![c] = NoTasks]
    BY <1>f, <2>1, TaskNames, Zenon DEF CleanupFinish, t
  <2>5. UNCHANGED <<conns, arrived>> /\ ended' = ended \cup {c} /\ KicksStopped'
    <3>1. events' = <<Event("connectionEnded", c)>> /\ UNCHANGED <<conns, arrived>>
      BY <1>f DEF CleanupFinish
    <3>2. EndedNow = {c} BY <1>1, <3>1 DEF EndedNow, Event
    <3>3. KicksStopped' BY <3>1 DEF KicksStopped, Event
    <3> QED BY <3>1, <3>2, <3>3
  <2>6. e \in Object /\ e.addr = o.addr /\ ~e.beat /\ ~e.kick /\ e.state = "not_connected"
        /\ e.lostBeats = o.lostBeats /\ e.lostKicks = o.lostKicks
    <3>1. e \in Object /\ e.addr = o.addr BY <1>1, Operations
    <3> QED BY <1>1, <3>1 DEF Object, Cleanup, Reset, StopHeartbeatTimers
  <2> HIDE DEF e
  <2>7. CalmConn(c)'
    <3>1. obj'[c] = e /\ tasks'[c] = NoTasks BY <1>8, <1>9, <2>3, <2>4, Zenon
    <3>2. ~Mapped(c)' BY <1>1, <2>2, <2>5, <2>6, <3>1 DEF Mapped
    <3>3. Gone(c)' BY <1>7, <2>6, <3>1, <3>2 DEF Gone, Timers
    <3> QED BY <1>7, <2>5, <2>6, <3>1, <3>3, TaskNames DEF CalmConn
  <2>8. arrived = {} /\ \A d \in Conn \ {c} : tasks[d] = NoTasks BY <1>5, <2>1, TaskNames
  <2> QED BY <1>11, <2>3, <2>4, <2>5, <2>6, <2>7, <2>8, CalmStep, Zenon DEF o
<1> QED BY <1>a, <1>b, <1>c, <1>d, <1>e, <1>f DEF TimerStep

\* A packet that finds its connection or makes one keeps the invariant.
LEMMA CalmArriveInv ==
    ASSUME Calm, EndpointInv, EndpointInv', CalmInv, NEW a \in Addr, NEW type \in PacketTypes,
           Arrive(a, type), ended' = ended \cup EndedNow
    PROVE  CalmInv'
<1>1. /\ obj \in Seq(Object) /\ DOMAIN obj = 1..created /\ created \in Nat
      /\ conns \in [Addr -> 0..created] /\ ended \subseteq 1..created
      /\ \A b \in Addr : conns[b] # NoConn => obj[conns[b]].addr = b
  BY TypeParts, EndpointAssumption DEF EndpointInv
<1>2. NoneRuns /\ arrived = {}
  BY DEF Arrive, CallbacksRun, PacketsHandled, Calm, NoneRuns
<1>3. events' = <<>> /\ tasks' = tasks /\ ended' = ended /\ KicksStopped'
  <2>1. events' = <<>> /\ tasks' = tasks BY DEF Arrive
  <2> QED BY <2>1 DEF EndedNow, KicksStopped
<1>4. ~Rehandshake(a, type) BY DEF Arrive, Calm
<1>5. \A c \in DOMAIN obj : CalmConn(c) BY DEF CalmInv
<1>6. NoneRuns' BY <1>2, <1>3 DEF NoneRuns
<1>7. DOMAIN obj \subseteq Conn /\ DOMAIN obj' \subseteq Conn
  <2>1. /\ DOMAIN obj = 1..created /\ created \in 0..MaxConn
        /\ DOMAIN obj' = 1..created' /\ created' \in 0..MaxConn
    BY TypeParts DEF EndpointInv, TypeOK
  <2> QED BY <2>1, EndpointAssumption DEF Conn
<1>8. CASE /\ conns[a] # NoConn /\ UNCHANGED <<conns, created, obj>>
           /\ arrived' = arrived \cup {[conn |-> conns[a], type |-> type]}
  <2> DEFINE p == [conn |-> conns[a], type |-> type]
  <2>1. arrived' = {p} /\ p.conn = conns[a] /\ p.type = type BY <1>2, <1>8
  <2> HIDE DEF p
  <2>2. conns[a] \in DOMAIN obj /\ obj[conns[a]].addr = a BY <1>1, <1>8 DEF NoConn
  <2>3. conns[a] \notin ended BY <1>5, <2>2 DEF CalmConn, Gone, Mapped
  <2>4. type \in {"syn", "connect"} => obj[conns[a]].state # "connected"
    BY <1>4, <1>8 DEF Rehandshake
  <2>5. CalmTasks' BY <1>3, <1>6, <1>8, <2>1, <2>3, <2>4 DEF CalmTasks, NoneRuns
  <2>6. \A c \in DOMAIN obj' : CalmConn(c)'
    BY <1>3, <1>5, <1>8 DEF CalmConn, Gone, Mapped, Timers
  <2> QED BY <1>3, <2>5, <2>6 DEF CalmInv
<1>9. CASE /\ conns[a] = NoConn /\ created < MaxConn /\ created' = created + 1
           /\ conns' = [conns EXCEPT ![a] = created']
           /\ obj' = Append(obj, NewPRUDPConnection(a))
           /\ arrived' = arrived \cup {[conn |-> created', type |-> type]}
  <2>0. PICK n \in Nat : n = created' BY <1>1, <1>9
  <2> DEFINE p == [conn |-> n, type |-> type]
             e == NewPRUDPConnection(a)
  <2>1. arrived' = {p} /\ p.conn = n BY <1>2, <1>9, <2>0
  <2>2. /\ e \in Object /\ e.addr = a /\ e.state = "not_connected" /\ ~e.heartbeat
        /\ ~e.beat /\ ~e.kick /\ e.lostBeats = 0 /\ e.lostKicks = 0
    BY DEF NewPRUDPConnection, Object
  <2> HIDE DEF p, e
  <2>3. /\ DOMAIN obj' = DOMAIN obj \cup {n} /\ n \notin DOMAIN obj
        /\ obj'[n] = e /\ \A c \in DOMAIN obj : obj'[c] = obj[c]
        /\ n # NoConn
    BY <1>1, <1>9, <2>0, <2>2 DEF e, NoConn
  <2>4. n \notin ended BY <1>1, <1>9, <2>0
  <2>5. CalmTasks' BY <1>3, <1>6, <2>1, <2>2, <2>3, <2>4 DEF CalmTasks, NoneRuns
  <2>6. CalmConn(n)'
    <3>1. Mapped(n)' BY <1>1, <1>9, <2>0, <2>2, <2>3 DEF Mapped
    <3>2. tasks'[n] = NoTasks BY <1>6, <1>7, <2>3 DEF NoneRuns
    <3> QED BY <1>3, <2>2, <2>3, <2>4, <3>1, <3>2, TaskNames DEF CalmConn
  <2>7. ASSUME NEW c \in DOMAIN obj PROVE CalmConn(c)'
    <3>1. CalmConn(c) /\ obj'[c] = obj[c] /\ tasks'[c] = tasks[c] /\ tasks[c] = NoTasks
      BY <1>2, <1>3, <1>5, <1>7, <2>3, <2>7 DEF NoneRuns
    <3>2. c # NoConn /\ c # n /\ obj[c].addr \in Addr
      <4>1. obj[c] \in Object BY <1>1, <2>7
      <4> QED BY <1>1, <2>3, <2>7, <4>1 DEF NoConn, Object
    <3>3. Mapped(c)' <=> Mapped(c) BY <1>1, <1>9, <2>0, <3>1, <3>2 DEF Mapped
    <3>4. Gone(c)' <=> Gone(c) BY <3>1, <3>3 DEF Gone, Timers
    <3> QED BY <1>3, <3>1, <3>3, <3>4, TaskNames DEF CalmConn
  <2> QED BY <1>3, <2>3, <2>5, <2>6, <2>7 DEF CalmInv
<1> QED BY <1>8, <1>9 DEF Arrive

\* A handler under the connection's mutex keeps the invariant.
LEMMA CalmHandleInv ==
    ASSUME Calm, EndpointInv, EndpointInv', CalmInv, NEW p \in arrived, Handle(p),
           ended' = ended \cup EndedNow
    PROVE  CalmInv'
<1> DEFINE c == p.conn
           o == obj[c]
<1>1. /\ c \in DOMAIN obj /\ c \in Conn /\ o \in Object /\ o.addr \in Addr
      /\ obj = [obj EXCEPT ![c] = o] /\ tasks = [tasks EXCEPT ![c] = tasks[c]]
      /\ \A e : obj' = [obj EXCEPT ![c] = e] => obj'[c] = e
      /\ conns \in [Addr -> 0..created]
  <2>1. /\ DOMAIN obj = 1..created /\ obj \in Seq(Object) /\ c \in DOMAIN obj /\ c \in Conn
        /\ tasks \in [Conn -> Tasks] /\ conns \in [Addr -> 0..created]
    BY TypeParts, EndpointAssumption DEF EndpointInv, Conn
  <2>2. o \in Object
    <3>1. \A i \in DOMAIN obj : obj[i] \in Object BY TypeParts DEF EndpointInv
    <3> QED BY <2>1, <3>1
  <2>3. o.addr \in Addr BY <2>2 DEF Object
  <2>4. obj = [obj EXCEPT ![c] = o] /\ tasks = [tasks EXCEPT ![c] = tasks[c]] BY <2>1
  <2>5. \A e : obj' = [obj EXCEPT ![c] = e] => obj'[c] = e BY <2>1
  <2> QED BY <2>1, <2>2, <2>3, <2>4, <2>5
<1>2. /\ NoneRuns /\ arrived' = {} /\ tasks[c] = NoTasks /\ tasks' = tasks /\ c \notin ended
      /\ p.type \in {"syn", "connect"} => o.state # "connected"
  <2>1. NoneRuns /\ arrived = {p} /\ c \notin ended
        /\ (p.type \in {"syn", "connect"} => o.state # "connected")
    BY DEF CalmInv, CalmTasks
  <2>2. tasks' = tasks /\ arrived' = arrived \ {p}
    BY DEF Handle, HandleSyn, HandleConnect, HandleConnectRefused, HandleTraffic,
           HandleDisconnect, HandleIgnored
  <2> QED BY <1>1, <2>1, <2>2 DEF NoneRuns
<1>3. /\ Mapped(c) /\ (o.state = "connected" <=> o.heartbeat)
      /\ ~o.heartbeat => ~o.beat /\ ~o.kick
      /\ o.lostBeats = 0 /\ o.lostKicks = 0
  BY <1>1, <1>2, TaskNames DEF CalmInv, CalmConn
<1>4. tasks' = [tasks EXCEPT ![c] = NoTasks] /\ tasks'[c] = NoTasks /\ NoTasks \in Tasks
      /\ \A d \in Conn \ {c} : tasks[d] = NoTasks
  BY <1>1, <1>2 DEF NoneRuns, NoTasks, Tasks
<1> HIDE DEF c, o
\* Every handler but handleDisconnect leaves the connection in the map.
<1>5. ASSUME NEW e \in Object, obj' = [obj EXCEPT ![c] = e], e.addr = o.addr,
             e.lostBeats = 0, e.lostKicks = 0, ~(e.beat /\ e.kick),
             e.state = "connected" <=> e.heartbeat, ~e.heartbeat => ~e.beat /\ ~e.kick,
             UNCHANGED conns, EndedNow = {}, KicksStopped'
      PROVE  CalmInv'
  <2>1. obj'[c] = e /\ ended' = ended BY <1>1, <1>5
  <2>2. Mapped(c)' BY <1>3, <1>5, <2>1 DEF Mapped, o
  <2>3. CalmConn(c)' BY <1>2, <1>4, <1>5, <2>1, <2>2, TaskNames DEF CalmConn
  <2> QED BY <1>1, <1>2, <1>4, <1>5, <2>1, <2>3, CalmStep, Zenon DEF o
<1>6. ASSUME NEW e, obj' = [obj EXCEPT ![c] = e], ~e.kick, e.lostKicks = 0,
             NEW x \in {"syn", "connect"},
             events' = <<Event("heard", c)>> \/ events' = <<Event("heard", c), Event(x, c)>>
      PROVE  EndedNow = {} /\ KicksStopped'
  <2>1. obj'[c] = e /\ tasks'[c].remove = 0 BY <1>1, <1>4, <1>6 DEF NoTasks
  <2>2. \A i \in DOMAIN events' : events'[i].event # "connectionEnded" /\ events'[i].conn = c
    BY <1>6 DEF Event
  <2>3. EndedNow = {} BY <2>2 DEF EndedNow, Event
  <2> QED BY <1>6, <2>1, <2>2, <2>3 DEF KicksStopped
<1>7. /\ ResetHeartbeat(o) \in Object /\ ResetHeartbeat(o).addr = o.addr
      /\ ResetHeartbeat(o).state = o.state /\ ResetHeartbeat(o).heartbeat = o.heartbeat
      /\ ~ResetHeartbeat(o).kick /\ (ResetHeartbeat(o).beat <=> o.beat \/ o.heartbeat)
      /\ ResetHeartbeat(o).lostBeats = 0 /\ ResetHeartbeat(o).lostKicks = 0
  <2>1. ResetHeartbeat(o) \in Object /\ ResetHeartbeat(o).addr = o.addr
    BY <1>1, Operations
  <2> QED BY <1>1, <1>3, <2>1 DEF ResetHeartbeat, Object
<1>a. CASE p.type = "syn" /\ HandleSyn(c)
  <2> DEFINE e == [Reset(ResetHeartbeat(o)) EXCEPT !.state = "connecting"]
             r == ResetHeartbeat(o)
  <2>1. e \in Object /\ e.addr = r.addr /\ e.state = "connecting" /\ e.heartbeat = r.heartbeat
        /\ e.beat = r.beat /\ e.kick = r.kick /\ e.lostBeats = r.lostBeats
        /\ e.lostKicks = r.lostKicks
    BY <1>7, Zenon DEF Reset, Object
  <2>2. obj' = [obj EXCEPT ![c] = e] /\ UNCHANGED conns
        /\ events' = <<Event("heard", c), Event("syn", c)>>
    BY <1>a DEF HandleSyn, o
  <2>3. ~o.heartbeat BY <1>a, <1>2, <1>3
  <2> HIDE DEF e
  <2>4. EndedNow = {} /\ KicksStopped' BY <1>6, <1>7, <2>1, <2>2, Zenon
  <2> QED BY <1>3, <1>5, <1>7, <2>1, <2>2, <2>3, <2>4, Zenon
<1>b. CASE p.type = "connect" /\ HandleConnect(c)
  <2> DEFINE r == [ResetHeartbeat(o) EXCEPT !.pid = TRUE, !.state = "connected"]
             e == StartHeartbeat(r)
  <2>1. ~o.heartbeat BY <1>b, <1>2, <1>3
  <2>2. r \in Object /\ r.addr = o.addr /\ ~r.beat /\ ~r.kick /\ r.lostBeats = 0
        /\ r.lostKicks = 0 /\ r.state = "connected"
    BY <1>3, <1>7, <2>1, Zenon DEF Object
  <2>3. obj' = [obj EXCEPT ![c] = e] /\ UNCHANGED conns
        /\ events' = <<Event("heard", c), Event("connect", c)>>
    BY <1>b DEF HandleConnect, o
  <2> HIDE DEF r
  <2>4. e \in Object /\ e.addr = o.addr BY <2>2, Operations
  <2>5. e.heartbeat /\ ~e.kick /\ e.lostBeats = 0 /\ e.lostKicks = 0 /\ e.state = "connected"
    BY <2>2 DEF StartHeartbeat, Object
  <2> HIDE DEF e
  <2>6. EndedNow = {} /\ KicksStopped' BY <1>6, <2>3, <2>5, Zenon
  <2> QED BY <1>5, <2>3, <2>4, <2>5, <2>6, Zenon
<1>c. CASE HandleConnectRefused(c) \/ HandleTraffic(c)
  <2>1. obj' = [obj EXCEPT ![c] = ResetHeartbeat(o)] /\ UNCHANGED conns
        /\ events' = <<Event("heard", c)>>
    BY <1>c DEF HandleConnectRefused, HandleTraffic, o
  <2>2. EndedNow = {} /\ KicksStopped' BY <1>6, <1>7, <2>1, Zenon
  <2> QED BY <1>3, <1>5, <1>7, <2>1, <2>2, Zenon
<1>d. CASE HandleDisconnect(c)
  <2> DEFINE e == Cleanup(o)
  <2>1. conns[o.addr] = c /\ c # NoConn BY <1>1, <1>3 DEF Mapped, o, Conn, NoConn
  <2>2. /\ conns' = [conns EXCEPT ![o.addr] = NoConn]
        /\ obj' = [obj EXCEPT ![c] = e]
        /\ events' = <<Event("connectionEnded", c), Event("disconnect", c)>>
    BY <1>d, <2>1 DEF HandleDisconnect, o
  <2>3. EndedNow = {c} /\ KicksStopped'
    <3>1. DOMAIN events' = {1, 2} /\ events'[1] = Event("connectionEnded", c)
          /\ events'[2] = Event("disconnect", c)
      BY <2>2
    <3>2. KicksStopped' BY <3>1 DEF KicksStopped, Event
    <3>3. \A d : Event("connectionEnded", d) # Event("disconnect", c) BY DEF Event
    <3>4. \A d : Event("connectionEnded", d) = Event("connectionEnded", c) => d = c BY DEF Event
    <3> QED BY <1>1, <3>1, <3>2, <3>3, <3>4 DEF EndedNow
  <2>4. e \in Object /\ e.addr = o.addr /\ ~e.beat /\ ~e.kick /\ e.state = "not_connected"
        /\ e.lostBeats = o.lostBeats /\ e.lostKicks = o.lostKicks
    <3>1. e \in Object /\ e.addr = o.addr BY <1>1, Operations
    <3> QED BY <1>1, <3>1 DEF Object, Cleanup, Reset, StopHeartbeatTimers
  <2> HIDE DEF e
  <2>5. obj'[c] = e /\ ended' = ended \cup {c} BY <1>1, <2>2, <2>3
  <2>6. ~Mapped(c)' BY <1>1, <2>1, <2>2, <2>4, <2>5 DEF Mapped
  <2>7. Gone(c)' BY <1>3, <2>4, <2>5, <2>6 DEF Gone, Timers
  <2>8. CalmConn(c)' BY <1>3, <1>4, <2>4, <2>5, <2>7, TaskNames DEF CalmConn
  <2> QED BY <1>1, <1>2, <1>3, <1>4, <2>2, <2>3, <2>4, <2>5, <2>8, CalmStep, Zenon DEF o
<1>e. CASE HandleIgnored(c, p.type)
  <2>1. events' = <<>> /\ UNCHANGED <<conns, obj>> BY <1>e DEF HandleIgnored
  <2>2. EndedNow = {} /\ KicksStopped' BY <2>1 DEF EndedNow, KicksStopped
  <2>3. obj' = [obj EXCEPT ![c] = o] BY <1>1, <2>1
  <2>4. ~(o.beat /\ o.kick) BY <1>1 DEF CalmInv, CalmConn, o
  <2> QED BY <1>1, <1>3, <1>5, <2>1, <2>2, <2>3, <2>4, Zenon
<1> QED BY <1>a, <1>b, <1>c, <1>d, <1>e DEF Handle, c

\* Every step of the endpoint keeps the invariant.
LEMMA CalmNextInv ==
    ASSUME Calm
    PROVE  EndpointInv /\ EndpointInv' /\ CalmInv /\ [Next]_vars => CalmInv'
<1> SUFFICES ASSUME EndpointInv, EndpointInv', CalmInv, [Next]_vars PROVE CalmInv'
  OBVIOUS
<1>1. CASE Next
  BY <1>1, CalmArriveInv, CalmHandleInv, CalmTimerInv DEF Next
<1>2. CASE UNCHANGED vars
  <2>1. CalmTasks' BY <1>2 DEF vars, CalmInv, CalmTasks, NoneRuns
  <2>2. \A c \in DOMAIN obj' : CalmConn(c)'
    BY <1>2 DEF vars, CalmInv, CalmConn, Gone, Mapped, Timers
  <2>3. KicksStopped' BY <1>2 DEF vars, CalmInv, KicksStopped
  <2> QED BY <2>1, <2>2, <2>3 DEF CalmInv
<1> QED BY <1>1, <1>2

\* The invariant holds in every behaviour without races.
LEMMA CalmAlways == ASSUME Calm PROVE Spec => [](EndpointInv /\ CalmInv)
<1>1. Init => EndpointInv /\ CalmInv BY EndpointInitInv, CalmInitInv
<1>2. EndpointInv /\ CalmInv /\ [Next]_vars => (EndpointInv /\ CalmInv)'
  BY EndpointNextInv, CalmNextInv
<1> QED BY <1>1, <1>2, PTL DEF Spec

\* processPacket and CleanupConnection: without races, a connected client's connection is
\* in the Connections map until its cleanup has begun.
THEOREM ConnectedMappedAlways == ASSUME Races = {} PROVE Spec => []ConnectedMapped
<1>1. EndpointInv /\ CalmInv => ConnectedMapped
  <2> SUFFICES ASSUME CalmInv, NEW c \in DOMAIN obj, obj[c].state = "connected"
               PROVE  Mapped(c) \/ tasks[c].finish > 0
    BY DEF ConnectedMapped
  <2>1. CalmConn(c) BY DEF CalmInv
  <2>2. c \notin ended BY <2>1 DEF CalmConn, Gone
  <2>3. FinishTask.finish > 0 BY DEF FinishTask
  <2> QED BY <2>1, <2>2, <2>3 DEF CalmConn
<1> QED BY <1>1, CalmAlways, PTL DEF Calm

\* cleanup and emitConnectionEnded: without races, no entry, state, timer or callback is
\* left of a connection after its end.
THEOREM EndedIsDeadAlways == ASSUME Races = {} PROVE Spec => []EndedIsDead
<1>1. EndpointInv /\ CalmInv => EndedIsDead
  <2> SUFFICES ASSUME EndpointInv, CalmInv, NEW c \in ended PROVE Gone(c) /\ tasks[c] = NoTasks
    BY DEF EndedIsDead
  <2>1. c \in DOMAIN obj BY TypeParts DEF EndpointInv
  <2> QED BY <2>1 DEF CalmInv, CalmConn
<1> QED BY <1>1, CalmAlways, PTL DEF Calm

\* ResetHeartbeat: without races, a client that is heard has no kick left that would clean
\* its connection up.
THEOREM KicksStoppedAlways == ASSUME Races = {} PROVE Spec => []KicksStopped
<1>1. EndpointInv /\ CalmInv => KicksStopped BY DEF CalmInv
<1> QED BY <1>1, CalmAlways, PTL DEF Calm

\* CleanupConnection and handleDisconnect: without races, an entry leaves the map only when
\* its own connection is cleaned up.
THEOREM OwnEntryOnlyAlways == ASSUME Races = {} PROVE Spec => OwnEntryOnly
<1> DEFINE Own == \A a \in Addr : conns[a] # NoConn /\ conns'[a] # conns[a] =>
                     \/ conns[a] \in EndedNow
                     \/ tasks'[conns[a]].finish > tasks[conns[a]].finish
<1>1. EndpointInv /\ EndpointInv' /\ CalmInv /\ [Next]_vars => Own \/ UNCHANGED vars
  <2> SUFFICES ASSUME EndpointInv, EndpointInv', CalmInv, Next,
                      NEW a \in Addr, conns[a] # NoConn, conns'[a] # conns[a]
               PROVE  \/ conns[a] \in EndedNow
                      \/ tasks'[conns[a]].finish > tasks[conns[a]].finish
    OBVIOUS
  <2>0. /\ conns \in [Addr -> 0..created] /\ DOMAIN obj = 1..created /\ created \in 0..MaxConn
        /\ tasks \in [Conn -> Tasks] /\ \A i \in DOMAIN obj : obj[i] \in Object
        /\ \A p \in arrived : p.conn \in DOMAIN obj
        /\ obj[conns[a]].addr = a
    BY TypeParts DEF EndpointInv
  <2>1. ASSUME NEW b \in Addr, NEW type \in PacketTypes, Arrive(b, type) PROVE FALSE
    BY <2>0, <2>1 DEF Arrive
  <2>2. ASSUME NEW p \in arrived, Handle(p) PROVE conns[a] \in EndedNow
    <3> DEFINE c == p.conn
               d == conns[obj[c].addr]
    <3>1. HandleDisconnect(c)
      BY <2>2 DEF Handle, HandleSyn, HandleConnect, HandleConnectRefused, HandleTraffic,
                  HandleIgnored
    <3>2. c \in DOMAIN obj /\ obj[c].addr \in Addr BY <2>0 DEF Object
    <3>3. d # NoConn /\ conns' = [conns EXCEPT ![obj[c].addr] = NoConn]
          /\ events' = <<Event("connectionEnded", d), Event("disconnect", c)>>
      BY <3>1 DEF HandleDisconnect
    <3>4. obj[c].addr = a BY <2>0, <3>2, <3>3
    <3>5. d \in Conn BY <2>0, <3>2, <3>3, EndpointAssumption DEF Conn, NoConn
    <3>6. 1 \in DOMAIN events' /\ events'[1] = Event("connectionEnded", d) BY <3>3
    <3> QED BY <3>4, <3>5, <3>6 DEF EndedNow
  <2>3. ASSUME NEW c \in DOMAIN obj, TimerStep(c) \/ GiveUp(c)
        PROVE  tasks'[conns[a]].finish > tasks[conns[a]].finish
    <3>1. CleanupRemove(c)
      BY <2>3 DEF TimerStep, GiveUp, HeartbeatExpires, HeartbeatCallback, KickExpires,
                  CleanupFinish
    <3>2. c \in Conn /\ obj[c].addr \in Addr /\ tasks[c] \in Tasks
      BY <2>0, EndpointAssumption DEF Object, Conn
    <3>3. obj[c].addr = a BY <2>0, <3>1, <3>2 DEF CleanupRemove
    <3>4. tasks[c] = RemoveTask
      <4>1. tasks[c].remove > 0 BY <3>1 DEF CleanupRemove
      <4>2. NoTasks.remove = 0 /\ BeatTask.remove = 0 /\ FinishTask.remove = 0
        BY DEF NoTasks, BeatTask, FinishTask
      <4> QED BY <4>1, <4>2 DEF CalmInv, CalmConn
    <3>5. Mapped(c)
      BY <3>4, TaskNames DEF CalmInv, CalmConn
    <3>6. conns[a] = c BY <3>3, <3>5 DEF Mapped
    <3>7. tasks'[c].finish = tasks[c].finish + 1 BY <2>0, <3>1, <3>2 DEF CleanupRemove, Tasks
    <3> QED BY <3>2, <3>6, <3>7 DEF Tasks
  <2> QED BY <2>1, <2>2, <2>3 DEF Next
<1>2. EndpointInv /\ EndpointInv' /\ CalmInv /\ [Next]_vars => [Own]_vars BY <1>1
<1> QED BY <1>2, CalmAlways, PTL DEF Calm, Spec, OwnEntryOnly

------------------------------------------------------------------------------
(* The session log *)

\* The last index of a list of one or two events
LEMMA MaxOfPair == Max({1}) = 1 /\ Max({2}) = 2 /\ Max({1, 2}) = 2
<1>1. Max({1}) = 1 BY DEF Max
<1>2. Max({2}) = 2 BY DEF Max
<1>3. Max({1, 2}) = 2
  <2> DEFINE P(x) == x \in {1, 2} /\ \A y \in {1, 2} : x >= y
  <2>1. \A x : P(x) <=> x = 2 OBVIOUS
  <2> QED BY <2>1 DEF Max
<1> QED BY <1>1, <1>2, <1>3

\* The session log's handlers run in the order of the events: none, one or two of them.
LEMMA FoldNone ==
    ASSUME NEW l, events' = <<>>
    PROVE  Observed(l, events') = l
<1> DEFINE S == DOMAIN events'
           Step(g, s) == IF s = {} THEN l ELSE LET x == Max(s) IN Observe(g[s \ {x}], events'[x])
           it == CHOOSE g : g = [s \in SUBSET S |-> Step(g, s)]
<1>1. Observed(l, events') = it[S] BY DEF Observed, MapThenFoldSet
<1> DEFINE w == [s \in {{}} |-> l]
<1>2. S = {} /\ SUBSET S = {{}} OBVIOUS
<1>3. w = [s \in SUBSET S |-> Step(w, s)] BY <1>2
<1> HIDE DEF Step, w
<1>4. it = [s \in SUBSET S |-> Step(it, s)] BY <1>3
<1> HIDE DEF it
<1>5. it[S] = Step(it, S) BY <1>4
<1> QED BY <1>1, <1>2, <1>5 DEF Step

\* One event runs one handler.
LEMMA FoldOne ==
    ASSUME NEW l, NEW e, events' = <<e>>
    PROVE  Observed(l, events') = Observe(l, e)
<1> DEFINE S == DOMAIN events'
           Step(g, s) == IF s = {} THEN l ELSE LET x == Max(s) IN Observe(g[s \ {x}], events'[x])
           it == CHOOSE g : g = [s \in SUBSET S |-> Step(g, s)]
<1>1. Observed(l, events') = it[S] BY DEF Observed, MapThenFoldSet
<1> DEFINE w == [s \in SUBSET {1} |-> IF s = {} THEN l ELSE Observe(l, e)]
<1>2. S = {1} /\ events'[1] = e /\ Max({1}) = 1 BY MaxOfPair
<1>3. \A s \in SUBSET {1} : s = {} \/ s = {1} BY Zenon
<1>4. w[{}] = l /\ {1} \ {1} = {} OBVIOUS
<1>5. \A s \in SUBSET {1} : w[s] = Step(w, s)
  <2> SUFFICES ASSUME NEW s \in SUBSET {1} PROVE w[s] = Step(w, s) OBVIOUS
  <2>1. CASE s = {} BY <2>1
  <2>2. CASE s = {1} BY <2>2, <1>2, <1>4, Zenon
  <2> QED BY <1>3, <2>1, <2>2
<1> HIDE DEF Step
<1>6. w = [s \in SUBSET S |-> Step(w, s)] BY <1>2, <1>5
<1> HIDE DEF w
<1>7. it = [s \in SUBSET S |-> Step(it, s)] BY <1>6
<1> HIDE DEF it
<1>8. it[S] = Step(it, S) /\ it[{}] = Step(it, {}) BY <1>7
<1>9. it[{}] = l BY <1>8 DEF Step
<1> QED BY <1>1, <1>2, <1>4, <1>8, <1>9, Zenon DEF Step

\* Two events run two handlers, the first one first.
LEMMA FoldTwo ==
    ASSUME NEW l, DOMAIN events' = {1, 2}
    PROVE  Observed(l, events') = Observe(Observe(l, events'[1]), events'[2])
<1> DEFINE e == events'[1]
           f == events'[2]
           S == DOMAIN events'
           Step(g, s) == IF s = {} THEN l ELSE LET x == Max(s) IN Observe(g[s \ {x}], events'[x])
           it == CHOOSE g : g = [s \in SUBSET S |-> Step(g, s)]
<1>1. Observed(l, events') = it[S] BY DEF Observed, MapThenFoldSet
<1> DEFINE w == [s \in SUBSET {1, 2} |-> IF s = {} THEN l ELSE IF s = {1} THEN Observe(l, e)
                    ELSE IF s = {2} THEN Observe(l, f) ELSE Observe(Observe(l, e), f)]
<1>2. S = {1, 2} /\ events'[1] = e /\ events'[2] = f OBVIOUS
<1>3. \A s \in SUBSET {1, 2} : s = {} \/ s = {1} \/ s = {2} \/ s = {1, 2} BY Zenon
<1>4. /\ {} \in SUBSET {1, 2} /\ {1} \in SUBSET {1, 2} /\ {2} \in SUBSET {1, 2}
      /\ {1} # {} /\ {2} # {} /\ {1, 2} # {} /\ {2} # {1} /\ {1, 2} # {1} /\ {1, 2} # {2}
      /\ {1} \ {1} = {} /\ {2} \ {2} = {} /\ {1, 2} \ {2} = {1}
  OBVIOUS
<1>5. w[{}] = l /\ w[{1}] = Observe(l, e) /\ w[{2}] = Observe(l, f)
      /\ w[{1, 2}] = Observe(Observe(l, e), f)
  BY <1>4, Zenon
<1> HIDE DEF w
<1>6. \A s \in SUBSET {1, 2} : w[s] = Step(w, s)
  <2> SUFFICES ASSUME NEW s \in SUBSET {1, 2} PROVE w[s] = Step(w, s) OBVIOUS
  <2>1. CASE s = {} BY <1>5, <2>1
  <2>2. CASE s = {1} BY <2>2, <1>2, <1>4, <1>5, MaxOfPair, Zenon
  <2>3. CASE s = {2} BY <2>3, <1>2, <1>4, <1>5, MaxOfPair, Zenon
  <2>4. CASE s = {1, 2} BY <2>4, <1>2, <1>4, <1>5, MaxOfPair, Zenon
  <2> QED BY <1>3, <2>1, <2>2, <2>3, <2>4
<1> HIDE DEF Step
<1>7. w = [s \in SUBSET S |-> Step(w, s)] BY <1>2, <1>6 DEF w
<1>8. it = [s \in SUBSET S |-> Step(it, s)] BY <1>7
<1> HIDE DEF it
<1>9. it[S] = Step(it, S) /\ it[{1}] = Step(it, {1}) /\ it[{}] = Step(it, {}) BY <1>2, <1>8
<1>10. it[{}] = l BY <1>9 DEF Step
<1>11. it[{1}] = Observe(l, e) BY <1>2, <1>4, <1>9, <1>10, MaxOfPair, Zenon DEF Step
<1> QED BY <1>1, <1>2, <1>4, <1>9, <1>11, MaxOfPair, Zenon DEF Step

\* The addresses with a connected console.
Live == {obj[c].addr : c \in {d \in DOMAIN obj : obj[d].state = "connected"}}

\* At most one connection of an address has not ended.
LEMMA OnePerAddress ==
    ASSUME EndpointInv, CalmInv, NEW c \in DOMAIN obj, NEW d \in DOMAIN obj,
           c \notin ended, d \notin ended, obj[c].addr = obj[d].addr
    PROVE  c = d
<1>1. DOMAIN obj = 1..created /\ created \in 0..MaxConn /\ c \in Conn /\ d \in Conn
  BY TypeParts, EndpointAssumption DEF EndpointInv, Conn
<1>2. CalmConn(c) /\ CalmConn(d) BY DEF CalmInv
<1>3. CASE Mapped(c) /\ Mapped(d) BY <1>3 DEF Mapped
<1>4. CASE tasks[c] = FinishTask /\ tasks[d] = FinishTask
  BY <1>1, <1>4, TaskNames DEF CalmInv, CalmTasks
<1>5. CASE Mapped(c) /\ tasks[d] = FinishTask
  BY <1>1, <1>2, <1>5 DEF CalmConn, Mapped, NoConn
<1>6. CASE Mapped(d) /\ tasks[c] = FinishTask
  BY <1>1, <1>2, <1>6 DEF CalmConn, Mapped, NoConn
<1> QED BY <1>2, <1>3, <1>4, <1>5, <1>6 DEF CalmConn

\* How a step on one connection changes Live.
LEMMA LiveStep ==
    ASSUME EndpointInv, CalmInv, NEW c \in DOMAIN obj, c \notin ended, NEW e,
           obj' = [obj EXCEPT ![c] = e], e.addr = obj[c].addr
    PROVE  /\ e.state = "connected" => Live' = Live \cup {obj[c].addr}
           /\ e.state # "connected" => Live' = Live \ {obj[c].addr}
           /\ (e.state = "connected") = (obj[c].state = "connected") => Live' = Live
<1>1. DOMAIN obj' = DOMAIN obj /\ obj'[c] = e /\ \A d \in DOMAIN obj \ {c} : obj'[d] = obj[d]
  OBVIOUS
<1>2. \A d \in DOMAIN obj : obj[d].state = "connected" => d \notin ended
  BY DEF CalmInv, CalmConn, Gone
<1>3. \A d \in DOMAIN obj : obj[d].state = "connected" /\ obj[d].addr = obj[c].addr => d = c
  BY <1>2, OnePerAddress
<1>4. \A a : a \in Live <=> \E d \in DOMAIN obj : obj[d].state = "connected" /\ obj[d].addr = a
  BY DEF Live
<1>5. \A a : a \in Live' <=> \E d \in DOMAIN obj : obj'[d].state = "connected" /\ obj'[d].addr = a
  BY <1>1 DEF Live
<1>6. \A a : a # obj[c].addr => (a \in Live' <=> a \in Live)
  <2> SUFFICES ASSUME NEW a, a # obj[c].addr PROVE a \in Live' <=> a \in Live OBVIOUS
  <2>1. \A d \in DOMAIN obj : obj'[d].addr = obj[d].addr BY <1>1
  <2>2. \A d \in DOMAIN obj : obj[d].addr = a => obj'[d] = obj[d] BY <1>1
  <2> QED BY <1>4, <1>5, <2>1, <2>2
<1>7. obj[c].addr \in Live <=> obj[c].state = "connected" BY <1>3, <1>4
<1>8. obj[c].addr \in Live' <=> e.state = "connected"
  <2>1. e.state = "connected" => obj[c].addr \in Live' BY <1>1, <1>5
  <2>2. ASSUME obj[c].addr \in Live', e.state # "connected" PROVE FALSE
    <3>1. PICK d \in DOMAIN obj : obj'[d].state = "connected" /\ obj'[d].addr = obj[c].addr
      BY <1>5, <2>2
    <3>2. d # c BY <1>1, <2>2, <3>1
    <3> QED BY <1>1, <1>3, <3>1, <3>2
  <2> QED BY <2>1, <2>2
<1> QED BY <1>6, <1>7, <1>8

\* What a step emits, and what it does to Live.
QuietStep ==
    /\ Live' = Live
    /\ \/ events' = <<>>
       \/ \E c \in DOMAIN obj : \/ events' = <<Event("heard", c)>>
                                \/ events' = <<Event("heard", c), Event("syn", c)>>

ConnectStep(c) ==
    /\ Live' = Live \cup {obj[c].addr}
    /\ obj'[c].addr = obj[c].addr
    /\ events' = <<Event("heard", c), Event("connect", c)>>

EndStep(c) ==
    /\ Live' = Live \ {obj[c].addr}
    /\ obj'[c].addr = obj[c].addr
    /\ \/ events' = <<Event("connectionEnded", c)>>
       \/ events' = <<Event("connectionEnded", c), Event("disconnect", c)>>

\* A step is one of the three: quiet, a connect, the end of a connection.
LEMMA StepKinds ==
    ASSUME Calm, EndpointInv, CalmInv, Next
    PROVE  QuietStep \/ \E c \in DOMAIN obj : ConnectStep(c) \/ EndStep(c)
<1>0. /\ conns \in [Addr -> 0..created] /\ DOMAIN obj = 1..created /\ created \in 0..MaxConn
      /\ tasks \in [Conn -> Tasks] /\ obj \in Seq(Object) /\ Len(obj) = created
      /\ \A i \in DOMAIN obj : obj[i] \in Object /\ i \in Conn
      /\ \A p \in arrived : p.conn \in DOMAIN obj
  BY TypeParts, EndpointAssumption DEF EndpointInv, Conn
<1>1. ASSUME NEW a \in Addr, NEW type \in PacketTypes, Arrive(a, type) PROVE QuietStep
  <2>1. events' = <<>> BY <1>1 DEF Arrive
  <2>2. CASE UNCHANGED obj BY <2>1, <2>2 DEF QuietStep, Live
  <2>3. CASE obj' = Append(obj, NewPRUDPConnection(a))
    <3>1. NewPRUDPConnection(a).state # "connected" BY DEF NewPRUDPConnection
    <3>2. DOMAIN obj' = 1..(created + 1) /\ obj'[created + 1] = NewPRUDPConnection(a)
          /\ \A i \in 1..created : obj'[i] = obj[i]
      BY <1>0, <2>3
    <3>3. {d \in DOMAIN obj' : obj'[d].state = "connected"}
            = {d \in DOMAIN obj : obj[d].state = "connected"}
      BY <1>0, <3>1, <3>2
    <3>4. Live' = Live
      <4> DEFINE D == {d \in DOMAIN obj : obj[d].state = "connected"}
      <4>1. \A d \in D : obj'[d].addr = obj[d].addr BY <1>0, <3>2
      <4>2. Live = {obj[d].addr : d \in D} BY DEF Live
      <4>3. Live' = {obj'[d].addr : d \in D} BY <3>3 DEF Live
      <4> HIDE DEF D
      <4> QED BY <4>1, <4>2, <4>3
    <3> QED BY <2>1, <3>4 DEF QuietStep
  <2> QED BY <1>1, <2>2, <2>3 DEF Arrive
<1>2. ASSUME NEW p \in arrived, Handle(p)
      PROVE  QuietStep \/ \E c \in DOMAIN obj : ConnectStep(c) \/ EndStep(c)
  <2> DEFINE c == p.conn
             o == obj[c]
  <2>1. c \in DOMAIN obj /\ o \in Object /\ c \notin ended /\ c \in Conn
        /\ (p.type \in {"syn", "connect"} => o.state # "connected")
    BY <1>0 DEF CalmInv, CalmTasks
  <2>2. ResetHeartbeat(o) \in Object /\ ResetHeartbeat(o).addr = o.addr
        /\ ResetHeartbeat(o).state = o.state
    <3>1. ResetHeartbeat(o) \in Object /\ ResetHeartbeat(o).addr = o.addr
      BY <2>1, Operations
    <3> QED BY <2>1, <3>1 DEF ResetHeartbeat, Object
  <2> HIDE DEF c
  <2>a. CASE p.type = "syn" /\ HandleSyn(c)
    <3> DEFINE e == [Reset(ResetHeartbeat(o)) EXCEPT !.state = "connecting"]
    <3>1. e.addr = o.addr /\ e.state = "connecting" BY <2>2 DEF Reset, Object
    <3>2. obj' = [obj EXCEPT ![c] = e] /\ events' = <<Event("heard", c), Event("syn", c)>>
      BY <2>a DEF HandleSyn
    <3> HIDE DEF e
    <3>3. Live' = Live BY <2>a, <2>1, <3>1, <3>2, LiveStep, Zenon
    <3> QED BY <2>1, <3>2, <3>3 DEF QuietStep
  <2>b. CASE HandleConnect(c)
    <3> DEFINE r == [ResetHeartbeat(o) EXCEPT !.pid = TRUE, !.state = "connected"]
               e == StartHeartbeat(r)
    <3>1. r \in Object /\ r.addr = o.addr /\ r.state = "connected" BY <2>2, Zenon DEF Object
    <3>2. obj' = [obj EXCEPT ![c] = e] /\ events' = <<Event("heard", c), Event("connect", c)>>
      BY <2>b DEF HandleConnect
    <3> HIDE DEF r
    <3>3. e.addr = o.addr /\ e.state = "connected" BY <3>1 DEF StartHeartbeat, Object
    <3> HIDE DEF e
    <3>4. Live' = Live \cup {o.addr} BY <2>1, <3>2, <3>3, LiveStep, Zenon
    <3>5. obj'[c] = e BY <2>1, <3>2
    <3> QED BY <2>1, <3>2, <3>3, <3>4, <3>5 DEF ConnectStep
  <2>c. CASE HandleConnectRefused(c) \/ HandleTraffic(c)
    <3>1. obj' = [obj EXCEPT ![c] = ResetHeartbeat(o)] /\ events' = <<Event("heard", c)>>
      BY <2>c DEF HandleConnectRefused, HandleTraffic
    <3>2. Live' = Live BY <2>1, <2>2, <3>1, LiveStep, Zenon
    <3> QED BY <2>1, <3>1, <3>2 DEF QuietStep
  <2>d. CASE HandleDisconnect(c)
    <3> DEFINE e == Cleanup(o)
    <3>1. Mapped(c)
      <4>1. arrived # {} OBVIOUS
      <4>2. tasks[c] = NoTasks BY <2>1, <4>1 DEF CalmInv, CalmTasks, NoneRuns
      <4> QED BY <2>1, <4>2, TaskNames DEF CalmInv, CalmConn
    <3>2. conns[o.addr] = c /\ c # NoConn BY <2>1, <3>1 DEF Mapped, Conn, NoConn
    <3>3. /\ obj' = [obj EXCEPT ![c] = e]
          /\ events' = <<Event("connectionEnded", c), Event("disconnect", c)>>
      BY <2>d, <3>2 DEF HandleDisconnect
    <3>4. e.addr = o.addr /\ e.state = "not_connected"
      BY <2>1 DEF Object, Cleanup, Reset, StopHeartbeatTimers
    <3> HIDE DEF e
    <3>5. Live' = Live \ {o.addr} BY <2>1, <3>3, <3>4, LiveStep, Zenon
    <3>6. obj'[c] = e BY <2>1, <3>3
    <3> QED BY <2>1, <3>3, <3>4, <3>5, <3>6 DEF EndStep
  <2>e. CASE HandleIgnored(c, p.type)
    BY <2>e DEF HandleIgnored, QuietStep, Live
  <2> QED BY <1>2, <2>a, <2>b, <2>c, <2>d, <2>e DEF Handle, c
<1>3. ASSUME NEW c \in DOMAIN obj, TimerStep(c) \/ GiveUp(c)
      PROVE  QuietStep \/ \E d \in DOMAIN obj : ConnectStep(d) \/ EndStep(d)
  <2> DEFINE o == obj[c]
  <2>0. o \in Object /\ c \in Conn /\ CalmConn(c) BY <1>0 DEF CalmInv
  <2>1. ASSUME NEW e, obj' = [obj EXCEPT ![c] = e], e.addr = o.addr, e.state = o.state,
               events' = <<>>, c \notin ended
        PROVE  QuietStep
    BY <2>1, LiveStep, Zenon DEF QuietStep
  <2>2. c \in ended => ~Timers(c) /\ tasks[c].beat = 0 /\ tasks[c].finish = 0
    BY <2>0 DEF CalmConn, Gone, NoTasks
  <2>a. CASE HeartbeatExpires(c)
    <3>1. c \notin ended BY <2>a, <2>2 DEF HeartbeatExpires, Timers
    <3>2. events' = <<>> BY <2>a DEF HeartbeatExpires
    <3>3. CASE obj' = [obj EXCEPT ![c].beat = FALSE]
      <4> DEFINE e == [o EXCEPT !.beat = FALSE]
      <4>1. e.addr = o.addr /\ e.state = o.state BY <2>0 DEF Object
      <4>2. obj' = [obj EXCEPT ![c] = e] BY <3>3
      <4> QED BY <2>1, <3>1, <3>2, <4>1, <4>2, Zenon
    <3>4. CASE obj' = [obj EXCEPT ![c].lostBeats = @ - 1]
      <4> DEFINE e == [o EXCEPT !.lostBeats = @ - 1]
      <4>1. e.addr = o.addr /\ e.state = o.state BY <2>0 DEF Object
      <4>2. obj' = [obj EXCEPT ![c] = e] BY <3>4
      <4> QED BY <2>1, <3>1, <3>2, <4>1, <4>2, Zenon
    <3> QED BY <2>a, <3>3, <3>4 DEF HeartbeatExpires
  <2>b. CASE HeartbeatCallback(c)
    <3>1. c \notin ended BY <2>b, <2>2 DEF HeartbeatCallback
    <3>2. StartKick(o).addr = o.addr /\ StartKick(o).state = o.state
      BY <2>0 DEF Object, StartKick
    <3>3. obj' = [obj EXCEPT ![c] = StartKick(o)] /\ events' = <<>>
      BY <2>b DEF HeartbeatCallback
    <3> QED BY <2>1, <3>1, <3>2, <3>3, Zenon
  <2>c. CASE KickExpires(c)
    <3>1. c \notin ended BY <2>c, <2>2 DEF KickExpires, Timers
    <3>2. events' = <<>> BY <2>c DEF KickExpires
    <3>3. CASE obj' = [obj EXCEPT ![c].kick = FALSE]
      <4> DEFINE e == [o EXCEPT !.kick = FALSE]
      <4>1. e.addr = o.addr /\ e.state = o.state BY <2>0 DEF Object
      <4>2. obj' = [obj EXCEPT ![c] = e] BY <3>3
      <4> QED BY <2>1, <3>1, <3>2, <4>1, <4>2, Zenon
    <3>4. CASE obj' = [obj EXCEPT ![c].lostKicks = @ - 1]
      <4> DEFINE e == [o EXCEPT !.lostKicks = @ - 1]
      <4>1. e.addr = o.addr /\ e.state = o.state BY <2>0 DEF Object
      <4>2. obj' = [obj EXCEPT ![c] = e] BY <3>4
      <4> QED BY <2>1, <3>1, <3>2, <4>1, <4>2, Zenon
    <3> QED BY <2>c, <3>3, <3>4 DEF KickExpires
  <2>d. CASE GiveUp(c) \/ CleanupRemove(c)
    BY <2>d DEF GiveUp, CleanupRemove, QuietStep, Live
  <2>e. CASE CleanupFinish(c)
    <3> DEFINE e == Cleanup(o)
    <3>1. c \notin ended BY <2>e, <2>2 DEF CleanupFinish
    <3>2. e.addr = o.addr /\ e.state = "not_connected"
      BY <2>0 DEF Object, Cleanup, Reset, StopHeartbeatTimers
    <3>3. obj' = [obj EXCEPT ![c] = e] /\ events' = <<Event("connectionEnded", c)>>
      BY <2>e DEF CleanupFinish
    <3> HIDE DEF e
    <3>4. Live' = Live \ {o.addr} BY <3>1, <3>2, <3>3, LiveStep, Zenon
    <3>5. obj'[c] = e BY <3>3
    <3> QED BY <3>2, <3>3, <3>4, <3>5 DEF EndStep
  <2> QED BY <1>3, <2>a, <2>b, <2>c, <2>d, <2>e DEF TimerStep
<1> QED BY <1>1, <1>2, <1>3 DEF Next

\* What the session log writes and keeps
Line == [conn : Conn, left : BOOLEAN, timed : BOOLEAN]

Log == [start : SUBSET Addr, explicit : SUBSET Addr, lines : Seq(Line)]

\* The inductive invariant of the session log
LogInv ==
    /\ log \in Log
    /\ log.start = Live
    /\ log.start \cap log.explicit = {}

\* Every step keeps the log's invariant and writes only lines that are right.
LEMMA LogStep ==
    ASSUME Calm, EndpointInv, CalmInv, LogInv, ObserverNext
    PROVE  LogInv' /\ \A i \in DOMAIN log'.lines :
             LET c == log'.lines[i].conn
             IN  obj[c].state = "connected" /\ Event("disconnect", c) \notin Range(events')
                   => ~log'.lines[i].left /\ log'.lines[i].timed
<1> DEFINE l == [log EXCEPT !.lines = <<>>]
           Right(i) == LET c == log'.lines[i].conn
                      IN  obj[c].state = "connected" /\ Event("disconnect", c) \notin Range(events')
                            => ~log'.lines[i].left /\ log'.lines[i].timed
<1> USE DEF LogInv
<1>1. l \in Log /\ l.start = log.start /\ l.explicit = log.explicit /\ l.lines = <<>>
      /\ DOMAIN l.lines = {}
  <2>1. <<>> \in Seq(Line) /\ DOMAIN <<>> = {} OBVIOUS
  <2> QED BY <2>1, Zenon DEF Log
<1>2. log' = Observed(l, events') /\ Next BY DEF ObserverNext
<1> HIDE DEF l
<1>3. \A c : Observe(l, Event("heard", c)) = l BY DEF Observe, Event
<1>4. ASSUME QuietStep PROVE LogInv' /\ \A i \in DOMAIN log'.lines : Right(i)
  <2>1. log' = l
    <3>1. CASE events' = <<>> BY <1>2, <3>1, FoldNone
    <3>2. ASSUME NEW c \in DOMAIN obj, events' = <<Event("heard", c)>> PROVE log' = l
      BY <1>2, <1>3, <3>2, FoldOne, Zenon
    <3>3. ASSUME NEW c \in DOMAIN obj, events' = <<Event("heard", c), Event("syn", c)>>
          PROVE log' = l
      <4>1. Observe(l, Event("syn", c)) = l BY DEF Observe, Event
      <4>2. log' = Observe(Observe(l, Event("heard", c)), Event("syn", c))
        <5>1. /\ DOMAIN events' = {1, 2}
              /\ events'[1] = Event("heard", c) /\ events'[2] = Event("syn", c)
          BY <3>3
        <5> QED BY <1>2, <5>1, FoldTwo, Zenon
      <4> QED BY <1>3, <4>1, <4>2
    <3> QED BY <1>4, <3>1, <3>2, <3>3 DEF QuietStep
  <2>2. Live' = Live BY <1>4 DEF QuietStep
  <2> QED BY <1>1, <2>1, <2>2
<1>5. ASSUME NEW c \in DOMAIN obj, obj'[c].addr = obj[c].addr
      PROVE  /\ obj[c].addr \in Addr /\ c \in Conn
             /\ Observe(l, Event("connect", c)) = OnConnect(l, obj[c].addr)
             /\ Observe(l, Event("connectionEnded", c)) = OnConnectionEnded(l, c, obj[c].addr)
             /\ \A m : Observe(m, Event("disconnect", c)) = OnDisconnect(m, obj[c].addr)
  <2>1. obj[c].addr \in Addr /\ c \in Conn
    <3>1. /\ \A i \in DOMAIN obj : obj[i] \in Object
          /\ DOMAIN obj = 1..created /\ created \in 0..MaxConn
      BY TypeParts DEF EndpointInv
    <3>2. obj[c] \in Object BY <3>1
    <3> QED BY <3>1, <3>2, EndpointAssumption DEF Conn, Object
  <2>2. Observe(l, Event("connect", c)) = OnConnect(l, obj[c].addr)
    BY <1>5 DEF Observe, Event
  <2>3. Observe(l, Event("connectionEnded", c)) = OnConnectionEnded(l, c, obj[c].addr)
    BY <1>5 DEF Observe, Event
  <2>4. \A m : Observe(m, Event("disconnect", c)) = OnDisconnect(m, obj[c].addr)
    BY <1>5 DEF Observe, Event
  <2> QED BY <2>1, <2>2, <2>3, <2>4
<1>6. ASSUME NEW c \in DOMAIN obj, ConnectStep(c) PROVE LogInv' /\ \A i \in DOMAIN log'.lines : Right(i)
  <2> DEFINE a == obj[c].addr
             k == OnConnect(l, a)
  <2>1. obj'[c].addr = a /\ Live' = Live \cup {a}
        /\ events' = <<Event("heard", c), Event("connect", c)>>
    BY <1>6 DEF ConnectStep
  <2>2. a \in Addr BY <1>5, <2>1
  <2>3. log' = k
    <3>1. log' = Observe(Observe(l, Event("heard", c)), Event("connect", c))
      <4>1. /\ DOMAIN events' = {1, 2}
            /\ events'[1] = Event("heard", c) /\ events'[2] = Event("connect", c)
        BY <2>1
      <4> QED BY <1>2, <4>1, FoldTwo, Zenon
    <3> QED BY <1>3, <1>5, <2>1, <3>1
  <2>4. k \in Log /\ k.start = l.start \cup {a} /\ k.explicit = l.explicit \ {a} /\ k.lines = <<>>
    BY <1>1, <2>2, Zenon DEF OnConnect, Log
  <2> HIDE DEF k
  <2> QED BY <1>1, <2>1, <2>3, <2>4
<1>7. ASSUME NEW c \in DOMAIN obj, EndStep(c) PROVE LogInv' /\ \A i \in DOMAIN log'.lines : Right(i)
  <2> DEFINE a == obj[c].addr
             line == [conn |-> c, left |-> a \in l.explicit, timed |-> a \in l.start]
             k == OnConnectionEnded(l, c, a)
             m == OnDisconnect(k, a)
  <2>1. obj'[c].addr = a /\ Live' = Live \ {a} BY <1>7 DEF EndStep
  <2>2. a \in Addr /\ c \in Conn BY <1>5, <2>1
  <2>3. line \in Line BY <2>2 DEF Line
  <2>4. k \in Log /\ k.start = l.start \ {a} /\ k.explicit = l.explicit \ {a} /\ k.lines = <<line>>
    <3> HIDE DEF line
    <3>1. Append(l.lines, line) = <<line>> /\ <<line>> \in Seq(Line) BY <1>1, <2>3
    <3>2. k = [l EXCEPT !.start = @ \ {a}, !.explicit = @ \ {a}, !.lines = Append(@, line)]
      BY DEF OnConnectionEnded, line
    <3> HIDE DEF k
    <3> QED BY <1>1, <2>2, <3>1, <3>2, Zenon DEF Log
  <2>5. line.conn = c /\ line.left = (a \in l.explicit) /\ line.timed = (a \in l.start) OBVIOUS
  <2> HIDE DEF k, line
  <2>6. m \in Log /\ m.start = k.start /\ m.explicit = k.explicit \cup {a} /\ m.lines = k.lines
    BY <2>2, <2>4 DEF OnDisconnect, Log
  <2> HIDE DEF m
  <2>7. obj[c].state = "connected" => line.timed /\ ~line.left
    <3>1. obj[c].state = "connected" => a \in Live BY DEF Live
    <3> QED BY <1>1, <2>5, <3>1, Zenon
  <2>8. CASE events' = <<Event("connectionEnded", c)>>
    <3>1. log' = k BY <1>2, <1>5, <2>1, <2>8, FoldOne, Zenon DEF k
    <3>2. DOMAIN log'.lines = {1} /\ log'.lines[1] = line BY <2>4, <3>1
    <3>3. \A i \in DOMAIN log'.lines : Right(i) BY <2>5, <2>7, <3>2
    <3> QED BY <1>1, <2>1, <2>4, <3>1, <3>3
  <2>9. CASE events' = <<Event("connectionEnded", c), Event("disconnect", c)>>
    <3>0. log' = Observe(Observe(l, Event("connectionEnded", c)), Event("disconnect", c))
      <4>1. /\ DOMAIN events' = {1, 2}
            /\ events'[1] = Event("connectionEnded", c) /\ events'[2] = Event("disconnect", c)
        BY <2>9
      <4> QED BY <1>2, <4>1, FoldTwo, Zenon
    <3>1. log' = m BY <1>5, <2>1, <3>0 DEF k, m
    <3>2. DOMAIN log'.lines = {1} /\ log'.lines[1] = line BY <2>4, <2>6, <3>1
    <3>3. \A i \in DOMAIN log'.lines : Right(i) BY <2>5, <2>7, <3>2
    <3> QED BY <1>1, <2>1, <2>4, <2>6, <3>1, <3>3
  <2> QED BY <1>7, <2>8, <2>9 DEF EndStep
<1>8. QuietStep \/ \E c \in DOMAIN obj : ConnectStep(c) \/ EndStep(c) BY <1>2, StepKinds
<1> QED BY <1>4, <1>6, <1>7, <1>8

\* The invariants of the endpoint and of the log hold in every behaviour without races.
LEMMA LogAlways == ASSUME Calm PROVE ObserverSpec => [](EndpointInv /\ CalmInv /\ LogInv)
<1>1. ObserverInit => EndpointInv /\ CalmInv /\ LogInv
  <2> SUFFICES ASSUME ObserverInit PROVE EndpointInv /\ CalmInv /\ LogInv OBVIOUS
  <2>1. Init /\ log = [start |-> {}, explicit |-> {}, lines |-> <<>>] BY DEF ObserverInit
  <2>2. obj = <<>> BY <2>1 DEF Init
  <2>3. Live = {} BY <2>2 DEF Live
  <2>4. LogInv
    <3>1. <<>> \in Seq(Line) OBVIOUS
    <3> QED BY <2>1, <2>3, <3>1 DEF LogInv, Log
  <2> QED BY <2>1, <2>4, EndpointInitInv, CalmInitInv
<1>2. EndpointInv /\ CalmInv /\ LogInv /\ [ObserverNext]_observerVars
        => (EndpointInv /\ CalmInv /\ LogInv)'
  <2> SUFFICES ASSUME EndpointInv, CalmInv, LogInv, [ObserverNext]_observerVars
               PROVE  (EndpointInv /\ CalmInv /\ LogInv)'
    OBVIOUS
  <2>1. [Next]_vars BY DEF ObserverNext, observerVars, vars
  <2>2. EndpointInv' BY <2>1, EndpointNextInv
  <2>3. CalmInv' BY <2>1, <2>2, CalmNextInv
  <2>4. CASE ObserverNext BY <2>2, <2>3, <2>4, LogStep
  <2>5. CASE UNCHANGED observerVars
    <3>1. LogInv' BY <2>5 DEF LogInv, Live, observerVars
    <3> QED BY <2>2, <2>3, <3>1
  <2> QED BY <2>4, <2>5
<1> QED BY <1>1, <1>2, PTL DEF ObserverSpec

\* session_log.go: without races, sessStart holds a start time exactly for the addresses
\* with a connected console.
THEOREM StartTracksConnectionsAlways ==
    ASSUME Races = {} PROVE ObserverSpec => []StartTracksConnections
<1>1. LogInv => StartTracksConnections BY DEF LogInv, Live, StartTracksConnections
<1> QED BY <1>1, LogAlways, PTL DEF Calm

\* session_log.go: without races, a connected session that ends without a DISCONNECT is
\* logged as dropped and with its duration.
THEOREM DropLoggedAsDropAlways == ASSUME Races = {} PROVE ObserverSpec => DropLoggedAsDrop
<1> DEFINE Lines == \A i \in DOMAIN log'.lines :
                       LET c == log'.lines[i].conn
                       IN  obj[c].state = "connected" /\ Event("disconnect", c) \notin Range(events')
                             => ~log'.lines[i].left /\ log'.lines[i].timed
<1>1. EndpointInv /\ CalmInv /\ LogInv /\ [ObserverNext]_observerVars => [Lines]_observerVars
  BY LogStep DEF Calm
<1> QED BY <1>1, LogAlways, PTL DEF Calm, ObserverSpec, DropLoggedAsDrop
==============================================================================
