-------------------------------- MODULE Relay --------------------------------
(***************************************************************************)
(* The transparent UDP relay (relay.go) and the two matchmaking handlers   *)
(* that hand its endpoints out (relay_integration.go).  The gatherings and *)
(* who is in them belong to the matchmaking library and its database; the  *)
(* consoles, their NATs and the sockets are the environment.               *)
(*                                                                         *)
(* A link has two sockets.  Socket "A" is where pidB sends to reach pidA,  *)
(* socket "B" where pidA sends to reach pidB; a goroutine per socket reads *)
(* a packet, stores where it came from, loads where the other console was  *)
(* last seen and forwards.  Port numbers are abstracted to the socket.     *)
(***************************************************************************)
EXTENDS Naturals, Sequences, FiniteSets

CONSTANTS
    Pid,             \* the consoles
    Hosts,           \* Hosts[g]: the host of gathering g
    Pool,            \* number of relay IPs (FFE_RELAY_IPS); 0: only the public host
    MaxLinks,        \* bound: links opened
    MaxFaults        \* bound: socket pairs that cannot be opened and changes of NAT mappings

ASSUME RelayAssumption ==
    /\ Pid \subseteq Nat \ {0}
    /\ Hosts \in Seq(Pid)
    /\ Pool \in Nat
    /\ MaxLinks \in Nat
    /\ MaxFaults \in Nat

VARIABLES
    members,         \* participants of each gathering
    links,           \* relayManager.links, a set of link records
    hostSeq,         \* relayManager.hostSeq
    failures,        \* socket pairs that could not be opened
    rebinds,         \* changes of NAT mappings
    addr,            \* addrA and addrB of every link: [pair, side] -> source last seen
    known,           \* known[p][q]: the address p has been given for q
    nat,             \* nat[p]: number of p's current NAT mapping
    pumping,         \* packets between a pump's Store and its Load
    received         \* pairs <<p, q>>: packets of p reach q at its current mapping

vars == <<members, links, hostSeq, failures, rebinds, addr, known, nat, pumping,
          received>>

Unknown == [via |-> "unknown"]
Direct == [via |-> "direct"]
Unseen == [pid |-> 0, nat |-> 0]
Sides == {"A", "B"}

\* pairKey
PairKey(p, q) == {p, q}

LinkOf(p, q) == {l \in links : l.pair = PairKey(p, q)}

EndpointFor(l, target) == IF target = l.pidA THEN "A" ELSE "B"

\* Link address and port, as the two handlers write them into a station URL
RelayAddress(l, target) ==
    [via |-> "relay", host |-> l.host, pair |-> l.pair, side |-> EndpointFor(l, target)]

Init ==
    /\ members = [g \in DOMAIN Hosts |-> {Hosts[g]}]
    /\ links = {}
    /\ hostSeq = 0
    /\ failures = 0
    /\ rebinds = 0
    /\ addr = [s \in {} |-> Unseen]
    /\ known = [p \in Pid |-> [q \in Pid |-> Unknown]]
    /\ nat = [p \in Pid |-> 0]
    /\ pumping = {}
    /\ received = {}

\* A console joins a gathering.
Join(g, p) ==
    /\ \A f \in DOMAIN members : p \notin members[f]
    /\ members' = [members EXCEPT ![g] = @ \cup {p}]
    /\ UNCHANGED <<links, hostSeq, failures, addr, known, rebinds, nat, pumping, received>>

------------------------------------------------------------------------------
(* Links *)

\* The relay IP link() takes next, 0 for the public host
NextHost == IF Pool = 0 THEN 0 ELSE (hostSeq % Pool) + 1

\* The cursor moves when an IP is taken, also for a link that then fails.
AdvanceCursor == hostSeq' = IF Pool = 0 THEN hostSeq ELSE hostSeq + 1

\* relayManager.link(p, q), then known[reader][target] is set from the link, or to the
\* station's own address when the sockets cannot be opened.
UseLink(p, q, reader, target) ==
    \/ /\ LinkOf(p, q) # {}
       /\ LET l == CHOOSE l \in LinkOf(p, q) : TRUE
          IN  known' = [known EXCEPT ![reader][target] = RelayAddress(l, target)]
       /\ UNCHANGED <<links, hostSeq, failures, addr>>
    \/ /\ LinkOf(p, q) = {}
       /\ Cardinality(links) < MaxLinks
       /\ LET l == [pair |-> PairKey(p, q), pidA |-> p, pidB |-> q, host |-> NextHost]
          IN  /\ links' = links \cup {l}
              /\ addr' = [s \in DOMAIN addr \cup ({l.pair} \X Sides) |->
                             IF s \in DOMAIN addr THEN addr[s] ELSE Unseen]
              /\ known' = [known EXCEPT ![reader][target] = RelayAddress(l, target)]
       /\ AdvanceCursor
       /\ UNCHANGED failures
    \/ /\ LinkOf(p, q) = {}
       /\ failures + rebinds < MaxFaults
       /\ failures' = failures + 1
       /\ known' = [known EXCEPT ![reader][target] = Direct]
       /\ AdvanceCursor
       /\ UNCHANGED <<links, addr>>

\* relayGetSessionURLs of a connected host: the caller learns where to reach it.
GetSessionURLs(g, caller) ==
    LET host == Hosts[g]
    IN  /\ caller \in members[g] \ {host}
        /\ UseLink(host, caller, caller, host)
        /\ UNCHANGED <<members, rebinds, nat, pumping, received>>

\* gatheringHostForPID: the host of the newest gathering the console is in, or 0
GatheringHostForPID(p) ==
    LET in == {g \in DOMAIN members : p \in members[g]}
    IN  IF in = {} THEN 0 ELSE Hosts[CHOOSE g \in in : \A f \in in : f <= g]

\* Mutant: only the links of a calling host are relayed.
IsHostLinkOfCaller(caller, target) == caller = GatheringHostForPID(caller)

IsHostLink(caller, target) ==
    LET host == GatheringHostForPID(caller)
    IN  host # 0 /\ (caller = host \/ target = host)

\* relayRequestProbeInitiationExt for one target of its list: the target is told where
\* to probe the caller.
RequestProbeInitiationExt(caller, target) ==
    /\ \E g \in DOMAIN members : {caller, target} \subseteq members[g]
    /\ caller # target
    /\ \/ /\ IsHostLink(caller, target)
          /\ UseLink(caller, target, target, caller)
       \/ /\ ~IsHostLink(caller, target)
          /\ known' = [known EXCEPT ![target][caller] = Direct]
          /\ UNCHANGED <<links, hostSeq, failures, addr>>
    /\ UNCHANGED <<members, rebinds, nat, pumping, received>>

------------------------------------------------------------------------------
(* Packets *)

\* A console's NAT mapping times out or its router restarts: what was sent to the
\* mapping before no longer reaches it.
Rebind(p) ==
    /\ failures + rebinds < MaxFaults
    /\ rebinds' = rebinds + 1
    /\ nat' = [nat EXCEPT ![p] = rebinds']
    /\ received' = {r \in received : r[2] # p}
    /\ UNCHANGED <<members, links, hostSeq, failures, addr, known, pumping>>

\* The socket the other console's packets come from: sockB carries the packets of A.
SenderSide(side) == IF side = "B" THEN "A" ELSE "B"

\* p sends to the relay address it has for q.  The pump of that socket, which is not
\* busy with another packet, reads it and stores its source.
PumpStore(p, q) ==
    LET k == known[p][q]
    IN  /\ k.via = "relay"
        /\ \A x \in pumping : ~(x.pair = k.pair /\ x.side = k.side)
        /\ addr' = [addr EXCEPT ![<<k.pair, SenderSide(k.side)>>] = [pid |-> p, nat |-> nat[p]]]
        /\ pumping' = pumping \cup {[pair |-> k.pair, side |-> k.side, from |-> p, meant |-> q]}
        /\ UNCHANGED <<members, links, hostSeq, failures, known, rebinds, nat, received>>

\* Mutant: the packet goes to the address just stored.
DestinationEchoed(x) == addr[<<x.pair, SenderSide(x.side)>>]

\* dstAddr of the pump of a socket
Destination(x) == addr[<<x.pair, x.side>>]

\* The pump loads where the other console was last seen and forwards, or drops the
\* packet when it has not been seen.
PumpForward(x) ==
    LET dst == Destination(x)
    IN  /\ pumping' = pumping \ {x}
        /\ received' = IF dst # Unseen /\ dst.nat = nat[dst.pid]
                       THEN received \cup {<<x.from, dst.pid>>} ELSE received
        /\ UNCHANGED <<members, links, hostSeq, failures, addr, known, rebinds, nat>>

\* The goroutine of one socket
PumpOf(pair, side) ==
    \E x \in pumping : x.pair = pair /\ x.side = side /\ PumpForward(x)

Peers == {pq \in Pid \X Pid : pq[1] # pq[2]}
Pairs == {PairKey(pq[1], pq[2]) : pq \in Peers}

Next ==
    \/ \E g \in DOMAIN Hosts, p \in Pid : Join(g, p) \/ GetSessionURLs(g, p)
    \/ \E p, q \in Pid : RequestProbeInitiationExt(p, q) \/ PumpStore(p, q)
    \/ \E p \in Pid : Rebind(p)
    \/ \E x \in pumping : PumpForward(x)

Spec == Init /\ [][Next]_vars

\* Consoles send to each other all the time and the pumps run.
Fairness ==
    /\ \A pq \in Peers : WF_vars(PumpStore(pq[1], pq[2]))
    /\ \A pair \in Pairs, side \in Sides : WF_vars(PumpOf(pair, side))

FairSpec == Spec /\ Fairness

------------------------------------------------------------------------------
(* Properties *)

\* The addresses that may have been handed out
Addresses ==
    {Unknown, Direct} \cup
    [via : {"relay"}, host : 0..Pool, pair : {l.pair : l \in links}, side : Sides]

\* The type invariant.  Both sockets of a link exist as long as the link does.
TypeOK ==
    /\ members \in [DOMAIN Hosts -> SUBSET Pid]
    /\ links \subseteq [pair : Pairs, pidA : Pid, pidB : Pid, host : 0..Pool]
    /\ hostSeq \in Nat
    /\ failures \in 0..MaxFaults
    /\ rebinds \in 0..MaxFaults
    /\ DOMAIN addr = {l.pair : l \in links} \X Sides
    /\ \A s \in DOMAIN addr : addr[s] = Unseen \/ addr[s] \in [pid : s[1], nat : 0..MaxFaults]
    /\ known \in [Pid -> [Pid -> Addresses]]
    /\ nat \in [Pid -> 0..MaxFaults]
    /\ pumping \subseteq [pair : Pairs, side : Sides, from : Pid, meant : Pid]
    /\ received \subseteq Peers

\* "A packet arriving for one console is forwarded out to the other": what a console
\* sends to the relay address it was given for a peer goes to an address of that peer.
\* It ties endpointFor, the wiring of the two pumps and both handlers together.
RelayedToPeer ==
    \A x \in pumping : Destination(x) # Unseen => Destination(x).pid = x.meant

SameLink(p, q) ==
    /\ known[p][q].via = "relay"
    /\ known[q][p].via = "relay"
    /\ known[p][q].pair = known[q][p].pair
    /\ known[p][q].host = known[q][p].host

\* "The joiner also gets the host's relay address from GetSessionURLs, so both ends
\* agree on the relay": when a host and a joiner know of each other, both have been
\* given the two ends of one link, as long as the sockets of every link could be opened.
BothEndsAgree ==
    failures = 0 => \A g \in DOMAIN Hosts : \A p \in members[g] \ {Hosts[g]} :
        LET h == Hosts[g]
        IN  known[p][h] # Unknown /\ known[h][p] # Unknown => SameLink(p, h)

\* "With one link per participant-pair and a pool >= (players-1), every peer a console
\* talks to lands on a different IP."
DistinctHosts ==
    failures = 0 /\ (\A g \in DOMAIN Hosts : Pool >= Cardinality(members[g]) - 1) =>
        \A p, q, r \in Pid :
            q # r /\ known[p][q].via = "relay" /\ known[p][r].via = "relay"
                => known[p][q].host # known[p][r].host

\* Two consoles that were given the two ends of a link reach each other, and do so again
\* after a NAT mapping changes: a pump drops packets only until it has seen the peer.
PeersConnect ==
    \A pq \in Peers : SameLink(pq[1], pq[2]) ~> (pq \in received)
==============================================================================
