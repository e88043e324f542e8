----------------------------- MODULE Relay_proofs ----------------------------
(***************************************************************************)
(* Proofs about the relay, for any consoles, gatherings and pool of IPs    *)
(* and any number of links and faults: TypeCorrect, RelayedToPeerAlways    *)
(* and BothEndsAgreeAlways; and while the server starts, for any games and *)
(* any pairs of consoles: OneLinkPerPairAlways and LinksHavePoolAlways.    *)
(*                                                                         *)
(* That a packet goes to the console it is meant for depends on what was   *)
(* handed out, stored and read by different goroutines: RelayInv says that *)
(* a pair has one link, that an address handed out is the socket of the    *)
(* console it stands for, that an address stored for a socket's side is    *)
(* that of the side's console, and that a packet in a pump came to the     *)
(* socket of the console it is meant for.                                  *)
(*                                                                         *)
(* That host and joiner agree depends on both handlers taking the same     *)
(* console for the host: AgreeInv says that a console that joined is in no *)
(* other gathering and hosts none, so that gatheringHostForPID finds the   *)
(* host of every gathering a console is in, and that no address a host     *)
(* takes part in was handed out without a link.                            *)
(*                                                                         *)
(* StartupInv has two parts.  Whatever the order of the goroutines, a game *)
(* that is past its check finds a relay manager, and one without hosts is  *)
(* about to get them from a game that is not listening yet.  Until two     *)
(* goroutines found nil, only one of them makes a manager, while there is  *)
(* none, and so all links are with that manager and have its hosts.        *)
(***************************************************************************)
EXTENDS Relay, Startup, WellFoundedInduction, TLAPS

LinkShape ==
    \A l \in links : l.pidA # l.pidB /\ l.pair = {l.pidA, l.pidB}

OneLink == \A k, l \in links : k.pair = l.pair => k = l

\* Side s of the link l is the socket for q, when p and q are its two consoles.
SocketFor(l, s, p, q) == p # q /\ l.pair = {p, q} /\ s = EndpointFor(l, q)

KnownRight ==
    \A p, q \in Pid : known[p][q].via = "relay" =>
        \E l \in links : known[p][q].pair = l.pair /\ SocketFor(l, known[p][q].side, p, q)

\* The console whose source address the link keeps for a side
Owner(l, s) == IF s = "A" THEN l.pidA ELSE l.pidB

AddrRight ==
    \A l \in links, s \in Sides :
        addr[<<l.pair, s>>] # Unseen => addr[<<l.pair, s>>].pid = Owner(l, s)

PumpRight ==
    \A x \in pumping : \E l \in links : x.pair = l.pair /\ SocketFor(l, x.side, x.from, x.meant)

RelayInv == TypeOK /\ LinkShape /\ OneLink /\ KnownRight /\ AddrRight /\ PumpRight

\* The two consoles of a link are its pidA and pidB, in one of the two orders.
LEMMA PairEnds ==
    ASSUME NEW a, NEW b, NEW p, NEW q, p # q, {a, b} = {p, q}
    PROVE  (a = p /\ b = q) \/ (a = q /\ b = p)
<1>1. a \in {p, q} /\ b \in {p, q} /\ p \in {a, b} /\ q \in {a, b}
  OBVIOUS
<1>2. QED
  BY <1>1

\* The socket for q is on q's side, and the packets of p to it come from the other side.
LEMMA SidesRight ==
    ASSUME NEW l, NEW s, NEW p, NEW q, l.pidA # l.pidB, l.pair = {l.pidA, l.pidB},
           SocketFor(l, s, p, q)
    PROVE  s \in Sides /\ Owner(l, s) = q /\ SenderSide(s) \in Sides /\ Owner(l, SenderSide(s)) = p
<1>1. (l.pidA = p /\ l.pidB = q) \/ (l.pidA = q /\ l.pidB = p)
  BY PairEnds DEF SocketFor
<1>2. QED
  BY <1>1 DEF SocketFor, EndpointFor, Owner, SenderSide, Sides

\* The IP that link() takes is one of the pool, or the public host.
LEMMA NextHostType == hostSeq \in Nat => NextHost \in 0..Pool
<1> SUFFICES ASSUME hostSeq \in Nat PROVE NextHost \in 0..Pool
  OBVIOUS
<1>1. Pool \in Nat
  BY RelayAssumption
<1>2. Pool # 0 => hostSeq % Pool \in 0..(Pool - 1)
  BY <1>1
<1>3. QED
  BY <1>1, <1>2 DEF NextHost

\* The relay starts without links.
LEMMA RelayInitInv == Init => RelayInv
<1> SUFFICES ASSUME Init PROVE RelayInv
  OBVIOUS
<1>1. \A p, q \in Pid : known[p][q] = Unknown
  BY DEF Init
<1>2. TypeOK
  <2>1. members \in [DOMAIN Hosts -> SUBSET Pid]
    BY RelayAssumption DEF Init
  <2>2. links = {} /\ pumping = {} /\ received = {}
    BY DEF Init
  <2>3. DOMAIN addr = {l.pair : l \in links} \X Sides /\ DOMAIN addr = {}
    BY DEF Init
  <2>4. nat \in [Pid -> 0..MaxFaults] /\ failures \in 0..MaxFaults /\ rebinds \in 0..MaxFaults
    BY RelayAssumption DEF Init
  <2>5. hostSeq \in Nat
    BY DEF Init
  <2>6. known \in [Pid -> [Pid -> Addresses]]
    BY DEF Init, Addresses
  <2>7. QED
    BY <2>1, <2>2, <2>3, <2>4, <2>5, <2>6 DEF TypeOK
<1>3. QED
  BY <1>1, <1>2
  DEF Init, RelayInv, LinkShape, OneLink, KnownRight, AddrRight, PumpRight, Unknown

\* What the parts of the invariant depend on
LEMMA LinkFrame == LinkShape /\ OneLink /\ UNCHANGED links => LinkShape' /\ OneLink'
BY DEF LinkShape, OneLink

\* The addresses handed out stay right while the links are the same.
LEMMA KnownFrame ==
    ASSUME KnownRight, UNCHANGED links,
           \A x, y \in Pid : known'[x][y].via = "relay" => known'[x][y] = known[x][y]
    PROVE  KnownRight'
<1> SUFFICES ASSUME NEW x \in Pid, NEW y \in Pid, known'[x][y].via = "relay"
             PROVE  \E m \in links' : /\ known'[x][y].pair = m.pair
                                      /\ SocketFor(m, known'[x][y].side, x, y)
  BY Zenon DEF KnownRight, SocketFor, EndpointFor
<1>1. known'[x][y] = known[x][y]
  OBVIOUS
<1>2. QED
  BY <1>1 DEF KnownRight

\* The stored addresses stay right while the links and the consoles' are the same.
LEMMA AddrFrame == AddrRight /\ UNCHANGED <<links, addr>> => AddrRight'
BY DEF AddrRight, Owner

\* The packets in the pumps stay right while the links are the same.
LEMMA PumpFrame ==
    ASSUME PumpRight, UNCHANGED links, pumping' \subseteq pumping
    PROVE  PumpRight'
<1> SUFFICES ASSUME NEW x \in pumping'
             PROVE  \E m \in links : x.pair = m.pair /\ SocketFor(m, x.side, x.from, x.meant)
  BY DEF PumpRight, SocketFor, EndpointFor
<1>1. QED
  BY DEF PumpRight

\* link() and what a handler writes into a station URL keep the invariant, when reader and
\* target are the two consoles the link is asked for.
LEMMA UseLinkInv ==
    ASSUME RelayInv, NEW p \in Pid, NEW q \in Pid, NEW reader \in Pid, NEW target \in Pid,
           p # q, {p, q} = {reader, target}, UseLink(p, q, reader, target),
           UNCHANGED <<members, rebinds, nat, pumping, received>>
    PROVE  RelayInv'
<1> USE DEF RelayInv
<1>n. reader # target /\ Pool \in Nat /\ MaxFaults \in Nat
  BY PairEnds, RelayAssumption
<1>t. TypeOK
  OBVIOUS
<1>a. hostSeq' \in Nat
  BY <1>t DEF UseLink, AdvanceCursor, TypeOK
<1>1. CASE LinkOf(p, q) # {}
  <2> DEFINE l == CHOOSE k \in LinkOf(p, q) : TRUE
  <2>1. l \in links /\ l.pair = {reader, target}
    BY <1>1 DEF LinkOf, PairKey
  <2>2. /\ known' = [known EXCEPT ![reader][target] = RelayAddress(l, target)]
        /\ UNCHANGED <<links, hostSeq, failures, addr>>
    BY <1>1 DEF UseLink
  <2> HIDE DEF l
  <2> DEFINE k == RelayAddress(l, target)
  <2>3. k.via = "relay" /\ k.pair = l.pair /\ SocketFor(l, k.side, reader, target) /\ k \in Addresses
    BY <1>n, <1>t, <2>1, Zenon DEF RelayAddress, SocketFor, EndpointFor, Addresses, TypeOK, Sides
  <2> HIDE DEF k
  <2>4. /\ known' \in [Pid -> [Pid -> Addresses]]
        /\ \A x, y \in Pid : known'[x][y] = IF x = reader /\ y = target THEN k ELSE known[x][y]
    BY <1>t, <2>2, <2>3 DEF TypeOK, k
  <2>5. TypeOK'
    BY <1>t, <2>2, <2>4, Zenon DEF TypeOK, Addresses
  <2>6. KnownRight'
    <3> SUFFICES ASSUME NEW x \in Pid, NEW y \in Pid, known'[x][y].via = "relay"
                 PROVE  \E m \in links' : /\ known'[x][y].pair = m.pair
                                          /\ SocketFor(m, known'[x][y].side, x, y)
      BY Zenon DEF KnownRight, SocketFor, EndpointFor
    <3>1. CASE x = reader /\ y = target
      BY <2>1, <2>2, <2>3, <2>4, <3>1, Zenon
    <3>2. CASE ~(x = reader /\ y = target)
      <4>1. known'[x][y] = known[x][y]
        BY <2>4, <3>2
      <4>2. QED
        BY <2>2, <4>1 DEF KnownRight
    <3>3. QED
      BY <3>1, <3>2
  <2>7. QED
    BY <2>2, <2>5, <2>6, LinkFrame, AddrFrame, PumpFrame
<1>2. CASE LinkOf(p, q) = {} /\ links' # links
  <2> DEFINE l == [pair |-> PairKey(p, q), pidA |-> p, pidB |-> q, host |-> NextHost]
  <2>1. /\ links' = links \cup {l}
        /\ addr' = [s \in DOMAIN addr \cup ({l.pair} \X Sides) |->
                       IF s \in DOMAIN addr THEN addr[s] ELSE Unseen]
        /\ known' = [known EXCEPT ![reader][target] = RelayAddress(l, target)]
        /\ UNCHANGED failures
    BY <1>2 DEF UseLink
  <2>2. l.pair = {p, q} /\ l.pidA = p /\ l.pidB = q /\ l.host \in 0..Pool
    BY <1>t, NextHostType DEF PairKey, TypeOK
  <2>3. l \in [pair : Pairs, pidA : Pid, pidB : Pid, host : 0..Pool]
    <3>1. <<p, q>> \in Peers /\ PairKey(p, q) = PairKey(<<p, q>>[1], <<p, q>>[2])
      BY DEF Peers
    <3>2. PairKey(p, q) \in Pairs
      BY <3>1 DEF Pairs
    <3>3. QED
      BY <2>2, <3>2
  <2> HIDE DEF l
  <2>4. \A m \in links : m.pair # l.pair
    BY <1>2, <2>2 DEF LinkOf, PairKey
  <2> DEFINE k == RelayAddress(l, target)
  <2>5. k.via = "relay" /\ k.pair = l.pair /\ SocketFor(l, k.side, reader, target) /\ k \in Addresses'
    BY <1>n, <2>1, <2>2 DEF RelayAddress, SocketFor, EndpointFor, Addresses, Sides
  <2>6. Addresses \subseteq Addresses'
    BY <2>1 DEF Addresses
  <2> HIDE DEF k
  <2>7. /\ known' \in [Pid -> [Pid -> Addresses']]
        /\ \A x, y \in Pid : known'[x][y] = IF x = reader /\ y = target THEN k ELSE known[x][y]
    BY <1>t, <2>1, <2>5, <2>6 DEF TypeOK, k
  <2>8. /\ DOMAIN addr' = {m.pair : m \in links'} \X Sides
        /\ \A s \in DOMAIN addr' : addr'[s] = IF s \in DOMAIN addr THEN addr[s] ELSE Unseen
    BY <1>t, <2>1 DEF TypeOK
  <2>9. TypeOK'
    BY <1>t, <1>a, <2>1, <2>3, <2>7, <2>8 DEF TypeOK
  <2>10. LinkShape' /\ OneLink'
    BY <2>1, <2>2, <2>4 DEF LinkShape, OneLink
  <2>11. KnownRight'
    <3> SUFFICES ASSUME NEW x \in Pid, NEW y \in Pid, known'[x][y].via = "relay"
                 PROVE  \E m \in links' : /\ known'[x][y].pair = m.pair
                                          /\ SocketFor(m, known'[x][y].side, x, y)
      BY Zenon DEF KnownRight, SocketFor, EndpointFor
    <3>1. CASE x = reader /\ y = target
      BY <2>1, <2>5, <2>7, <3>1
    <3>2. CASE ~(x = reader /\ y = target)
      <4>1. known'[x][y] = known[x][y]
        BY <2>7, <3>2
      <4>2. QED
        BY <2>1, <4>1 DEF KnownRight
    <3>3. QED
      BY <3>1, <3>2
  <2>12. AddrRight'
    <3> SUFFICES ASSUME NEW m \in links', NEW s \in Sides, addr'[<<m.pair, s>>] # Unseen
                 PROVE  addr'[<<m.pair, s>>].pid = Owner(m, s)
      BY DEF AddrRight, Owner
    <3>1. <<m.pair, s>> \in DOMAIN addr' /\ <<m.pair, s>> \in DOMAIN addr
      BY <2>8
    <3>2. m.pair \in {j.pair : j \in links}
      BY <1>t, <3>1 DEF TypeOK
    <3>3. m \in links
      BY <2>1, <2>4, <3>2
    <3>4. QED
      BY <2>8, <3>1, <3>3 DEF AddrRight
  <2>13. PumpRight'
    BY <2>1 DEF PumpRight, SocketFor, EndpointFor
  <2>14. QED
    BY <2>9, <2>10, <2>11, <2>12, <2>13
<1>3. CASE LinkOf(p, q) = {} /\ links' = links
  <2>1. /\ known' = [known EXCEPT ![reader][target] = Direct]
        /\ failures' \in 0..MaxFaults
        /\ UNCHANGED <<links, addr>>
    <3> DEFINE new == [pair |-> PairKey(p, q), pidA |-> p, pidB |-> q, host |-> NextHost]
    <3>1. new.pair = PairKey(p, q)
      OBVIOUS
    <3>2. links' # links \cup {new}
      <4> HIDE DEF new
      <4>1. QED
        BY <1>3, <3>1 DEF LinkOf
    <3>3. QED
      BY <1>3, <1>n, <1>t, <3>2 DEF UseLink, TypeOK
  <2>2. /\ known' \in [Pid -> [Pid -> Addresses]]
        /\ \A x, y \in Pid :
              known'[x][y] = IF x = reader /\ y = target THEN Direct ELSE known[x][y]
    BY <1>t, <2>1 DEF TypeOK, Addresses
  <2>3. TypeOK'
    BY <1>t, <1>a, <2>1, <2>2, Zenon DEF TypeOK, Addresses
  <2>4. KnownRight'
    <3> SUFFICES ASSUME NEW x \in Pid, NEW y \in Pid, known'[x][y].via = "relay"
                 PROVE  \E m \in links' : /\ known'[x][y].pair = m.pair
                                          /\ SocketFor(m, known'[x][y].side, x, y)
      BY Zenon DEF KnownRight, SocketFor, EndpointFor
    <3>1. CASE x = reader /\ y = target
      BY <2>2, <3>1 DEF Direct
    <3>2. CASE ~(x = reader /\ y = target)
      <4>1. known'[x][y] = known[x][y]
        BY <2>2, <3>2
      <4>2. QED
        BY <2>1, <4>1 DEF KnownRight
    <3>3. QED
      BY <3>1, <3>2
  <2>5. QED
    BY <2>1, <2>3, <2>4, LinkFrame, AddrFrame, PumpFrame
<1>4. QED
  BY <1>1, <1>2, <1>3

\* Both handlers, the pumps and the faults keep RelayInv.
LEMMA RelayNextInv == RelayInv /\ [Next]_vars => RelayInv'
<1> SUFFICES ASSUME RelayInv, [Next]_vars PROVE RelayInv'
  OBVIOUS
<1> USE DEF RelayInv
<1>t. TypeOK /\ MaxFaults \in Nat
  BY RelayAssumption
<1>h. \A g \in DOMAIN Hosts : Hosts[g] \in Pid
  BY RelayAssumption
<1>1. ASSUME NEW g \in DOMAIN Hosts, NEW p \in Pid, Join(g, p) PROVE RelayInv'
  <2>1. members' \in [DOMAIN Hosts -> SUBSET Pid]
    BY <1>1, <1>t DEF Join, TypeOK
  <2>2. UNCHANGED <<links, hostSeq, failures, addr, known, rebinds, nat, pumping, received>>
    BY <1>1 DEF Join
  <2>3. TypeOK'
    BY <1>t, <2>1, <2>2 DEF TypeOK, Addresses
  <2>4. QED
    BY <2>2, <2>3, LinkFrame, KnownFrame, AddrFrame, PumpFrame
<1>2. ASSUME NEW g \in DOMAIN Hosts, NEW p \in Pid, GetSessionURLs(g, p) PROVE RelayInv'
  <2> DEFINE host == Hosts[g]
  <2>1. host \in Pid /\ host # p /\ {host, p} = {p, host}
    BY <1>2, <1>h DEF GetSessionURLs
  <2>2. UseLink(host, p, p, host) /\ UNCHANGED <<members, rebinds, nat, pumping, received>>
    BY <1>2 DEF GetSessionURLs
  <2>3. QED
    BY <2>1, <2>2, UseLinkInv
<1>3. ASSUME NEW p \in Pid, NEW q \in Pid, RequestProbeInitiationExt(p, q) PROVE RelayInv'
  <2>1. p # q /\ UNCHANGED <<members, rebinds, nat, pumping, received>>
    BY <1>3 DEF RequestProbeInitiationExt
  <2>2. CASE UseLink(p, q, q, p)
    <3>1. {p, q} = {q, p}
      OBVIOUS
    <3>2. QED
      BY <2>1, <2>2, <3>1, UseLinkInv
  <2>3. CASE /\ known' = [known EXCEPT ![q][p] = Direct]
             /\ UNCHANGED <<links, hostSeq, failures, addr>>
    <3>1. /\ known' \in [Pid -> [Pid -> Addresses]]
          /\ \A x, y \in Pid : known'[x][y] = IF x = q /\ y = p THEN Direct ELSE known[x][y]
      BY <1>t, <2>3 DEF TypeOK, Addresses
    <3>2. TypeOK'
      BY <1>t, <2>1, <2>3, <3>1, Zenon DEF TypeOK, Addresses
    <3>3. \A x, y \in Pid : known'[x][y].via = "relay" => known'[x][y] = known[x][y]
      BY <3>1 DEF Direct
    <3>4. KnownRight'
      BY <2>3, <3>3, KnownFrame
    <3>5. QED
      BY <2>1, <2>3, <3>2, <3>4, LinkFrame, AddrFrame, PumpFrame
  <2>4. QED
    BY <1>3, <2>2, <2>3 DEF RequestProbeInitiationExt
<1>4. ASSUME NEW p \in Pid, NEW q \in Pid, PumpStore(p, q) PROVE RelayInv'
  <2> DEFINE k == known[p][q]
             new == [pair |-> k.pair, side |-> k.side, from |-> p, meant |-> q]
             source == [pid |-> p, nat |-> nat[p]]
  <2>1. PICK l \in links : k.pair = l.pair /\ SocketFor(l, k.side, p, q)
    BY <1>4 DEF PumpStore, KnownRight
  <2>2. /\ k.side \in Sides /\ SenderSide(k.side) \in Sides
        /\ Owner(l, SenderSide(k.side)) = p
    BY <2>1, SidesRight DEF LinkShape
  <2>3. /\ addr' = [addr EXCEPT ![<<l.pair, SenderSide(k.side)>>] = source]
        /\ pumping' = pumping \cup {new}
        /\ UNCHANGED <<members, links, hostSeq, failures, known, rebinds, nat, received>>
    BY <1>4, <2>1 DEF PumpStore
  <2>4. source.pid = p /\ source \in [pid : l.pair, nat : 0..MaxFaults]
    BY <1>t, <2>1 DEF TypeOK, SocketFor
  <2>5. /\ new.pair = l.pair /\ new.side = k.side /\ new.from = p /\ new.meant = q
        /\ new \in [pair : Pairs, side : Sides, from : Pid, meant : Pid]
    BY <1>t, <2>1, <2>2 DEF TypeOK
  <2> HIDE DEF k, new, source
  <2>6. /\ DOMAIN addr' = DOMAIN addr
        /\ \A s \in DOMAIN addr :
              addr'[s] = IF s = <<l.pair, SenderSide(k.side)>> THEN source ELSE addr[s]
    BY <2>3
  <2>7. TypeOK'
    <3>1. \A s \in DOMAIN addr' :
              addr'[s] = Unseen \/ addr'[s] \in [pid : s[1], nat : 0..MaxFaults]
      BY <1>t, <2>4, <2>6 DEF TypeOK
    <3>2. QED
      BY <1>t, <2>3, <2>5, <2>6, <3>1 DEF TypeOK, Addresses
  <2>8. AddrRight'
    <3> SUFFICES ASSUME NEW m \in links, NEW s \in Sides, addr'[<<m.pair, s>>] # Unseen
                 PROVE  addr'[<<m.pair, s>>].pid = Owner(m, s)
      BY <2>3 DEF AddrRight, Owner
    <3>1. <<m.pair, s>> \in DOMAIN addr
      BY <1>t DEF TypeOK
    <3>2. CASE <<m.pair, s>> = <<l.pair, SenderSide(k.side)>>
      <4>1. m = l /\ s = SenderSide(k.side)
        BY <3>2 DEF OneLink
      <4>2. QED
        BY <2>2, <2>4, <2>6, <3>1, <4>1
    <3>3. CASE <<m.pair, s>> # <<l.pair, SenderSide(k.side)>>
      BY <2>6, <3>1, <3>3 DEF AddrRight
    <3>4. QED
      BY <3>2, <3>3
  <2>9. PumpRight'
    <3>1. SocketFor(l, new.side, new.from, new.meant) /\ new.pair = l.pair
      BY <2>1, <2>5 DEF k
    <3>2. \A x \in pumping' : \E m \in links : x.pair = m.pair /\ SocketFor(m, x.side, x.from, x.meant)
      BY <2>3, <3>1 DEF PumpRight
    <3>3. QED
      BY <2>3, <3>2 DEF PumpRight, SocketFor, EndpointFor
  <2>10. QED
    BY <2>3, <2>7, <2>8, <2>9, LinkFrame, KnownFrame
<1>5. ASSUME NEW p \in Pid, Rebind(p) PROVE RelayInv'
  <2>1. UNCHANGED <<members, links, hostSeq, failures, addr, known, pumping>>
    BY <1>5 DEF Rebind
  <2>2. rebinds' \in 0..MaxFaults /\ received' \subseteq Peers
    BY <1>5, <1>t DEF Rebind, TypeOK
  <2>3. nat' \in [Pid -> 0..MaxFaults]
    BY <1>5, <1>t, <2>2 DEF Rebind, TypeOK
  <2>4. TypeOK'
    BY <1>t, <2>1, <2>2, <2>3 DEF TypeOK, Addresses
  <2>5. QED
    BY <2>1, <2>4, LinkFrame, KnownFrame, AddrFrame, PumpFrame
<1>6. ASSUME NEW x \in pumping, PumpForward(x) PROVE RelayInv'
  <2>1. /\ pumping' \subseteq pumping
        /\ UNCHANGED <<members, links, hostSeq, failures, addr, known, rebinds, nat>>
    BY <1>6 DEF PumpForward
  <2>2. received' \subseteq Peers
    <3>1. x.from \in Pid /\ x.meant \in Pid
      BY <1>t DEF TypeOK
    <3>2. PICK l \in links : x.pair = l.pair /\ SocketFor(l, x.side, x.from, x.meant)
      BY DEF PumpRight
    <3>3. x.side \in Sides /\ Owner(l, x.side) = x.meant
      BY <3>2, SidesRight DEF LinkShape
    <3>4. Destination(x) # Unseen => Destination(x).pid = x.meant
      BY <3>2, <3>3 DEF AddrRight, Destination
    <3>5. <<x.from, x.meant>> \in Peers
      BY <3>1, <3>2 DEF Peers, SocketFor
    <3>6. received' \subseteq received \cup {<<x.from, x.meant>>}
      BY <1>6, <3>4 DEF PumpForward
    <3>7. QED
      BY <1>t, <3>5, <3>6, Zenon DEF TypeOK
  <2>3. TypeOK'
    BY <1>t, <2>1, <2>2 DEF TypeOK, Addresses
  <2>4. QED
    BY <2>1, <2>3, LinkFrame, KnownFrame, AddrFrame, PumpFrame
<1>7. CASE UNCHANGED vars
  <2>1. TypeOK'
    BY <1>7, <1>t, Zenon DEF vars, TypeOK, Addresses
  <2>2. QED
    BY <1>7, <2>1, LinkFrame, KnownFrame, AddrFrame, PumpFrame DEF vars
<1>8. QED
  BY <1>1, <1>2, <1>3, <1>4, <1>5, <1>6, <1>7 DEF Next

\* The state of the relay keeps its type; both sockets of a link are there.
THEOREM TypeCorrect == Spec => []TypeOK
<1>1. RelayInv => TypeOK
  BY DEF RelayInv
<1>2. QED
  BY <1>1, RelayInitInv, RelayNextInv, PTL DEF Spec

\* link(), endpointFor, the two pumps and the two handlers: a packet sent to the relay
\* address of a peer goes to an address of that peer.
THEOREM RelayedToPeerAlways == Spec => []RelayedToPeer
<1>1. RelayInv => RelayedToPeer
  <2> SUFFICES ASSUME RelayInv, NEW x \in pumping, Destination(x) # Unseen
               PROVE  Destination(x).pid = x.meant
    BY DEF RelayedToPeer
  <2>1. PICK l \in links : x.pair = l.pair /\ SocketFor(l, x.side, x.from, x.meant)
    BY DEF RelayInv, PumpRight
  <2>2. x.side \in Sides /\ Owner(l, x.side) = x.meant
    BY <2>1, SidesRight DEF RelayInv, LinkShape
  <2>3. QED
    BY <2>1, <2>2 DEF RelayInv, AddrRight, Destination
<1>2. QED
  BY <1>1, RelayInitInv, RelayNextInv, PTL DEF Spec

------------------------------------------------------------------------------
(* Both ends of a link *)

IsHost(p) == \E g \in DOMAIN Hosts : Hosts[g] = p

\* A host is in its gathering; a console that is not the host of its gathering is in no other.
MembersRight ==
    /\ \A g \in DOMAIN Hosts : Hosts[g] \in members[g]
    /\ \A f, g \in DOMAIN Hosts : \A p \in members[g] :
           p # Hosts[g] /\ p \in members[f] => f = g

\* An address handed out names the IP of the link.
KnownHost ==
    \A p, q \in Pid : known[p][q].via = "relay" =>
        \E l \in links : l.pair = known[p][q].pair /\ l.host = known[p][q].host

\* No host is given, or stands behind, an address of its own router.
HostsRelayed == \A p, q \in Pid : known[p][q] = Direct => ~IsHost(p) /\ ~IsHost(q)

AgreeInv == MembersRight /\ KnownHost /\ (failures = 0 => HostsRelayed)

\* A set of gatherings has a newest one.
LEMMA Newest ==
    ASSUME NEW n \in Nat, NEW T \in SUBSET (1..n), T # {}
    PROVE  \E g \in T : \A f \in T : f <= g
<1>0. \A g \in T : g \in Int
  OBVIOUS
<1> DEFINE U == {n - g : g \in T}
           R == OpToRel(<, Nat)
<1>1. U \subseteq Nat /\ U # {}
  <2>1. \A g \in T : n - g \in Nat
    OBVIOUS
  <2>2. QED
    BY <2>1, Zenon
<1>2. IsWellFoundedOn(R, Nat)
  BY NatLessThanWellFounded, Zenon
<1>3. \A x, y \in Nat : y < x => <<y, x>> \in R
  BY DEF OpToRel
<1> HIDE DEF R
<1>4. PICK x \in U : \A y \in U : ~(<<y, x>> \in R)
  BY <1>1, <1>2, WFMin, Zenon
<1>5. PICK g \in T : x = n - g
  BY <1>4
<1>6. ASSUME NEW f \in T PROVE f <= g
  <2>1. n - f \in U /\ n - f \in Nat /\ x \in Nat
    BY <1>1, <1>4
  <2>2. ~(n - f < x)
    BY <1>3, <1>4, <2>1, Zenon
  <2>3. f \in Int /\ g \in Int
    BY <1>0
  <2> HIDE DEF U
  <2>4. QED
    BY <1>5, <2>2, <2>3
<1>7. QED
  BY <1>6

\* gatheringHostForPID finds the host of every gathering the console is in.
LEMMA HostFound ==
    ASSUME MembersRight, TypeOK, NEW g \in DOMAIN Hosts, NEW p \in members[g]
    PROVE  GatheringHostForPID(p) = Hosts[g]
<1> DEFINE in == {f \in DOMAIN members : p \in members[f]}
           newest == CHOOSE f \in in : \A e \in in : e <= f
<1>1. DOMAIN members = DOMAIN Hosts /\ DOMAIN Hosts = 1..Len(Hosts) /\ Len(Hosts) \in Nat
  BY RelayAssumption DEF TypeOK
<1>2. g \in in /\ in \in SUBSET (1..Len(Hosts))
  BY <1>1
<1>3. newest \in in
  <2>1. \E f \in in : \A e \in in : e <= f
    BY <1>1, <1>2, Newest, Zenon
  <2>2. QED
    BY <2>1
<1>4. Hosts[newest] = Hosts[g]
  <2>1. newest \in DOMAIN Hosts /\ p \in members[newest]
    BY <1>1, <1>3
  <2> HIDE DEF newest, in
  <2>2. CASE p # Hosts[g]
    BY <2>1, <2>2 DEF MembersRight
  <2>3. CASE p # Hosts[newest]
    BY <2>1, <2>3 DEF MembersRight
  <2>4. QED
    BY <2>2, <2>3
<1>5. GatheringHostForPID(p) = Hosts[newest]
  BY <1>2 DEF GatheringHostForPID
<1>6. QED
  BY <1>4, <1>5

\* At first nobody knows anybody.
LEMMA AgreeInit == Init => AgreeInv
<1> SUFFICES ASSUME Init PROVE AgreeInv
  OBVIOUS
<1>1. MembersRight
  BY DEF Init, MembersRight
<1>2. \A p, q \in Pid : known[p][q] = Unknown
  BY DEF Init
<1>3. QED
  BY <1>1, <1>2 DEF AgreeInv, KnownHost, HostsRelayed, Unknown, Direct

\* link() gives the IP of the link, and no other address as long as its sockets open.
LEMMA UseLinkAgree ==
    ASSUME RelayInv, AgreeInv, NEW p \in Pid, NEW q \in Pid, NEW reader \in Pid, NEW target \in Pid,
           UseLink(p, q, reader, target), UNCHANGED members
    PROVE  AgreeInv'
<1>1. MembersRight'
  BY DEF AgreeInv, MembersRight
<1>2. known \in [Pid -> [Pid -> Addresses]] /\ failures \in Nat
  BY RelayAssumption DEF RelayInv, TypeOK
<1>3. ASSUME NEW l, known' = [known EXCEPT ![reader][target] = RelayAddress(l, target)],
             l \in links', links \subseteq links', failures' = failures
      PROVE  AgreeInv'
  <2> DEFINE k == RelayAddress(l, target)
  <2>1. k.via = "relay" /\ k.pair = l.pair /\ k.host = l.host
    BY DEF RelayAddress
  <2>2. k # Direct
    BY <2>1 DEF Direct
  <2>3. \A x, y \in Pid : known'[x][y] = IF x = reader /\ y = target THEN k ELSE known[x][y]
    BY <1>2, <1>3
  <2> HIDE DEF k
  <2>4. KnownHost'
    <3> SUFFICES ASSUME NEW x \in Pid, NEW y \in Pid, known'[x][y].via = "relay"
                 PROVE  \E m \in links' : m.pair = known'[x][y].pair /\ m.host = known'[x][y].host
      BY DEF KnownHost
    <3>1. CASE x = reader /\ y = target
      BY <1>3, <2>1, <2>3, <3>1
    <3>2. CASE ~(x = reader /\ y = target)
      <4>1. known'[x][y] = known[x][y]
        BY <2>3, <3>2
      <4>2. QED
        BY <1>3, <4>1 DEF AgreeInv, KnownHost
    <3>3. QED
      BY <3>1, <3>2
  <2>5. failures' = 0 => HostsRelayed'
    BY <1>3, <2>2, <2>3 DEF AgreeInv, HostsRelayed
  <2>6. QED
    BY <1>1, <2>4, <2>5 DEF AgreeInv
<1>4. CASE LinkOf(p, q) # {}
  <2> DEFINE l == CHOOSE k \in LinkOf(p, q) : TRUE
  <2>1. l \in links
    BY <1>4 DEF LinkOf
  <2>2. /\ known' = [known EXCEPT ![reader][target] = RelayAddress(l, target)]
        /\ UNCHANGED <<links, failures>>
    BY <1>4 DEF UseLink
  <2> HIDE DEF l
  <2>3. QED
    BY <1>3, <2>1, <2>2, Zenon
<1>5. CASE LinkOf(p, q) = {} /\ failures' = failures
  <2> DEFINE l == [pair |-> PairKey(p, q), pidA |-> p, pidB |-> q, host |-> NextHost]
  <2>1. /\ links' = links \cup {l}
        /\ known' = [known EXCEPT ![reader][target] = RelayAddress(l, target)]
    BY <1>2, <1>5 DEF UseLink
  <2> HIDE DEF l
  <2>2. QED
    BY <1>3, <1>5, <2>1, Zenon
<1>6. CASE LinkOf(p, q) = {} /\ failures' = failures + 1
  <2>1. known' = [known EXCEPT ![reader][target] = Direct] /\ links' = links
    BY <1>2, <1>6 DEF UseLink
  <2>2. \A x, y \in Pid : known'[x][y] = IF x = reader /\ y = target THEN Direct ELSE known[x][y]
    BY <1>2, <2>1
  <2>3. KnownHost'
    <3> SUFFICES ASSUME NEW x \in Pid, NEW y \in Pid, known'[x][y].via = "relay"
                 PROVE  \E m \in links' : m.pair = known'[x][y].pair /\ m.host = known'[x][y].host
      BY DEF KnownHost
    <3>1. known'[x][y] = known[x][y]
      BY <2>2 DEF Direct
    <3>2. QED
      BY <2>1, <3>1 DEF AgreeInv, KnownHost
  <2>4. failures' # 0
    BY <1>2, <1>6
  <2>5. QED
    BY <1>1, <2>3, <2>4 DEF AgreeInv
<1>7. QED
  BY <1>4, <1>5, <1>6 DEF UseLink

\* Every step keeps what both ends' agreement rests on.
LEMMA AgreeNext == RelayInv /\ AgreeInv /\ [Next]_vars => AgreeInv'
<1> SUFFICES ASSUME RelayInv, AgreeInv, [Next]_vars PROVE AgreeInv'
  OBVIOUS
<1>t. TypeOK /\ \A g \in DOMAIN Hosts : Hosts[g] \in Pid
  BY RelayAssumption DEF RelayInv
<1>k. UNCHANGED <<links, known, failures>> /\ MembersRight' => AgreeInv'
  BY DEF AgreeInv, KnownHost, HostsRelayed
<1>1. ASSUME NEW g \in DOMAIN Hosts, NEW p \in Pid, Join(g, p) PROVE AgreeInv'
  <2>1. /\ \A f \in DOMAIN Hosts : p \notin members[f]
        /\ \A f \in DOMAIN Hosts : members'[f] = IF f = g THEN members[f] \cup {p} ELSE members[f]
    BY <1>1, <1>t, Zenon DEF Join, TypeOK
  <2>2. \A f \in DOMAIN Hosts : Hosts[f] \in members'[f]
    BY <2>1, Zenon DEF AgreeInv, MembersRight
  <2>3. ASSUME NEW f \in DOMAIN Hosts, NEW e \in DOMAIN Hosts, NEW x \in members'[e],
               x # Hosts[e], x \in members'[f]
        PROVE  f = e
    <3>1. CASE x = p
      BY <2>1, <2>3, <3>1, Zenon
    <3>2. CASE x # p
      <4>1. x \in members[e] /\ x \in members[f]
        <5>1. ASSUME NEW d \in DOMAIN Hosts, x \in members'[d] PROVE x \in members[d]
          <6>1. members'[d] = members[d] \/ members'[d] = members[d] \cup {p}
            BY <2>1, Zenon
          <6>2. QED
            BY <3>2, <5>1, <6>1
        <5>2. QED
          BY <2>3, <5>1
      <4>2. QED
        BY <2>3, <4>1 DEF AgreeInv, MembersRight
    <3>3. QED
      BY <3>1, <3>2
  <2>4. MembersRight'
    BY <2>2, <2>3 DEF MembersRight
  <2>5. QED
    BY <1>1, <1>k, <2>4 DEF Join
<1>2. ASSUME NEW g \in DOMAIN Hosts, NEW p \in Pid, GetSessionURLs(g, p) PROVE AgreeInv'
  <2>1. Hosts[g] \in Pid /\ UseLink(Hosts[g], p, p, Hosts[g]) /\ UNCHANGED members
    BY <1>2, <1>t DEF GetSessionURLs
  <2>2. QED
    BY <2>1, UseLinkAgree
<1>3. ASSUME NEW p \in Pid, NEW q \in Pid, RequestProbeInitiationExt(p, q) PROVE AgreeInv'
  <2>1. UNCHANGED members
    BY <1>3 DEF RequestProbeInitiationExt
  <2>2. CASE UseLink(p, q, q, p)
    BY <2>1, <2>2, UseLinkAgree
  <2>3. CASE /\ ~IsHostLink(p, q) /\ known' = [known EXCEPT ![q][p] = Direct]
             /\ UNCHANGED <<links, hostSeq, failures, addr>>
    <3>1. \A x, y \in Pid : known'[x][y] = IF x = q /\ y = p THEN Direct ELSE known[x][y]
      BY <1>t, <2>3 DEF TypeOK
    <3>2. PICK g \in DOMAIN Hosts : p \in members[g] /\ q \in members[g]
      BY <1>3, <1>t DEF RequestProbeInitiationExt, TypeOK
    <3>3. GatheringHostForPID(p) = Hosts[g] /\ Hosts[g] # 0
      BY <1>t, <3>2, HostFound, RelayAssumption DEF AgreeInv
    <3>4. p # Hosts[g] /\ q # Hosts[g]
      BY <2>3, <3>3 DEF IsHostLink
    <3>5. ~IsHost(p) /\ ~IsHost(q)
      BY <3>2, <3>4 DEF AgreeInv, MembersRight, IsHost
    <3>6. MembersRight'
      BY <2>1 DEF AgreeInv, MembersRight
    <3>7. KnownHost'
      <4> SUFFICES ASSUME NEW x \in Pid, NEW y \in Pid, known'[x][y].via = "relay"
                   PROVE  \E m \in links' : m.pair = known'[x][y].pair /\ m.host = known'[x][y].host
        BY DEF KnownHost
      <4>1. known'[x][y] = known[x][y]
        BY <3>1 DEF Direct
      <4>2. QED
        BY <2>3, <4>1 DEF AgreeInv, KnownHost
    <3>8. failures' = 0 => HostsRelayed'
      BY <2>3, <3>1, <3>5 DEF AgreeInv, HostsRelayed
    <3>9. QED
      BY <3>6, <3>7, <3>8 DEF AgreeInv
  <2>4. QED
    BY <1>3, <2>2, <2>3 DEF RequestProbeInitiationExt
<1>4. ASSUME UNCHANGED <<members, links, known, failures>> PROVE AgreeInv'
  <2>1. MembersRight'
    BY <1>4 DEF AgreeInv, MembersRight
  <2>2. QED
    BY <1>4, <1>k, <2>1
<1>5. QED
  BY <1>1, <1>2, <1>3, <1>4, Zenon DEF Next, PumpStore, Rebind, PumpForward, vars

\* relayGetSessionURLs and relayRequestProbeInitiationExt, for any gatherings and pool: a host
\* and a joiner that know of each other have the two ends of one link, as long as the sockets
\* of every link could be opened.
THEOREM BothEndsAgreeAlways == Spec => []BothEndsAgree
<1>1. RelayInv /\ AgreeInv => BothEndsAgree
  <2> SUFFICES ASSUME RelayInv, AgreeInv, failures = 0, NEW g \in DOMAIN Hosts,
                      NEW p \in members[g], p # Hosts[g],
                      known[p][Hosts[g]] # Unknown, known[Hosts[g]][p] # Unknown
               PROVE  SameLink(p, Hosts[g])
    BY DEF BothEndsAgree
  <2> DEFINE h == Hosts[g]
  <2>1. p \in Pid /\ h \in Pid /\ IsHost(h)
    BY RelayAssumption DEF RelayInv, TypeOK, IsHost
  <2>2. ASSUME NEW x \in Pid, NEW y \in Pid, known[x][y] # Unknown, IsHost(x) \/ IsHost(y)
        PROVE  known[x][y].via = "relay"
    <3>1. known[x][y] \in Addresses
      BY DEF RelayInv, TypeOK
    <3>2. known[x][y] # Direct
      BY <2>2 DEF AgreeInv, HostsRelayed
    <3>3. QED
      BY <2>2, <3>1, <3>2 DEF Addresses
  <2>3. known[p][h].via = "relay" /\ known[h][p].via = "relay"
    BY <2>1, <2>2
  <2>4. known[p][h].pair = {p, h} /\ known[h][p].pair = {p, h}
    <3>1. known[p][h].pair = {p, h}
      BY <2>1, <2>3 DEF RelayInv, KnownRight, SocketFor
    <3>2. known[h][p].pair = {h, p}
      BY <2>1, <2>3 DEF RelayInv, KnownRight, SocketFor
    <3>3. QED
      BY <3>1, <3>2
  <2>5. known[p][h].host = known[h][p].host
    BY <2>1, <2>3, <2>4, Zenon DEF RelayInv, AgreeInv, KnownHost, OneLink
  <2>6. QED
    BY <2>3, <2>4, <2>5 DEF SameLink
<1>2. QED
  BY <1>1, RelayInitInv, RelayNextInv, AgreeInit, AgreeNext, PTL DEF Spec

------------------------------------------------------------------------------
(* The start of the server *)

StartupTypeOK ==
    /\ at \in [Servers -> {"starting", "making", "hosts", "listening"}]
    /\ relay \in Nat /\ managers \in Nat
    /\ opened \subseteq [pair : LinkPairs, manager : Nat, pool : BOOLEAN]
    /\ raced \in BOOLEAN

\* In every order of the goroutines
HostsFollow ==
    /\ \A g \in Servers : at[g] \in {"hosts", "listening"} => relay # 0
    /\ relay # 0 => relay \in withHosts \/ \E g \in Servers : at[g] = "hosts"

\* Before two goroutines found nil
OneManager ==
    /\ \A g, h \in Servers : at[g] = "making" /\ at[h] = "making" => g = h
    /\ \A g \in Servers : at[g] = "making" => relay = 0
    /\ \A g \in Servers : at[g] = "listening" => relay \in withHosts
    /\ \A l \in opened : l.manager = relay /\ relay # 0 /\ l.pool = TRUE
    /\ \A k, l \in opened : k.pair = l.pair => k = l

StartupInv ==
    /\ StartupTypeOK
    /\ HostsFollow
    /\ ~raced => OneManager

\* No goroutine has run and there is no relay manager.
LEMMA StartupInitInv == StartupInit => StartupInv
<1> SUFFICES ASSUME StartupInit PROVE StartupInv
  OBVIOUS
<1>1. at \in [Servers -> {"starting", "making", "hosts", "listening"}]
  BY DEF StartupInit
<1>2. relay \in Nat /\ managers \in Nat /\ opened = {} /\ raced \in BOOLEAN
  BY Zenon DEF StartupInit
<1>3. \A g \in Servers : at[g] = "starting"
  BY DEF StartupInit
<1>4. HostsFollow
  BY <1>3 DEF StartupInit, HostsFollow
<1>5. OneManager
  BY <1>2, <1>3 DEF OneManager
<1>6. QED
  BY <1>1, <1>2, <1>4, <1>5 DEF StartupInv, StartupTypeOK

\* Every step of a game's goroutine and every link keep StartupInv.
LEMMA StartupNextInv == StartupInv /\ [StartupNext]_lvars => StartupInv'
<1> SUFFICES ASSUME StartupInv, [StartupNext]_lvars PROVE StartupInv'
  OBVIOUS
<1> USE DEF StartupInv, StartupTypeOK
<1>1. ASSUME NEW g \in Servers, CheckRelay(g) PROVE StartupInv'
  <2>1. StartupTypeOK'
    BY <1>1 DEF CheckRelay, Advance
  <2>2. HostsFollow'
    BY <1>1 DEF CheckRelay, Advance, NeedsRelay, HostsFollow
  <2>3. ASSUME ~raced' PROVE OneManager'
    <3>1. ~raced /\ OneManager
      BY <1>1, <2>3 DEF CheckRelay
    <3>2. \A h \in Servers : at[h] = "making" => relay # 0
      BY <1>1, <2>3, Zenon DEF CheckRelay
    <3>3. QED
      BY <1>1, <3>1, <3>2 DEF CheckRelay, Advance, NeedsRelay, OneManager
  <2>4. QED
    BY <2>1, <2>2, <2>3
<1>2. ASSUME NEW g \in Servers, MakeRelay(g) PROVE StartupInv'
  <2>1. StartupTypeOK'
    BY <1>2 DEF MakeRelay, Advance
  <2>2. HostsFollow'
    <3>1. at'[g] = "hosts" /\ relay' # 0
      BY <1>2 DEF MakeRelay, Advance
    <3>2. QED
      BY <3>1 DEF HostsFollow
  <2>3. ASSUME ~raced' PROVE OneManager'
    <3>1. OneManager /\ relay = 0
      BY <1>2, <2>3 DEF MakeRelay, OneManager
    <3>2. opened = {} /\ \A h \in Servers : at[h] # "listening"
      BY <3>1 DEF OneManager, HostsFollow
    <3>3. \A h \in Servers : at'[h] # "making" /\ at'[h] # "listening"
      BY <1>2, <3>1, <3>2 DEF MakeRelay, Advance, OneManager
    <3>4. QED
      BY <1>2, <3>2, <3>3 DEF MakeRelay, OneManager
  <2>4. QED
    BY <2>1, <2>2, <2>3
<1>3. ASSUME NEW g \in Servers, SetHosts(g) PROVE StartupInv'
  <2>1. StartupTypeOK'
    BY <1>3 DEF SetHosts, Advance
  <2>2. HostsFollow'
    BY <1>3 DEF SetHosts, Advance, HostsFollow
  <2>3. ASSUME ~raced' PROVE OneManager'
    BY <1>3, <2>3 DEF SetHosts, Advance, OneManager
  <2>4. QED
    BY <2>1, <2>2, <2>3
<1>4. ASSUME NEW g \in Servers, NEW pair \in LinkPairs, OpenLink(g, pair) PROVE StartupInv'
  <2> DEFINE new == [pair |-> pair, manager |-> relay, pool |-> relay \in withHosts]
  <2>1. StartupTypeOK'
    <3>1. (relay \in withHosts) \in BOOLEAN
      OBVIOUS
    <3>2. new \in [pair : LinkPairs, manager : Nat, pool : BOOLEAN]
      BY <3>1
    <3>3. opened' = opened \cup {new} /\ UNCHANGED <<at, relay, managers, raced>>
      BY <1>4 DEF OpenLink
    <3> HIDE DEF new
    <3>4. QED
      BY <3>2, <3>3
  <2>2. HostsFollow'
    BY <1>4 DEF OpenLink, HostsFollow
  <2>3. ASSUME ~raced' PROVE OneManager'
    <3>1. OneManager /\ relay # 0 /\ relay \in withHosts
      BY <1>4, <2>3 DEF OpenLink, OneManager, HostsFollow
    <3>2. \A l \in opened : l.pair # pair
      BY <1>4, <3>1 DEF OpenLink, OneManager
    <3>3. new.pair = pair /\ new.manager = relay /\ new.pool = TRUE
      BY <3>1, Zenon
    <3>4. opened' = opened \cup {new}
      BY <1>4 DEF OpenLink
    <3> HIDE DEF new
    <3>5. \A l \in opened' : l.manager = relay /\ l.pool = TRUE
      BY <3>1, <3>3, <3>4 DEF OneManager
    <3>6. \A k, l \in opened' : k.pair = l.pair => k = l
      BY <3>1, <3>2, <3>3, <3>4 DEF OneManager
    <3>7. UNCHANGED <<at, relay, withHosts>>
      BY <1>4 DEF OpenLink
    <3>8. QED
      BY <3>1, <3>5, <3>6, <3>7 DEF OneManager
  <2>4. QED
    BY <2>1, <2>2, <2>3
<1>5. CASE UNCHANGED lvars
  BY <1>5 DEF lvars, HostsFollow, OneManager
<1>6. QED
  BY <1>1, <1>2, <1>3, <1>4, <1>5 DEF StartupNext

\* startSecureServer, for any number of games: a pair of consoles has one link unless
\* two games found the relay nil at the same time.
THEOREM OneLinkPerPairAlways == StartupSpec => []OneLinkPerPair
<1>1. StartupInv => OneLinkPerPair
  BY DEF StartupInv, StartupTypeOK, OneManager, OneLinkPerPair
<1>2. QED
  BY <1>1, StartupInitInv, StartupNextInv, PTL DEF StartupSpec

\* startSecureServer, for any number of games: without that race every link has an IP
\* of the pool, and once every game listens the manager in use has its hosts, with or
\* without a race.
THEOREM LinksHavePoolAlways == StartupSpec => []LinksHavePool
<1>1. StartupInv => LinksHavePool
  <2> SUFFICES ASSUME StartupInv PROVE LinksHavePool
    OBVIOUS
  <2>1. \A l \in opened : l.pool \/ raced
    BY DEF StartupInv, StartupTypeOK, OneManager
  <2>2. (\A g \in Servers : at[g] = "listening") => relay \in withHosts
    BY ServersAssumption DEF StartupInv, HostsFollow
  <2>3. QED
    BY <2>1, <2>2 DEF LinksHavePool
<1>2. QED
  BY <1>1, StartupInitInv, StartupNextInv, PTL DEF StartupSpec
==============================================================================
