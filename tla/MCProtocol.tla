----------------------------- MODULE MCProtocol ------------------------------
(***************************************************************************)
(* The protocol of a session on small instances: the codecs - the NEX      *)
(* types, the remote method calls written with them, the packets that      *)
(* carry those, and station URLs - and what a session rests on: its        *)
(* ticket, its keys and the way of its messages, its unreliable packets    *)
(* and its retransmission timeouts.  The parts share no state; part says   *)
(* which of them a behaviour is about, and the others stay as they are.    *)
(*                                                                         *)
(* For the types and the calls a byte has three bits, so that the type IDs *)
(* of Variant fit one byte, and a two-byte length overflows at 64; packets *)
(* have bytes of eight bits.                                               *)
(***************************************************************************)
EXTENDS RMCMessage, Packets, StationURLs, Sending, Unreliable, Retransmission, Tickets

VARIABLE part

codecVars == <<vars, mvars, pvars, uvars>>
sessionVars == <<svars, nvars, rvars, tvars>>

------------------------------------------------------------------------------
(* Types *)

UsedTypes ==
    <<UInt8, UInt16, UInt32, UInt64, Int8, Int16, Int32, Int64, QResult, DateTime,
      Float, Double, Bool, String, Buffer, QBuffer, QUUID, PID,
      List(UInt16), List(String), List(List(UInt8)), Map(String, UInt16), Variant,
      AnyObjectHolder, Data, ResultRange, RVConnectionData, ClassVersionContainer>>

Letters(n) == [i \in 1..n |-> 1 + (i % 5)]
Dates ==
    {[second |-> 59, minute |-> 59, hour |-> 23, day |-> 31, month |-> 12, year |-> 31],
     [second |-> 0, minute |-> 0, hour |-> 0, day |-> 1, month |-> 1, year |-> 1]}
Versions == {[k \in {} |-> 0], <<1>> :> 3, <<1>> :> 5, (<<1>> :> 3) @@ (<<2, 4>> :> 63)}

RECURSIVE MCSamples(_)
MCSamples(t) ==
    CASE t = DateTime -> {0, 5} \cup {MakeDateTime(d) : d \in Dates}
      [] t.kind = "int" ->
            IF t.signed THEN {-(Limit(t.size) \div 2), -1, (Limit(t.size) \div 2) - 1}
            ELSE {1, Limit(t.size) - 1}
      [] t.kind = "float" -> {1, NaN(t)}
      [] t.kind = "bool" -> BOOLEAN
      [] t.kind = "string" -> {Letters(2), <<1, 0>>, Letters(62), Letters(63), Letters(64)}
      [] t.kind = "bytes" -> {<<0, 0>>, Letters(63), Letters(64)}
      [] t.kind = "quuid" -> {<<>>, Letters(16), [i \in 1..16 |-> i % 8]}
      [] t.kind = "pid" -> {3, Limit(4) - 1, Limit(4)}
      [] t = List(UInt16) -> {<<7>>, <<1, 63>>, <<1, 7>>}
      [] t = List(String) -> {<<<<>>>>, <<<<1>>, <<2, 3>>>>}
      [] t.kind = "list" -> {<<<<>>, <<3>>>>, <<<<1, 2>>>>}
      [] t.kind = "map" -> Versions
      [] t.kind = "variant" ->
            {[id |-> 0, value |-> <<>>], [id |-> 2, value |-> <<9>>],
             [id |-> 2, value |-> <<NaN(Double)>>], [id |-> 3, value |-> <<TRUE>>],
             [id |-> 4, value |-> <<<<5, 1>>>>], [id |-> 6, value |-> <<8>>]}
      [] t.kind = "holder" -> {[id |-> DataObjectID, object |-> <<[version |-> n, f |-> <<>>]>>] : n \in 0..1}
      [] t = Data -> {[version |-> n, f |-> <<>>] : n \in 0..1}
      [] t = ResultRange -> {[version |-> n, f |-> <<6, 3>>] : n \in 0..1}
      [] t = RVConnectionData ->
            {[version |-> 0, f |-> <<<<1, 2>>, <<>>, <<>>, 0>>],
             [version |-> 1, f |-> <<<<3>>, <<4, 2>>, <<1>>, 77>>]}
      [] t = ClassVersionContainer -> {[version |-> 0, f |-> <<m>>] : m \in Versions}

------------------------------------------------------------------------------
(* Calls *)

MCRequests ==
    {[NewRMCMessage EXCEPT !.request = TRUE, !.protocol = p, !.call = 77, !.method = m, !.hpp = h,
        !.parameters = d, !.protocolName = <<p>>, !.methodName = <<2, 1>>, !.versions = v]
       : p \in {1, ExtendedID, RequestBit, 63}, m \in {5, ResponseBit + 3}, h \in BOOLEAN,
         d \in {<<>>, <<1, 0, 7>>},
         v \in {<<>>, <<[version |-> 0, f |-> <<(<<1>> :> 3)>>]>>}}

------------------------------------------------------------------------------
(* Packets *)

Sixteen(b) == [i \in 1..16 |-> b]

Ported(v) == [NewPacket(v) EXCEPT !.srcType = 10, !.srcID = 15, !.dstType = 10, !.dstID = 1]

V0Packets ==
    {[Ported(0) EXCEPT !.type = SYN, !.flags = f, !.connSig = c]
        : f \in {4, 9}, c \in {<<0, 0, 0, 0>>, <<255, 1, 0, 254>>}}
    \cup {[Ported(0) EXCEPT !.type = t, !.flags = f, !.session = 3, !.seq = 513, !.payload = d,
                          !.fragment = IF t = DATA THEN 2 ELSE 0]
            : t \in {DATA, DISCONNECT, PING}, f \in {6, 14}, d \in {<<>>, <<255, 8, 1>>}}
    \cup {[Ported(0) EXCEPT !.type = DATA, !.flags = 520, !.srcType = 8, !.dstType = 8,
                          !.srcID = 0],
          [Ported(0) EXCEPT !.type = DATA, !.flags = 8, !.srcType = 14, !.srcID = 10,
                          !.dstType = 13, !.dstID = 0],
          [Ported(0) EXCEPT !.type = PING, !.flags = 12, !.srcType = 12, !.dstType = 12]}

V1Packets ==
    {[Ported(1) EXCEPT !.type = t, !.flags = f, !.connSig = Sixteen(5), !.minor = 4,
                     !.supported = 300, !.maxSubstream = 1, !.unreliableSeq = 258,
                     !.payload = d]
        : t \in {SYN, CONNECT}, f \in {4, 1}, d \in {<<>>, <<234, 208>>}}
    \cup {[Ported(1) EXCEPT !.type = t, !.flags = f, !.session = 200, !.substream = 1,
                          !.seq = 65535, !.fragment = 2, !.payload = d]
            : t \in {DATA, DISCONNECT}, f \in {6, 512}, d \in {<<>>, <<1, 2>>}}
    \cup {[Ported(1) EXCEPT !.type = PING, !.dstID = 2],
          [Ported(1) EXCEPT !.type = PING, !.srcType = 9]}

LitePackets ==
    {[Ported(2) EXCEPT !.type = t, !.flags = f, !.connSig = Sixteen(5), !.minor = 4,
                     !.supported = 3, !.liteSig = Sixteen(6), !.srcID = 31]
        : t \in {SYN, CONNECT}, f \in {4, 1}}
    \cup {[Ported(2) EXCEPT !.type = t, !.flags = 6, !.seq = 256, !.fragment = 3,
                          !.payload = d, !.srcID = i]
            : t \in {DATA, PING}, d \in {<<>>, <<128, 0>>}, i \in {31, 32}}

MCOutgoing == V0Packets \cup V1Packets \cup LitePackets

------------------------------------------------------------------------------
(* Station URLs *)

MCTexts ==
    {NoText,
     [scheme |-> "prudp", custom |-> <<>>,
      std |-> <<<<"address", Text("console")>>, <<"port", Digits(5000)>>, <<"type", Digits(3)>>>>],
     [scheme |-> "udp", custom |-> <<<<"x", Text("y")>>>>,
      std |-> <<<<"RVCID", Digits(9)>>, <<"port", Digits(65536)>>, <<"type", Digits(2)>>>>],
     [scheme |-> "other", custom |-> <<>>, std |-> <<<<"port", Digits(1)>>>>],
     [scheme |-> "prudps", custom |-> <<<<"x", Text("y")>>>>, std |-> <<<<"type", Digits(256)>>>>]}

MCEdits ==
    {<<"address", LongAddress>>, <<"port", Digits(65535)>>, <<"type", <<>>>>, <<"type", Digits(1)>>,
     <<"RVCID", Digits(9)>>, <<"RVCID", <<>>>>, <<"sid", Text("bad")>>}

------------------------------------------------------------------------------
(* A part that a behaviour is not about is in one of its initial states. *)

TypesIdle ==
    /\ set \in {s \in Settings : s.pid = 4 /\ s.header /\ (part = "calls" \/ s.stringLength = 2)}
    /\ ty = UInt8 /\ val = 1 /\ target = 0 /\ used = 0 /\ data = <<>> /\ step = "idle" /\ ok = TRUE

Chosen(p, idle) == part = p \/ idle

ProtocolInit ==
    /\ part \in {"types", "calls", "packets", "urls", "sending", "unreliable", "timeouts", "tickets"}
    /\ IF part = "types" THEN Init ELSE TypesIdle
    /\ MInit /\ Chosen("calls", ~verbose)
    /\ PInit /\ Chosen("packets", \A o \in DOMAIN server : ~server[o])
    /\ UInit /\ Chosen("urls", host.text = NoText /\ peer.text = NoText)
    /\ SInit /\ Chosen("sending", maxSubstream = 0)
    /\ NInit
    /\ RInit /\ Chosen("timeouts", latency = CHOOSE l \in Latencies : TRUE)
    /\ TInit /\ Chosen("tickets", ticketVersion = 0)

ProtocolNext ==
    /\ UNCHANGED part
    /\ \/ /\ UNCHANGED sessionVars
          /\ \/ part = "types" /\ Next /\ UNCHANGED <<mvars, pvars, uvars>>
             \/ part = "calls" /\ MNext /\ UNCHANGED <<vars, pvars, uvars>>
             \/ part = "packets" /\ PNext /\ UNCHANGED <<vars, mvars, uvars>>
             \/ part = "urls" /\ UNext /\ UNCHANGED <<vars, mvars, pvars>>
       \/ /\ UNCHANGED codecVars
          /\ \/ part = "sending" /\ SNext /\ UNCHANGED <<nvars, rvars, tvars>>
             \/ part = "unreliable" /\ NNext /\ UNCHANGED <<svars, rvars, tvars>>
             \/ part = "timeouts" /\ RNext /\ UNCHANGED <<svars, nvars, tvars>>
             \/ part = "tickets" /\ TNext /\ UNCHANGED <<svars, nvars, rvars>>

ProtocolSpec == ProtocolInit /\ [][ProtocolNext]_<<part, codecVars, sessionVars>>
==============================================================================
