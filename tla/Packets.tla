------------------------------- MODULE Packets -------------------------------
(***************************************************************************)
(* The three wire formats of a PRUDP packet (prudp_packet_v0.go,           *)
(* prudp_packet_v1.go, prudp_packet_lite.go) and the way of a datagram     *)
(* into the server: handleSocketMessage picks the format by the first      *)
(* bytes and decodes packets until the data runs out or one fails,         *)
(* processPacket routes each to the endpoint its destination port names.   *)
(*                                                                         *)
(* A format is a layout, a sequence of fields with their widths, and a     *)
(* table of options.  Bytes are real bytes.  A signature is a hash of data *)
(* both ends have: the model keeps the data that is hashed and puts a      *)
(* fixed value in the packet.                                              *)
(***************************************************************************)
EXTENDS Integers, Sequences, SequencesExt, TLC

LOCAL INSTANCE ByteStream WITH Byte <- 256

CONSTANTS
    Outgoing,        \* the packets the two ends may send
    Endpoints,       \* the stream IDs of the endpoints bound by BindPRUDPEndPoint
    AccessKeySum     \* the sum of the bytes of the game's access key

VARIABLES
    server,          \* PRUDPServer: quazal, enhanced, legacy, websocket
    sent,            \* the packets put into the datagram, in order
    signed,          \* what the signature of each was computed from
    datagram,        \* the bytes on the wire
    cut,             \* bytes were lost from its end
    packets,         \* what handleSocketMessage decoded
    routed,          \* what processPacket gave to an endpoint
    stage            \* "sending", "arrived", "decoded" or "routed"

pvars == <<server, sent, signed, datagram, cut, packets, routed, stage>>

SYN == 0
CONNECT == 1
DATA == 2
DISCONNECT == 3
PING == 4

ACK == 1
HAS_SIZE == 8

\* PRUDPPacket.HasFlag, for a flag that is a power of two
HasFlag(p, flag) == (p.flags \div flag) % 2 = 1

\* A packet as the constructors make it: no field set
NewPacket(version) ==
    [version |-> version, srcType |-> 0, srcID |-> 0, dstType |-> 0, dstID |-> 0,
     type |-> 0, flags |-> 0, session |-> 0, substream |-> 0, sig |-> <<>>, seq |-> 0,
     connSig |-> <<>>, fragment |-> 0, payload |-> <<>>, optionsLength |-> 0,
     minor |-> 0, supported |-> 0, maxSubstream |-> 0, unreliableSeq |-> 0,
     liteSig |-> <<>>]

------------------------------------------------------------------------------
(* Fields *)

\* Fields that are byte strings; every other field is an unsigned integer.
Raw == {"magic", "sig", "connSig", "liteSig"}

\* Grow and WriteBytesNext: room for n bytes, zero where nothing is written
GrowAndWrite(s, n) == s \o [i \in 1..(n - Len(s)) |-> 0]

WriteField(r, f) ==
    IF f[1] \in Raw THEN GrowAndWrite(r[f[1]], f[2]) ELSE WriteInt(r[f[1]], f[2])

WriteFields(r, layout) == FlattenSeq([i \in DOMAIN layout |-> WriteField(r, layout[i])])

ReadField(s, f) == IF f[1] \in Raw THEN Read(s, f[2]) ELSE ReadUInt(s, f[2])

\* Read the fields of a layout: a record of them, what remains, and whether there
\* was enough data for all.
ReadFields(s, layout) ==
    FoldLeft(LAMBDA acc, f :
                LET r == ReadField(acc.rest, f)
                IN  IF ~acc.ok \/ ~r.ok THEN [acc EXCEPT !.ok = FALSE]
                    ELSE [ok |-> TRUE, val |-> (f[1] :> r.val) @@ acc.val, rest |-> r.rest],
             [ok |-> TRUE, val |-> [n \in {} |-> 0], rest |-> s], layout)

\* The type and flags field: 4 bits of type, or 3 in Quazal's one byte
TypeBits == [quazal |-> 8, nex |-> 16]

\* The fields of the wire that packets hold in another form
Wire(p, mode) ==
    [source |-> 16 * p.srcType + p.srcID,
     destination |-> 16 * p.dstType + p.dstID,
     streamTypes |-> 16 * p.srcType + p.dstType,
     typeAndFlags |-> p.type + TypeBits[mode] * p.flags,
     payloadLength |-> Len(p.payload),
     functions |-> p.minor + 256 * p.supported,
     one |-> 1] @@ p

\* VirtualPort.StreamType, VirtualPort.StreamID and their inverses, for the fields
\* a header has
Unwire(h, mode) ==
    LET ports == IF "source" \in DOMAIN h
                 THEN [srcType |-> h.source \div 16, srcID |-> h.source % 16,
                       dstType |-> h.destination \div 16, dstID |-> h.destination % 16]
                 ELSE [srcType |-> h.streamTypes \div 16,
                       dstType |-> h.streamTypes % 16]
    IN  [type |-> h.typeAndFlags % TypeBits[mode],
         flags |-> h.typeAndFlags \div TypeBits[mode]] @@ ports @@ h

\* Set the fields of packet p that r has
With(p, r) == [n \in DOMAIN p |-> IF n \in DOMAIN r THEN r[n] ELSE p[n]]

Failure(s) == [ok |-> FALSE, packet |-> <<>>, rest |-> s]

------------------------------------------------------------------------------
(* Options *)

\* The options a packet is written with: ID, size, field
V1Options(p) ==
    CASE p.type = SYN -> <<<<0, 4, "functions">>, <<1, 16, "connSig">>, <<4, 1, "maxSubstream">>>>
      [] p.type = CONNECT -> <<<<0, 4, "functions">>, <<1, 16, "connSig">>,
                               <<3, 2, "unreliableSeq">>, <<4, 1, "maxSubstream">>>>
      [] p.type = DATA -> <<<<2, 1, "fragment">>>>
      [] OTHER -> <<>>

LiteOptions(p) ==
    CASE p.type = SYN /\ HasFlag(p, ACK) -> <<<<0, 4, "functions">>, <<1, 16, "connSig">>>>
      [] p.type = SYN -> <<<<0, 4, "functions">>>>
      [] p.type = CONNECT /\ ~HasFlag(p, ACK) -> <<<<0, 4, "functions">>, <<1, 16, "liteSig">>>>
      [] p.type = CONNECT -> <<<<0, 4, "functions">>>>
      [] OTHER -> <<>>

EncodeOptions(p, options) ==
    FlattenSeq([i \in DOMAIN options |->
        WriteInt(options[i][1], 1) \o WriteInt(options[i][2], 1)
        \o WriteField(Wire(p, "nex"), <<options[i][3], options[i][2]>>)])

\* The field that option id sets in a packet, and the size it is read with: the
\* size in the option counts for the two signatures of the lite format only.
KnownOption(p, id, size) ==
    LET lite == p.version = 2
        handshake == p.type \in {SYN, CONNECT}
    IN  CASE handshake /\ id = 0 -> <<"functions", 4>>
          [] handshake /\ id = 1 -> <<"connSig", IF lite THEN size ELSE 16>>
          [] handshake /\ id = 4 -> <<"maxSubstream", 1>>
          [] p.type = CONNECT /\ id = 3 -> <<"unreliableSeq", 2>>
          [] p.type = DATA /\ id = 2 -> <<"fragment", 1>>
          [] lite /\ p.type = CONNECT /\ ~HasFlag(p, ACK) /\ id = 128 -> <<"liteSig", size>>
          [] OTHER -> <<"none", 0>>

\* Mutant: SupportedFunctions keeps the byte of the minor version.
SetOptionUnshifted(p, name, v) ==
    IF name = "functions" THEN With(p, [minor |-> v % 256, supported |-> v])
    ELSE With(p, (name :> v))

SetOption(p, name, v) ==
    IF name = "functions" THEN With(p, [minor |-> v % 256, supported |-> v \div 256])
    ELSE With(p, (name :> v))

\* The loop of decodeOptions.  An option that is not known has no body for it: what
\* follows its size is read as the next option.
RECURSIVE DecodeOptions(_, _)
DecodeOptions(p, s) ==
    IF s = <<>> THEN [ok |-> TRUE, packet |-> p]
    ELSE LET head == ReadFields(s, <<<<"id", 1>>, <<"size", 1>>>>)
             known == KnownOption(p, head.val.id, head.val.size)
             body == ReadField(head.rest, known)
         IN  IF ~head.ok \/ ~body.ok THEN [ok |-> FALSE, packet |-> p]
             ELSE DecodeOptions(SetOption(p, known[1], body.val), body.rest)

\* Mutant: the payload is what there is of it.
DecodeTailShort(p, h, s) ==
    LET opts == Read(s, h.optionsLength)
        decoded == DecodeOptions(p, opts.val)
        body == ReadShort(opts.rest, h.payloadLength)
    IN  IF ~opts.ok \/ ~decoded.ok THEN Failure(s)
        ELSE [ok |-> TRUE, packet |-> With(decoded.packet, [payload |-> body.val]),
              rest |-> body.rest]

\* The options and the payload, which both newer formats end with
DecodeTail(p, h, s) ==
    LET opts == Read(s, h.optionsLength)
        decoded == DecodeOptions(p, opts.val)
        body == Read(opts.rest, h.payloadLength)
    IN  IF ~opts.ok \/ ~decoded.ok \/ ~body.ok THEN Failure(s)
        ELSE [ok |-> TRUE, packet |-> With(decoded.packet, [payload |-> body.val]),
              rest |-> body.rest]

------------------------------------------------------------------------------
(* Version 0 *)

Mode == IF server.quazal THEN "quazal" ELSE "nex"

V0Header == <<<<"source", 1>>, <<"destination", 1>>,
              <<"typeAndFlags", IF server.quazal THEN 1 ELSE 2>>,
              <<"session", 1>>, <<"sig", 4>>, <<"seq", 2>>>>

\* The fields between the header and the payload
V0Fields(p) ==
    (IF p.type \in {SYN, CONNECT} THEN <<<<"connSig", 4>>>> ELSE <<>>)
    \o (IF p.type = DATA THEN <<<<"fragment", 1>>>> ELSE <<>>)
    \o (IF HasFlag(p, HAS_SIZE) THEN <<<<"payloadLength", 2>>>> ELSE <<>>)

ChecksumSize == IF server.enhanced THEN 4 ELSE 1

\* The sum of a sequence of little-endian words and of start, modulo 2^32, as bytes
WordSum(data, start) ==
    LET column(i) == FoldLeft(LAMBDA n, j : n + data[j], 0,
                              SelectSeq([j \in DOMAIN data |-> j], LAMBDA j : j % 4 = i % 4))
        total[i \in 0..4] == IF i = 0 THEN 256 * start
                             ELSE column(i) + total[i - 1] \div 256
    IN  [i \in 1..4 |-> total[i] % 256]

SumBytes(s) == FoldLeft(LAMBDA n, b : n + b, 0, s)

\* defaultPRUDPv0CalculateChecksum
Checksum(data) ==
    LET whole == Len(data) - (Len(data) % 4)
    IN  IF server.enhanced
        THEN WordSum(data, AccessKeySum % 256)
        ELSE <<(AccessKeySum + SumBytes(SubSeq(data, whole + 1, Len(data)))
                + SumBytes(WordSum(SubSeq(data, 1, whole), 0))) % 256>>

V0Bytes(p) ==
    LET data == WriteFields(Wire(p, Mode), V0Header \o V0Fields(p)) \o p.payload
    IN  data \o Checksum(data)

\* The payload and the checksum of packet p.  Without HAS_SIZE the payload is the rest
\* of the datagram; when there is no room for the checksum the size wraps around and is
\* refused.
V0Tail(s, p, more) ==
    LET size == IF HasFlag(p, HAS_SIZE) THEN more.val.payloadLength
                ELSE (Len(more.rest) - ChecksumSize) % 65536
        body == Read(more.rest, size)
        check == Read(body.rest, ChecksumSize)
        data == SubSeq(s, 1, Len(s) - Len(body.rest))
    IN  IF ~more.ok \/ ~body.ok \/ ~check.ok \/ check.val # Checksum(data) THEN Failure(s)
        ELSE [ok |-> TRUE, packet |-> With(With(p, more.val), [payload |-> body.val]),
              rest |-> check.rest]

\* The fields after the header, which depend on it
V0Body(s, head) ==
    LET p == With(NewPacket(0), Unwire(head.val, Mode))
    IN  V0Tail(s, p, ReadFields(head.rest, V0Fields(p)))

\* PRUDPPacketV0.decode
V0Decode(s) == IF Len(s) < 12 THEN Failure(s) ELSE V0Body(s, ReadFields(s, V0Header))

\* defaultPRUDPv0CalculateSignature and its data signature: what is hashed, or the
\* connection signature that stands in its place
V0Signed(p, key, conn) ==
    IF ~server.legacy /\ p.type \in {DATA, DISCONNECT}
    THEN <<"data", key, p.seq, p.fragment, p.payload>>
    ELSE <<"connection", conn>>

------------------------------------------------------------------------------
(* Version 1 *)

V1Magic == <<234, 208>>

V1Header == <<<<"one", 1>>, <<"optionsLength", 1>>, <<"payloadLength", 2>>,
              <<"source", 1>>, <<"destination", 1>>, <<"typeAndFlags", 2>>,
              <<"session", 1>>, <<"substream", 1>>, <<"seq", 2>>>>

\* Bytes sets optionsLength before it encodes the header.
V1Bytes(p) ==
    LET options == EncodeOptions(p, V1Options(p))
    IN  V1Magic
        \o WriteFields(Wire([p EXCEPT !.optionsLength = Len(options)], "nex"), V1Header)
        \o p.sig \o options \o p.payload

V1Decode(s) ==
    LET head == ReadFields(s, <<<<"magic", 2>>>> \o V1Header \o <<<<"sig", 16>>>>)
    IN  IF ~head.ok \/ head.val.magic # V1Magic \/ head.val.one # 1 THEN Failure(s)
        ELSE DecodeTail(With(NewPacket(1), Unwire(head.val, "nex")), head.val, head.rest)

\* Mutant: the whole header is signed.
V1SignedWhole(p, key, conn) ==
    <<WriteFields(Wire(p, "nex"), V1Header), key, conn, EncodeOptions(p, V1Options(p)), p.payload>>

\* defaultPRUDPv1CalculateSignature.  The lengths, which Bytes sets after the packet
\* is signed, are not part of it.
V1Signed(p, key, conn) ==
    <<SubSeq(WriteFields(Wire(p, "nex"), V1Header), 5, 12), key,
      IF p.type = CONNECT /\ server.legacy THEN <<>> ELSE conn,
      EncodeOptions(p, V1Options(p)), p.payload>>

------------------------------------------------------------------------------
(* Lite *)

LiteMagic == <<128>>

LiteHeader == <<<<"magic", 1>>, <<"optionsLength", 1>>, <<"payloadLength", 2>>,
                <<"streamTypes", 1>>, <<"srcID", 1>>, <<"dstID", 1>>, <<"fragment", 1>>,
                <<"typeAndFlags", 2>>, <<"seq", 2>>>>

LiteBytes(p) ==
    LET options == EncodeOptions(p, LiteOptions(p))
    IN  WriteFields([magic |-> LiteMagic, optionsLength |-> Len(options)] @@ Wire(p, "nex"),
                    LiteHeader)
        \o options \o p.payload

LiteDecode(s) ==
    LET head == ReadFields(s, LiteHeader)
    IN  IF ~head.ok \/ head.val.magic # LiteMagic THEN Failure(s)
        ELSE DecodeTail(With(NewPacket(2), Unwire(head.val, "nex")), head.val, head.rest)

------------------------------------------------------------------------------
(* Packets of any version *)

Bytes(p) == CASE p.version = 0 -> V0Bytes(p)
              [] p.version = 1 -> V1Bytes(p)
              [] p.version = 2 -> LiteBytes(p)

Decode(version, s) == CASE version = 0 -> V0Decode(s)
                        [] version = 1 -> V1Decode(s)
                        [] version = 2 -> LiteDecode(s)

\* Copy: every field but the signature of a lite CONNECT
CopyPacket(p) == [p EXCEPT !.liteSig = <<>>]

\* The session key and the connection signature of the connection, the same at both
\* ends; a signature of the format's length
SessionKey == <<"session key">>
ConnectionSignature == <<"connection signature">>
SignatureOf(p) == CASE p.version = 0 -> [i \in 1..4 |-> 7]
                    [] p.version = 1 -> [i \in 1..16 |-> 7]
                    [] p.version = 2 -> <<>>

\* CalculateSignature, as the data the signature is computed from
SignedData(p) == CASE p.version = 0 -> V0Signed(p, SessionKey, ConnectionSignature)
               [] p.version = 1 -> V1Signed(p, SessionKey, ConnectionSignature)
               [] p.version = 2 -> <<>>

\* NewPRUDPPacketsV0, NewPRUDPPacketsV1, NewPRUDPPacketsLite: the packets before the
\* first that fails
RECURSIVE DecodeAll(_, _)
DecodeAll(version, s) ==
    LET Rest(r) == IF r.ok THEN <<r.packet>> \o DecodeAll(version, r.rest) ELSE <<>>
    IN  IF s = <<>> THEN <<>> ELSE Rest(Decode(version, s))

\* The format handleSocketMessage reads a datagram with
Format(s) ==
    IF server.websocket /\ SubSeq(s, 1, 1) = LiteMagic THEN 2
    ELSE IF SubSeq(s, 1, 2) = V1Magic THEN 1
    ELSE 0

StreamTypeRelay == 11

\* The conditions under which PRUDPServer.processPacket gives a packet to an endpoint
Routable(p) ==
    /\ p.dstID \in Endpoints
    /\ p.dstType = p.srcType
    /\ p.dstType <= StreamTypeRelay
    /\ p.srcID <= IF p.version = 2 THEN 31 ELSE 15

------------------------------------------------------------------------------
Servers == [quazal : BOOLEAN, enhanced : BOOLEAN, legacy : BOOLEAN, websocket : BOOLEAN]

PInit ==
    /\ server \in {s \in Servers : s.quazal <=> s.enhanced}
    /\ sent = <<>> /\ signed = <<>> /\ datagram = <<>> /\ cut = FALSE
    /\ packets = <<>> /\ routed = <<>> /\ stage = "sending"

\* The formats a server is spoken to in: lite over WebSockets; Quazal's games use
\* version 0, whose one byte of type and flags has room for five flags.
Spoken(p) ==
    /\ p.version = 2 <=> server.websocket
    /\ server.quazal => p.version = 0 /\ p.flags < 32

\* The datagrams of more than one packet are of packets of one format.
MaxPackets == 2

\* sendPacket: a copy is signed and encoded.
Send(p) ==
    /\ stage = "sending"
    /\ Len(sent) < MaxPackets
    /\ Spoken(p) /\ (sent # <<>> => sent[1].version = p.version)
    /\ LET q == CopyPacket(p)
           s == [q EXCEPT !.sig = SignatureOf(q)]
       IN  /\ sent' = Append(sent, [p EXCEPT !.sig = SignatureOf(p)])
           /\ signed' = Append(signed, SignedData(q))
           /\ datagram' = datagram \o Bytes(s)
    /\ UNCHANGED <<server, cut, packets, routed, stage>>

Arrive ==
    /\ stage = "sending" /\ sent # <<>>
    /\ stage' = "arrived"
    /\ UNCHANGED <<server, sent, signed, datagram, cut, packets, routed>>

\* A datagram longer than the buffer of listenDatagram, or than the sender's limit,
\* arrives without its end.
ArriveCut ==
    /\ stage = "sending" /\ sent # <<>>
    /\ \E n \in 0..(Len(datagram) - 1) : datagram' = SubSeq(datagram, 1, n)
    /\ cut' = TRUE
    /\ stage' = "arrived"
    /\ UNCHANGED <<server, sent, signed, packets, routed>>

HandleSocketMessage ==
    /\ stage = "arrived"
    /\ packets' = IF Len(datagram) < 2 THEN <<>> ELSE DecodeAll(Format(datagram), datagram)
    /\ stage' = "decoded"
    /\ UNCHANGED <<server, sent, signed, datagram, cut, routed>>

ProcessPacket ==
    /\ stage = "decoded"
    /\ routed' = SelectSeq(packets, Routable)
    /\ stage' = "routed"
    /\ UNCHANGED <<server, sent, signed, datagram, cut, packets>>

PNext ==
    \/ \E p \in Outgoing : Send(p)
    \/ Arrive
    \/ ArriveCut
    \/ HandleSocketMessage
    \/ ProcessPacket

PSpec == PInit /\ [][PNext]_pvars

------------------------------------------------------------------------------
(* Properties *)

\* The fields a packet carries on the wire, by version and type
Carried(p) ==
    {"version", "srcType", "srcID", "dstType", "dstID", "type", "flags", "seq", "payload"}
    \cup (IF p.version = 2 THEN {"fragment"} ELSE {"session", "sig"})
    \cup (IF p.version = 1 THEN {"substream"} ELSE {})
    \cup (IF p.type = DATA THEN {"fragment"} ELSE {})
    \cup (IF p.type \in {SYN, CONNECT} /\ p.version # 2 THEN {"connSig"} ELSE {})
    \cup (IF p.type \in {SYN, CONNECT} /\ p.version # 0 THEN {"minor", "supported"} ELSE {})
    \cup (IF p.type \in {SYN, CONNECT} /\ p.version = 1 THEN {"maxSubstream"} ELSE {})
    \cup (IF p.type = CONNECT /\ p.version = 1 THEN {"unreliableSeq"} ELSE {})
    \cup (IF p.type = SYN /\ p.version = 2 /\ HasFlag(p, ACK) THEN {"connSig"} ELSE {})

Same(p, q) == \A f \in Carried(p) : p[f] = q[f]

\* A version 0 packet without HAS_SIZE takes the rest of the datagram.
Delimited(p) == p.version # 0 \/ HasFlag(p, HAS_SIZE)

\* The datagram can be taken apart: each packet but the last says how long it is, and
\* the ports of a version 0 packet are not the bytes of another format's magic.
Readable ==
    /\ \A i \in 1..(Len(sent) - 1) : Delimited(sent[i])
    /\ Format(datagram) = sent[1].version

\* Every packet of a datagram that arrives whole is decoded, in order, with every
\* field its format carries as the sender set it, provided the datagram can be taken
\* apart at all; and no packet to an endpoint of the server is read in the wrong format
\* and lost.  A datagram that lost its end gives the packets that are still whole and
\* none of the rest, when its packets say how long they are.
DatagramRead ==
    /\ (stage = "decoded" /\ ~cut /\ Readable) =>
          /\ Len(packets) = Len(sent)
          /\ \A i \in DOMAIN sent : Same(sent[i], packets[i])
    /\ (stage = "routed" /\ ~cut /\ Len(sent) = 1 /\ Routable(sent[1])) => Len(routed) = 1
    /\ (stage = "decoded" /\ cut /\ \A i \in DOMAIN sent : Delimited(sent[i])) =>
          /\ Len(packets) < Len(sent)
          /\ \A i \in DOMAIN packets : Same(sent[i], packets[i])

\* A receiver computes a packet's signature from the same data as its sender, though
\* the sender signs before the packet has its lengths and the receiver after.
SignatureAgrees ==
    (stage = "decoded" /\ ~cut /\ Readable) =>
        \A i \in DOMAIN sent : SignedData(packets[i]) = signed[i]
==============================================================================
