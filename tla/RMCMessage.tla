----------------------------- MODULE RMCMessage ------------------------------
(***************************************************************************)
(* Remote method calls (rmc_message.go): a request travels to the server,  *)
(* which answers it with a success or an error, in the packed or in the    *)
(* verbose form.  The constants of the packed form are bits of a byte:     *)
(* 0x80 is its highest, 0x8000 that of two bytes, so that they scale with  *)
(* the model's Byte.                                                       *)
(***************************************************************************)
EXTENDS NEXTypes

CONSTANT Requests        \* the requests a client may send

VARIABLES
    verbose,             \* Endpoint.UseVerboseRMC
    asked,               \* the request
    wire,                \* the bytes of the message on its way
    heard,               \* the message FromBytes decoded at the other end
    answer,              \* the response
    turn                 \* "idle", "request", "resized", "handled", "response", "done", "refused"

mvars == <<verbose, asked, wire, heard, answer, turn>>

\* 0x80, 0x7F and 0x8000
RequestBit == Byte \div 2
ExtendedID == RequestBit - 1
ResponseBit == Limit(2) \div 2
ErrorMask == Limit(4) \div 2

\* x | bit and x & ^bit
SetBit(x, bit) == IF (x \div bit) % 2 = 1 THEN x ELSE x + bit
ClearBit(x, bit) == IF (x \div bit) % 2 = 1 THEN x - bit ELSE x

NewRMCMessage ==
    [request |-> FALSE, success |-> FALSE, hpp |-> FALSE, protocol |-> 0,
     protocolName |-> <<>>, call |-> 0, method |-> 0, methodName |-> <<>>,
     error |-> 0, versions |-> <<>>, parameters |-> <<>>]

\* NewRMCSuccess and NewRMCError, with the call they answer filled in by the handler
NewRMCSuccess(r, parameters) ==
    [NewRMCMessage EXCEPT !.success = TRUE, !.parameters = parameters,
        !.hpp = r.hpp, !.protocol = r.protocol, !.protocolName = r.protocolName,
        !.method = r.method, !.methodName = r.methodName, !.call = r.call]

\* Mutant: the code is sent as it is given.
NewRMCErrorPlain(r, code) ==
    [NewRMCMessage EXCEPT !.error = code, !.hpp = r.hpp, !.protocol = r.protocol,
        !.protocolName = r.protocolName, !.call = r.call]

NewRMCError(r, code) ==
    [NewRMCMessage EXCEPT !.error = SetBit(code, ErrorMask),
        !.hpp = r.hpp, !.protocol = r.protocol, !.protocolName = r.protocolName,
        !.call = r.call]

------------------------------------------------------------------------------
(* Fields one after the other, without a structure header *)

Fields(ts) == Structure("", FALSE, ts, [i \in DOMAIN ts |-> 0])

WriteAll(ts, vs) == Writes(Fields(ts), [version |-> 0, f |-> vs])

ReadAll(ts, s) == [Extract(Fields(ts), s, Zero(Fields(ts))) EXCEPT !.val = @.f]

\* VersionContainer: nothing when the pointer is nil
ContainerOf(m) == IF m.versions = <<>> THEN Zero(ClassVersionContainer) ELSE m.versions[1]

------------------------------------------------------------------------------
(* The packed form *)

\* Mutant: the extended form starts one protocol ID later.
ProtocolBytesLate(m) ==
    LET flag == IF m.request THEN RequestBit ELSE 0
    IN  IF m.hpp /\ ~m.request THEN <<>>
        ELSE IF m.protocol <= RequestBit THEN WriteInt(m.protocol + flag, 1)
        ELSE WriteInt(ExtendedID + flag, 1) \o WriteInt(m.protocol, 2)

\* The protocol ID, which the response to an HPP request does not have
ProtocolBytes(m) ==
    LET flag == IF m.request THEN RequestBit ELSE 0
    IN  IF m.hpp /\ ~m.request THEN <<>>
        ELSE IF m.protocol < RequestBit THEN WriteInt(m.protocol + flag, 1)
        ELSE WriteInt(ExtendedID + flag, 1) \o WriteInt(m.protocol, 2)

EncodePacked(m) ==
    {ProtocolBytes(m) \o body
     : body \in IF m.request
                THEN {b \o m.parameters : b \in WriteAll(<<UInt32, UInt32>>, <<m.call, m.method>>)}
                ELSE IF m.success
                THEN {b \o m.parameters
                      : b \in WriteAll(<<Bool, UInt32, UInt32>>,
                                       <<TRUE, m.call, SetBit(m.method, ResponseBit)>>)}
                ELSE WriteAll(<<Bool, UInt32, UInt32>>, <<FALSE, m.error, m.call>>)}

Refusal == [ok |-> FALSE, msg |-> NewRMCMessage]

Filled(r, msg) == IF r.ok THEN [ok |-> TRUE, msg |-> msg] ELSE Refusal

\* The rest of a request, of a success and of an error: two integers r, and what follows
PackedRequest(protocol, r) ==
    Filled(r, [NewRMCMessage EXCEPT !.request = TRUE, !.protocol = protocol,
                  !.call = r.val[1], !.method = r.val[2], !.parameters = r.rest])

PackedResponse(protocol, success, r) ==
    Filled(r, IF success
              THEN [NewRMCMessage EXCEPT !.success = TRUE, !.protocol = protocol,
                       !.call = r.val[1], !.method = ClearBit(r.val[2], ResponseBit),
                       !.parameters = r.rest]
              ELSE [NewRMCMessage EXCEPT !.protocol = protocol, !.error = r.val[1],
                                         !.call = r.val[2]])

DecodePacked(s) ==
    LET first == ReadUInt(s, 1)
        id == ClearBit(first.val, RequestBit)
        protocol == IF id = ExtendedID THEN ReadUInt(first.rest, 2)
                    ELSE [first EXCEPT !.val = id]
        status == ReadBool(protocol.rest)
    IN  IF ~first.ok \/ ~protocol.ok THEN Refusal
        ELSE IF first.val >= RequestBit
        THEN PackedRequest(protocol.val, ReadAll(<<UInt32, UInt32>>, protocol.rest))
        ELSE IF ~status.ok THEN Refusal
        ELSE PackedResponse(protocol.val, status.val, ReadAll(<<UInt32, UInt32>>, status.rest))

------------------------------------------------------------------------------
(* The verbose form *)

VerboseRequest == <<String, Bool, UInt32, String, ClassVersionContainer>>
VerboseSuccess == <<String, Bool, Bool, UInt32, String>>
VerboseError == <<String, Bool, Bool, UInt32, UInt32>>

EncodeVerbose(m) ==
    IF m.request
    THEN {b \o m.parameters
          : b \in WriteAll(VerboseRequest,
                           <<m.protocolName, TRUE, m.call, m.methodName, ContainerOf(m)>>)}
    ELSE IF m.success
    THEN {b \o m.parameters
          : b \in WriteAll(VerboseSuccess, <<m.protocolName, FALSE, TRUE, m.call, m.methodName>>)}
    ELSE WriteAll(VerboseError, <<m.protocolName, FALSE, FALSE, m.error, m.call>>)

FilledRequest(r) ==
    Filled(r, [NewRMCMessage EXCEPT !.request = TRUE, !.protocolName = r.val[1],
                  !.call = r.val[3], !.methodName = r.val[4], !.versions = <<r.val[5]>>,
                  !.parameters = r.rest])

FilledSuccess(r) ==
    Filled(r, [NewRMCMessage EXCEPT !.success = TRUE, !.protocolName = r.val[1],
                  !.call = r.val[4], !.methodName = r.val[5], !.parameters = r.rest])

FilledError(r) ==
    Filled(r, [NewRMCMessage EXCEPT !.protocolName = r.val[1], !.error = r.val[4],
                                    !.call = r.val[5]])

\* Whether s is a request is in its head, whether a response is a success in its status.
VerboseResponse(s, status) ==
    IF ~status.ok THEN Refusal
    ELSE IF status.val[3] THEN FilledSuccess(ReadAll(VerboseSuccess, s))
    ELSE FilledError(ReadAll(VerboseError, s))

VerboseMessage(s, head) ==
    IF ~head.ok THEN Refusal
    ELSE IF head.val[2] THEN FilledRequest(ReadAll(VerboseRequest, s))
    ELSE VerboseResponse(s, ReadAll(<<String, Bool, Bool>>, s))

DecodeVerbose(s) == VerboseMessage(s, ReadAll(<<String, Bool>>, s))

------------------------------------------------------------------------------
\* Bytes: the size of the message, then the message
MessageBytes(m) ==
    {WriteInt(Len(b), 4) \o b : b \in IF verbose THEN EncodeVerbose(m) ELSE EncodePacked(m)}

\* Mutant: the size may be smaller than what follows it.
FromBytesLoose(s) ==
    IF Len(s) < 4 \/ ReadUInt(s, 4).val > Len(s) - 4 THEN Refusal
    ELSE IF verbose THEN DecodeVerbose(Read(s, 4).rest) ELSE DecodePacked(Read(s, 4).rest)

FromBytes(s) ==
    IF Len(s) < 4 \/ ReadUInt(s, 4).val # Len(s) - 4 THEN Refusal
    ELSE IF verbose THEN DecodeVerbose(Read(s, 4).rest) ELSE DecodePacked(Read(s, 4).rest)

\* RMCMessage.Copy, which leaves VersionContainer nil
CopyMessage(m) == [m EXCEPT !.versions = <<>>]

MInit ==
    /\ verbose \in BOOLEAN
    /\ asked = NewRMCMessage /\ heard = NewRMCMessage /\ answer = NewRMCMessage
    /\ wire = <<>> /\ turn = "idle"

Ask(m) ==
    /\ turn = "idle"
    /\ asked' = m
    /\ wire' \in MessageBytes(m)
    /\ turn' = "request"
    /\ UNCHANGED <<verbose, heard, answer>>

\* The payload loses its end or gets something after it, as when a fragment of a
\* message is missing or belongs to another.
Resize ==
    /\ turn = "request"
    /\ \/ \E n \in 0..(Len(wire) - 1) : wire' = SubSeq(wire, 1, n)
       \/ wire' = Append(wire, 1)
    /\ turn' = "resized"
    /\ UNCHANGED <<verbose, asked, heard, answer>>

\* The HPP server marks the messages it reads.
HearRequest ==
    /\ turn \in {"request", "resized"}
    /\ \E r \in {FromBytes(wire)} :
           /\ heard' = [r.msg EXCEPT !.hpp = asked.hpp]
           /\ turn' = IF ~r.ok THEN "refused"
                      ELSE IF turn = "resized" THEN "accepted" ELSE "handled"
    /\ UNCHANGED <<verbose, asked, wire, answer>>

\* A handler answers with a success or an error; the packet that carries the answer
\* is copied by sendPacket, and its message with it.
Respond(parameters, code) ==
    /\ turn = "handled"
    /\ answer' \in {CopyMessage(NewRMCSuccess(heard, parameters)),
                    CopyMessage(NewRMCError(heard, code))}
    /\ wire' \in MessageBytes(answer')
    /\ turn' = "response"
    /\ UNCHANGED <<verbose, asked, heard>>

HearResponse ==
    /\ turn = "response"
    /\ ~asked.hpp
    /\ \E r \in {FromBytes(wire)} :
           heard' = r.msg /\ turn' = IF r.ok THEN "done" ELSE "refused response"
    /\ UNCHANGED <<verbose, asked, wire, answer>>

MNext ==
    \/ \E m \in Requests : Ask(m)
    \/ Resize
    \/ HearRequest
    \/ \E parameters \in {<<>>, <<3, 5>>}, code \in {2, ErrorMask + 1} : Respond(parameters, code)
    \/ HearResponse

MSpec == MInit /\ [][MNext]_mvars

------------------------------------------------------------------------------
(* Properties *)

\* The protocol ID 0x7F is written as one byte, which is read as the mark of an ID of
\* two bytes.
Ambiguous(m) == ~verbose /\ m.protocol = ExtendedID

\* What a form carries of a request: IDs in the packed form, names and versions in the
\* verbose one
Heard(m) ==
    IF verbose
    THEN [m EXCEPT !.protocol = 0, !.method = 0, !.versions = <<ContainerOf(m)>>]
    ELSE [m EXCEPT !.protocolName = <<>>, !.methodName = <<>>, !.versions = <<>>]

\* A request that arrives whole is decoded as it was sent, for every protocol ID but 0x7F;
\* one whose payload lost or gained bytes is refused.  The response the client decodes
\* answers its request: the same call of the same method, a success with the handler's
\* parameters or an error whose error bit is set.
CallAnswered ==
    /\ turn = "handled" /\ ~Ambiguous(asked) => heard = Heard(asked)
    /\ turn = "refused" => wire \notin MessageBytes(asked) \/ Ambiguous(asked)
    /\ turn # "accepted"
    /\ turn = "refused response" => Ambiguous(asked)
    /\ (turn = "done" /\ ~Ambiguous(asked)) =>
        /\ heard.call = asked.call
        /\ heard.protocol = (IF verbose THEN 0 ELSE asked.protocol)
        /\ heard.protocolName = (IF verbose THEN asked.protocolName ELSE <<>>)
        /\ heard.success => /\ heard.parameters = answer.parameters
                            /\ verbose => heard.methodName = asked.methodName
                            /\ ~verbose => heard.method = ClearBit(asked.method, ResponseBit)
        /\ ~heard.success => heard.error >= ErrorMask
==============================================================================
