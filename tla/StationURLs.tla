----------------------------- MODULE StationURLs -----------------------------
(***************************************************************************)
(* Station URLs (types/station_url.go) and their rewriting by the relay    *)
(* (relay_integration.go): GetSessionURLs copies the URLs of the host's    *)
(* connection, puts the relay's address and port into the copies and sends *)
(* them to the joiner.                                                     *)
(*                                                                         *)
(* A StationURL is a Go struct with two maps, which assignment shares and  *)
(* Copy does not: the model keeps the maps in a heap.  A URL's text is its *)
(* scheme and two sequences of parameters, standard and custom; Format     *)
(* writes the parameters in any order.  A value is <<"number", n>> or      *)
(* <<"text", s>>.                                                          *)
(***************************************************************************)
EXTENDS Integers, Sequences, Functions, FiniteSets, TLC

CONSTANTS
    Texts,           \* the URLs clients register
    Edits,           \* the setter calls made on the host's URL: name and value
    MaxFields,       \* the parameters that fit the 1024 characters of a URL
    MaxEdits         \* bound: setter calls on the host's URL

VARIABLES
    heap,            \* the maps, by reference
    host,            \* the URL on the host's connection
    ru,              \* the relay's copy
    peer,            \* the variable the joiner reads the URL into
    text,            \* the URL on the wire
    edited,          \* the setter calls made
    phase            \* "register", "copied", "rewritten", "sent", "read"

uvars == <<heap, host, ru, peer, text, edited, phase>>

NoText == [scheme |-> "none", std |-> <<>>, custom |-> <<>>]

Schemes == {"prudp", "prudps", "udp"}

\* The flags of the "type" parameter
BehindNAT(flags) == flags % 2 = 1
Public(flags) == (flags \div 2) % 2 = 1

Digits(n) == <<"number", n>>
Text(s) == <<"text", s>>

\* A host name of more than 256 characters
LongAddress == Text("long")

------------------------------------------------------------------------------
(* Parameters *)

\* The parameters with a typed setter, and the bits of their getter: 0 is text,
\* 1 a Boolean.
NetworkParams ==
    [address |-> 0, port |-> 16, sid |-> 8, stream |-> 8, NodeID |-> 16, PID |-> 64,
     CID |-> 32, RVCID |-> 32, PRID |-> 32]
NATParams ==
    [fastproberesponse |-> 1, natm |-> 8, natf |-> 8, probeinit |-> 1, upnp |-> 1, pmp |-> 1]
RelayParams ==
    [type |-> 8, Rsa |-> 0, Rsp |-> 16, Ra |-> 0, Rp |-> 16, R |-> 1, Pl |-> 8]

TypedParams == NetworkParams @@ NATParams @@ RelayParams

\* numberParamValue: ParseUint with a number of bits
NumberParamValue(params, name, bits) ==
    IF name \in DOMAIN params /\ params[name][1] = "number"
       /\ (bits >= 31 \/ params[name][2] < 2^bits)
    THEN <<params[name][2]>> ELSE <<>>

\* The getter of a typed parameter: <<>> when it is missing or not such a number
Getter(params, name) ==
    CASE TypedParams[name] = 0 -> IF name \in DOMAIN params THEN <<params[name]>> ELSE <<>>
      [] TypedParams[name] = 1 -> <<name \in DOMAIN params /\ params[name] = Digits(1)>>
      [] OTHER -> NumberParamValue(params, name, TypedParams[name])

\* The check on address and port that Parse and Format make
BadParam(name, value) ==
    \/ name = "address" /\ value = LongAddress
    \/ name = "port" /\ (value[1] # "number" \/ value[2] > 65535)

SetIn(params, name, value) ==
    [n \in DOMAIN params \cup {name} |-> IF n = name THEN value ELSE params[n]]

------------------------------------------------------------------------------
(* Parse and Format *)

\* The standard parameters Parse sets: those before the first that is refused
Accepted(fields) ==
    LET bad == {i \in DOMAIN fields : BadParam(fields[i][1], fields[i][2])}
    IN  IF bad = {} THEN fields
        ELSE SubSeq(fields, 1, (CHOOSE i \in bad : \A j \in bad : i <= j) - 1)

\* The parameters set one after the other: of several with a name the last counts
SetAll(params, fields) ==
    LET names == {fields[i][1] : i \in DOMAIN fields}
        Last(name) == CHOOSE i \in DOMAIN fields :
                        /\ fields[i][1] = name
                        /\ \A j \in DOMAIN fields : fields[j][1] = name => j <= i
    IN  [name \in DOMAIN params \cup names |->
            IF name \in names THEN fields[Last(name)][2] ELSE params[name]]

\* Parse of text t by a URL u with the given maps.  A refused parameter ends it: the
\* ones before stay, the flags are not read.
Parsed(u, std, custom, t) ==
    LET known == t.scheme \in Schemes
        fields == Accepted(t.std)
        whole == known /\ fields = t.std /\ (t.std # <<>> \/ t.custom # <<>>)
        flags == NumberParamValue(SetAll(std, fields), "type", 8)
    IN  [type |-> IF known THEN t.scheme ELSE u.type,
         std |-> IF known THEN SetAll(std, fields) ELSE std,
         custom |-> IF whole THEN SetAll(custom, t.custom) ELSE custom,
         flags |-> IF whole /\ flags # <<>> THEN flags[1] ELSE u.flags]

\* A map is written in any order.
Listings(m) ==
    {[i \in DOMAIN o |-> <<o[i], m[o[i]]>>] :
        o \in Bijection(1..Cardinality(DOMAIN m), DOMAIN m)}

\* What Format refuses: a bad parameter, or a text that is too long
Refused(std, custom) ==
    \/ \E name \in DOMAIN std : BadParam(name, std[name])
    \/ Cardinality(DOMAIN std) + Cardinality(DOMAIN custom) > MaxFields

\* The text: an empty standard section before a custom one is read as a parameter
\* without a name.
Written(scheme, std, custom) ==
    [scheme |-> scheme,
     std |-> IF std = <<>> /\ custom # <<>> THEN <<<<"", Text("")>>>> ELSE std,
     custom |-> custom]

\* Mutant: the custom parameters are not written.
FormatsStandard(u) ==
    {[scheme |-> u.type, std |-> s, custom |-> <<>>] : s \in Listings(heap[u.std])}

\* Format, which URL calls on a copy of the struct: the text, or the text the URL
\* already has.
Formats(u) ==
    IF Refused(heap[u.std], heap[u.custom]) THEN {u.text}
    ELSE {Written(u.type, s, c) :
             s \in Listings(heap[u.std]), c \in Listings(heap[u.custom])}

------------------------------------------------------------------------------
(* URLs *)

Empty == [n \in {} |-> Text("")]

\* Mutant: the struct is assigned, and the maps are shared.
CopyAssign(u, t) == <<u, heap>>

\* Copy: NewStationURL of the text.  The new URL and the heap with its maps.
CopyURL(u, t) ==
    LET n == Cardinality(DOMAIN heap)
        p == Parsed([type |-> "none", flags |-> 0], Empty, Empty, t)
    IN  <<[type |-> p.type, text |-> t, flags |-> p.flags, std |-> n + 1, custom |-> n + 2],
          [r \in DOMAIN heap \cup {n + 1, n + 2} |->
              IF r = n + 1 THEN p.std ELSE IF r = n + 2 THEN p.custom ELSE heap[r]]>>

\* SetType also sets the flags; every other setter only its parameter.
SetType(u, flags) == [u EXCEPT !.flags = flags]

UInit ==
    \E t \in Texts, used \in {NoText} \cup Texts :
        LET p == Parsed([type |-> "none", flags |-> 0], Empty, Empty, t)
            q == Parsed([type |-> "none", flags |-> 0], Empty, Empty, used)
        IN  /\ heap = <<p.std, p.custom, q.std, q.custom>>
            /\ host = [type |-> p.type, text |-> t, flags |-> p.flags, std |-> 1, custom |-> 2]
            /\ peer = [type |-> q.type, text |-> used, flags |-> q.flags, std |-> 3, custom |-> 4]
            /\ ru = host
            /\ text = NoText
            /\ edited = {}
            /\ phase = "register"

\* A typed setter, SetParamValue or RemoveParam (value <<>>) on the host's URL
Edit(name, value) ==
    /\ phase = "register"
    /\ Cardinality(edited) < MaxEdits
    /\ heap' = [heap EXCEPT ![host.std] =
                  IF value = <<>> THEN [n \in DOMAIN @ \ {name} |-> @[n]]
                  ELSE SetIn(@, name, value)]
    /\ edited' = edited \cup {<<name, value>>}
    /\ UNCHANGED <<host, ru, peer, text, phase>>

SetURLType(type) ==
    /\ phase = "register" /\ host.type # type
    /\ host' = [host EXCEPT !.type = type]
    /\ UNCHANGED <<heap, ru, peer, text, edited, phase>>

EditType(flags) ==
    /\ phase = "register"
    /\ Cardinality(edited) < MaxEdits
    /\ host' = SetType(host, flags)
    /\ heap' = [heap EXCEPT ![host.std] = SetIn(@, "type", Digits(flags))]
    /\ edited' = edited \cup {<<"SetType", flags>>}
    /\ UNCHANGED <<ru, peer, text, phase>>

\* GetSessionURLs: u.Copy()
CopyHost ==
    /\ phase = "register"
    /\ \E t \in Formats(host) :
         LET c == CopyURL(host, t) IN ru' = c[1] /\ heap' = c[2]
    /\ phase' = "copied"
    /\ UNCHANGED <<host, peer, text, edited>>

\* GetSessionURLs: SetAddress and SetPortNumber with the endpoint of the relay link,
\* when there is one
Rewrite ==
    /\ phase = "copied"
    /\ \/ heap' = [heap EXCEPT ![ru.std] =
                     SetIn(SetIn(@, "address", Text("relay")), "port", Digits(7000))]
       \/ heap' = heap
    /\ phase' = "rewritten"
    /\ UNCHANGED <<host, ru, peer, text, edited>>

\* WriteTo
SendURL ==
    /\ phase = "rewritten"
    /\ text' \in Formats(ru)
    /\ phase' = "sent"
    /\ UNCHANGED <<heap, host, ru, peer, edited>>

\* Mutant: the flags of the variable are kept.
ReadURLKeepFlags ==
    /\ phase = "sent"
    /\ LET p == Parsed(peer, heap[peer.std], heap[peer.custom], text)
       IN  /\ peer' = [peer EXCEPT !.type = p.type, !.text = text]
           /\ heap' = [heap EXCEPT ![peer.std] = p.std, ![peer.custom] = p.custom]
    /\ phase' = "read"
    /\ UNCHANGED <<host, ru, text, edited>>

\* ExtractFrom, or Scan, into a URL that may hold another
ReadURL ==
    /\ phase = "sent"
    /\ LET p == Parsed(peer, heap[peer.std], heap[peer.custom], text)
       IN  /\ peer' = [peer EXCEPT !.type = p.type, !.flags = p.flags, !.text = text]
           /\ heap' = [heap EXCEPT ![peer.std] = p.std, ![peer.custom] = p.custom]
    /\ phase' = "read"
    /\ UNCHANGED <<host, ru, text, edited>>

UNext ==
    \/ \E e \in Edits : Edit(e[1], e[2])
    \/ \E type \in {"none", "prudps"} : SetURLType(type)
    \/ \E flags \in {0, 3} : EditType(flags)
    \/ CopyHost
    \/ Rewrite
    \/ SendURL
    \/ ReadURL

USpec == UInit /\ [][UNext]_uvars

------------------------------------------------------------------------------
(* Properties *)

\* A URL Format can write and Parse can read: its scheme is known, its parameters are
\* accepted and fit, and it has a standard one.
Speakable(u) ==
    /\ u.type \in Schemes
    /\ ~Refused(heap[u.std], heap[u.custom])
    /\ heap[u.std] # Empty \/ heap[u.custom] = Empty

\* Rewriting the copy for one joiner leaves the URL on the host's connection as it is,
\* for the next joiner and for the host's own links.
HostKeepsURL ==
    [][phase # "register" =>
          /\ host' = host
          /\ heap'[host.std] = heap[host.std]
          /\ heap'[host.custom] = heap[host.custom]]_uvars

\* The relay's copy has every parameter of the host but the address and the port, which
\* are the relay's or both the host's.
CopyShows ==
    /\ \A name \in DOMAIN TypedParams \ {"address", "port"} :
          Getter(heap[ru.std], name) = Getter(heap[host.std], name)
    /\ heap[ru.custom] = heap[host.custom]
    /\ \/ \A name \in {"address", "port"} :
             Getter(heap[ru.std], name) = Getter(heap[host.std], name)
       \/ /\ {"address", "port"} \subseteq DOMAIN heap[ru.std]
          /\ heap[ru.std]["address"] = Text("relay") /\ heap[ru.std]["port"] = Digits(7000)

\* The joiner's variable has the parameters of the relay's copy.  IsPublic and IsBehindNAT
\* are those of the "type" parameter it was sent, even if the variable held another URL.
PeerShows ==
    /\ peer.type = host.type
    /\ \A name \in DOMAIN heap[ru.std] \cap DOMAIN TypedParams :
          Getter(heap[peer.std], name) = Getter(heap[ru.std], name)
    /\ LET t == NumberParamValue(heap[ru.std], "type", 8)
       IN  t # <<>> => /\ Public(peer.flags) = Public(t[1])
                       /\ BehindNAT(peer.flags) = BehindNAT(t[1])

\* The joiner reads what the relay wrote: every parameter of the host but the address
\* and the port, which are the relay's or both the host's, and the flags of the type it
\* was sent; without one they are the variable's own from before.
JoinerReads ==
    (phase \in {"sent", "read"} /\ Speakable(host)) =>
        /\ CopyShows
        /\ (phase = "read" /\ Speakable(ru)) => PeerShows
==============================================================================
