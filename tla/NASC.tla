-------------------------------- MODULE NASC ---------------------------------
(***************************************************************************)
(* NASC (nasc.go): a console asks where the server of its game is and gets *)
(* a token.  handleAC answers for the games of this server and passes the  *)
(* rest on to Pretendo's NASC, for which the network's resolver may name   *)
(* this very process.  Every request runs in a goroutine of its own.       *)
(* Pretendo, DNS and the network are the environment.                      *)
(***************************************************************************)
EXTENDS Naturals, Sequences, FiniteSets

CONSTANTS
    Games,           \* the games of this server
    OtherGames,      \* games of Pretendo
    Users,           \* user IDs
    Upstreams,       \* lists of addresses DNS may give for nasc.pretendo.cc
    MaxACs           \* bound: requests, those this process sends itself included

ASSUME NASCAssumption ==
    /\ Games \cap OtherGames = {} /\ MaxACs \in Nat
    /\ \A ips \in Upstreams : ips \in Seq({ips[i] : i \in DOMAIN ips})

Self == "self"       \* the address of this process
Actions == {"LOGIN", "SVCLOC", "other"}

VARIABLES
    publicHost,      \* FFE_PUBLIC_HOST: the address of this process, or another one
    issuedTokens,    \* token -> user ID
    acs,             \* requests, and how far each is
    pooled,          \* addresses the transport has an idle connection to
    acCount          \* requests so far

avars == <<publicHost, issuedTokens, acs, pooled, acCount>>

NASCInit ==
    /\ publicHost \in {Self, "elsewhere"}
    /\ issuedTokens = [t \in {} |-> ""]
    /\ acs = {}
    /\ pooled = {}
    /\ acCount = 0

Replace(a, b) == acs' = (acs \ {a}) \cup {b}

\* A request: what it asks, the request of this process that it is sent for (0: none),
\* where its handler is, the addresses DNS gave, those left to dial, those that refused
\* and the one that took it, its token and the answer
NewAC(game, action, user, sentFor) ==
    [id |-> acCount + 1, game |-> game, action |-> action, user |-> user,
     sentFor |-> sentFor, at |-> "start", ips |-> <<>>, rest |-> <<>>, refused |-> {},
     via |-> "", token |-> 0, answer |-> "none"]

Finish(a, answer) == Replace(a, [a EXCEPT !.at = "done", !.answer = answer])

\* A console sends a request.
Arrive(game, action, user) ==
    /\ acCount < MaxACs
    /\ acCount' = acCount + 1
    /\ acs' = acs \cup {NewAC(game, action, user, 0)}
    /\ UNCHANGED <<publicHost, issuedTokens, pooled>>

\* handleAC up to the switch: a body that cannot be read or parsed is answered with
\* nascError; the token of a LOGIN is made, or there are no random bytes.
HandleAC(a) ==
    /\ a.at = "start"
    /\ \/ Finish(a, "null")
       \/ /\ a.game \notin Games
          /\ \E ips \in Upstreams : Replace(a, [a EXCEPT !.at = "dial", !.ips = ips,
                                                      !.rest = ips])
       \/ /\ a.game \in Games
          /\ \/ /\ a.action = "LOGIN"
                /\ \/ Replace(a, [a EXCEPT !.at = "store", !.token = a.id])
                   \/ Finish(a, "110")
             \/ a.action = "SVCLOC" /\ Finish(a, "110")
             \/ a.action = "other" /\ Finish(a, "null")
    /\ UNCHANGED <<publicHost, issuedTokens, pooled, acCount>>

\* gameLogin under tokenMu
StoreToken(a) ==
    /\ a.at = "store"
    /\ issuedTokens' = [t \in DOMAIN issuedTokens \cup {a.token} |->
                           IF t = a.token THEN a.user ELSE issuedTokens[t]]
    /\ Replace(a, [a EXCEPT !.at = "answer"])
    /\ UNCHANGED <<publicHost, pooled, acCount>>

\* writeRawOrdered of gameLogin's values
AnswerLogin(a) ==
    /\ a.at = "answer"
    /\ Finish(a, "001")
    /\ UNCHANGED <<publicHost, issuedTokens, pooled, acCount>>

\* Mutant: every address is dialed.
SkipsNone(ip) == FALSE

\* "never dial ourselves"
Skips(ip) == ip = publicHost

\* DialContext goes on with the other addresses.
AfterRefusal(rest) == rest

\* The request goes to an address.  One that this process sends itself arrives as
\* another request, whose answer is passed back.
SendTo(a, ip) ==
    \/ /\ ip # Self
       /\ Replace(a, [a EXCEPT !.at = "upstream", !.via = ip])
       /\ UNCHANGED acCount
    \/ /\ ip = Self /\ acCount < MaxACs
       /\ acCount' = acCount + 1
       /\ acs' = (acs \ {a}) \cup {[a EXCEPT !.at = "looped", !.via = ip],
                                   NewAC(a.game, a.action, a.user, a.id)}

\* The transport uses a connection it has kept instead of dialing.
Reuse(a) ==
    /\ a.at = "dial" /\ a.rest = a.ips
    /\ \E ip \in pooled : SendTo(a, ip)
    /\ UNCHANGED <<publicHost, issuedTokens, pooled>>

\* A round of the loop of DialContext: the next address is skipped, refuses, or takes
\* the request.
Dial(a) ==
    /\ a.at = "dial" /\ a.rest # <<>>
    /\ LET ip == Head(a.rest)
           others == Tail(a.rest)
       IN  \/ /\ Skips(ip)
              /\ Replace(a, [a EXCEPT !.rest = others])
              /\ UNCHANGED acCount
           \/ /\ ~Skips(ip)
              /\ Replace(a, [a EXCEPT !.rest = AfterRefusal(others), !.refused = @ \cup {ip}])
              /\ UNCHANGED acCount
           \/ ~Skips(ip) /\ SendTo(a, ip)
    /\ UNCHANGED <<publicHost, issuedTokens, pooled>>

\* No address is left: nascError("null").
DialFails(a) ==
    /\ a.at = "dial" /\ a.rest = <<>>
    /\ Finish(a, "unreachable")
    /\ UNCHANGED <<publicHost, issuedTokens, pooled, acCount>>

\* Pretendo's answer is copied, and the connection is kept unless it says otherwise;
\* or there is none in time.
UpstreamAnswers(a) ==
    /\ a.at = "upstream"
    /\ \/ Finish(a, "pretendo") /\ pooled' \in {pooled, pooled \cup {a.via}}
       \/ Finish(a, "null") /\ pooled' = pooled \ {a.via}
    /\ UNCHANGED <<publicHost, issuedTokens, acCount>>

\* So is the answer of this process itself.
SelfAnswers(a) ==
    /\ a.at = "looped"
    /\ \E b \in acs : b.sentFor = a.id /\ b.at = "done"
    /\ Finish(a, "looped")
    /\ pooled' = pooled \cup {Self}
    /\ UNCHANGED <<publicHost, issuedTokens, acCount>>

NASCNext ==
    \/ \E g \in Games \cup OtherGames, s \in Actions, u \in Users : Arrive(g, s, u)
    \/ \E a \in acs : \/ HandleAC(a) \/ StoreToken(a) \/ AnswerLogin(a)
                      \/ Reuse(a) \/ Dial(a) \/ DialFails(a) \/ UpstreamAnswers(a) \/ SelfAnswers(a)

NASCSpec == NASCInit /\ [][NASCNext]_avars

------------------------------------------------------------------------------
(* Properties *)

\* A console with an answer to its LOGIN has a token the server knows it by, and no
\* other console has the same, however the requests overlap.
TokenNamesUser ==
    \A a \in acs : a.answer = "001" =>
        /\ a.token \in DOMAIN issuedTokens
        /\ issuedTokens[a.token] = a.user
        /\ \A b \in acs : b.token = a.token => b = a

\* "a naive upstream request loops straight back into this process": it never does, if
\* FFE_PUBLIC_HOST is the address DNS gives for this process.
NeverLoops == publicHost = Self => \A a \in acs : a.sentFor = 0

\* A request of another game is answered that no server was reached only if every
\* address but this process's own refused: "so the rest of the console's online games
\* keep working".
TriesAllUpstreams ==
    \A a \in acs : a.answer = "unreachable" =>
        \A i \in DOMAIN a.ips : a.ips[i] \in a.refused \cup {publicHost}
==============================================================================
