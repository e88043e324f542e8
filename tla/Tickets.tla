------------------------------- MODULE Tickets -------------------------------
(***************************************************************************)
(* A console joins a secure server with a Kerberos ticket: the tickets the *)
(* authentication server issues, the CONNECT that carries one with a check *)
(* value, handleConnect with ReadKerberosTicket, and the answer.  The      *)
(* network delays, loses and repeats CONNECTs and answers.                 *)
(*                                                                         *)
(* An encryption is a box that only its key opens: RC4 with an HMAC of the *)
(* ciphertext.  The ticket is issued by the ticket-granting protocol, a    *)
(* library, with the types of kerberos.go.                                 *)
(***************************************************************************)
EXTENDS Integers, FiniteSets

CONSTANTS
    CheckValues,     \* values of the uint32 check value, 2^32 in the program
    Second,          \* ticks of the clock in a second
    TimeLimit,       \* ticks a ticket is good for, two minutes in the program
    MaxTime,         \* bound: ticks
    MaxLogins        \* bound: logins

ASSUME TicketsAssumption ==
    /\ CheckValues \in Nat \ {0} /\ Second \in Nat \ {0}
    /\ TimeLimit \in Nat /\ MaxTime \in Nat /\ MaxLogins \in Nat

VARIABLES
    ticketVersion,   \* KerberosTicketVersion of both servers
    now,             \* time.Now
    login,           \* the console's login: its number, session key, ticket, check value
    connects,        \* CONNECTs on their way
    connection,      \* the connection at the server
    answers,         \* answers on their way: the check values
    joined,          \* the console got the answer it expects
    disturbed        \* history: a CONNECT of another login, or one that was refused, was
                     \* handled after the SYN of this login

tvars == <<ticketVersion, now, login, connects, connection, answers, joined, disturbed>>

Console == 1500
ServerAccount == [pid |-> 2, password |-> "secure-password"]
NoKey == 0

\* Keys and boxes
DeriveKerberosKey(account) == <<account.pid % 1024, account.password>>
Encrypt(key, data) == [key |-> key, data |-> data]
Validate(key, box) == box.key = key

\* The key of the ticket's inner data: with version 1 a hash with a random key that
\* is sent along
FinalKey(key, ticketKey) == IF ticketVersion = 1 THEN <<key, ticketKey>> ELSE <<key>>

\* KerberosTicketInternalData.Encrypt; each ticket has a ticket key of its own.
InternalData(issued, session) ==
    [ticketKey |-> session,
     box |-> Encrypt(FinalKey(DeriveKerberosKey(ServerAccount), session),
                     [issued |-> issued, sourcePID |-> Console, sessionKey |-> session])]

\* A DateTime has whole seconds.
Timestamp(t) == t - (t % Second)

TInit ==
    /\ ticketVersion \in {0, 1}
    /\ now = 0
    /\ login = [number |-> 0, session |-> NoKey, ticket |-> <<>>, check |-> 0]
    /\ connects = {}
    /\ connection = [state |-> "none", pid |-> 0, sessionKey |-> NoKey, cipher |-> NoKey]
    /\ answers = {}
    /\ joined = FALSE
    /\ disturbed = FALSE

TimePasses ==
    /\ now < MaxTime
    /\ now' = now + 1
    /\ UNCHANGED <<ticketVersion, login, connects, connection, answers, joined, disturbed>>

\* The console logs in at the authentication server and gets a ticket; it sends a SYN
\* to the secure server, whose handleSyn resets the connection, and gets the answer.
Login(check) ==
    /\ login.number < MaxLogins
    /\ login' = [number |-> login.number + 1, session |-> login.number + 1, check |-> check,
                 ticket |-> InternalData(Timestamp(now), login.number + 1)]
    /\ connection' = [connection EXCEPT !.state = "connecting", !.sessionKey = NoKey,
                                        !.cipher = NoKey]
    /\ answers' = {}
    /\ joined' = FALSE
    /\ disturbed' = FALSE
    /\ UNCHANGED <<ticketVersion, now, connects>>

\* The console sends a CONNECT; it stays on its way, to be repeated, until it is lost.
SendConnect ==
    /\ login.number > 0 /\ ~joined
    /\ connects' = connects \cup
          {[number |-> login.number, sentTicket |-> login.ticket,
            request |-> Encrypt(login.session, [pid |-> Console, check |-> login.check])]}
    /\ UNCHANGED <<ticketVersion, now, login, connection, answers, joined, disturbed>>

LoseConnect(p) ==
    /\ connects' = connects \ {p}
    /\ UNCHANGED <<ticketVersion, now, login, connection, answers, joined, disturbed>>

\* KerberosTicketInternalData.Decrypt: FinalKey with the ticket key that came along
Opens(ticket) ==
    Validate(FinalKey(DeriveKerberosKey(ServerAccount), ticket.ticketKey), ticket.box)

Expired(issued) == now > issued + TimeLimit

\* ReadKerberosTicket returns no error.
ReadKerberosTicket(p) ==
    LET ticket == p.sentTicket.box.data
    IN  /\ Opens(p.sentTicket)
        /\ ~Expired(ticket.issued)
        /\ Validate(ticket.sessionKey, p.request)
        /\ p.request.data.pid = ticket.sourcePID

\* Mutant: the sliding windows are made after the session key was set.
AcceptUnkeyed(ticket) == [state |-> "connected", pid |-> ticket.sourcePID,
                          sessionKey |-> ticket.sessionKey, cipher |-> NoKey]

\* SetPID and SetSessionKey, which gives the new sliding windows the key
Accept(ticket) == [state |-> "connected", pid |-> ticket.sourcePID,
                   sessionKey |-> ticket.sessionKey, cipher |-> ticket.sessionKey]

\* handleConnect of a secure endpoint.  The sliding windows are made anew before the
\* ticket is read; an error leaves the rest of the connection as it was.
HandleConnect(p) ==
    LET ticket == p.sentTicket.box.data
        accepted == ReadKerberosTicket(p)
    IN  /\ connection.state # "none"
        /\ connection' = IF accepted THEN Accept(ticket) ELSE [connection EXCEPT !.cipher = NoKey]
        /\ answers' = IF accepted THEN answers \cup {(p.request.data.check + 1) % CheckValues}
                      ELSE answers
        /\ disturbed' = (disturbed \/ ~accepted \/ p.number # login.number)
        /\ UNCHANGED <<ticketVersion, now, login, connects, joined>>

\* The console compares the answer with what it sent.
ConsoleJoins(answer) ==
    /\ answer = (login.check + 1) % CheckValues
    /\ joined' = TRUE
    /\ UNCHANGED <<ticketVersion, now, login, connects, connection, answers, disturbed>>

TNext ==
    \/ TimePasses
    \/ \E check \in 0..(CheckValues - 1) : Login(check)
    \/ SendConnect
    \/ \E p \in connects : LoseConnect(p) \/ HandleConnect(p)
    \/ \E a \in answers : ConsoleJoins(a)

TSpec == TInit /\ [][TNext]_tvars

------------------------------------------------------------------------------
(* Properties *)

\* A console that has its answer shares PID, session key and cipher key with the
\* connection of the server, however often its CONNECT was repeated.  Excepted are a
\* CONNECT of an earlier login and one that arrives with an expired ticket: handleConnect
\* takes both while connected, and the latter leaves sliding windows without a key.
JoinedAgrees ==
    joined /\ ~disturbed =>
        connection = [state |-> "connected", pid |-> Console, sessionKey |-> login.session,
                      cipher |-> login.session]
==============================================================================
