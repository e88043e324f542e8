------------------------------ MODULE Observers ------------------------------
(***************************************************************************)
(* The session log (session_log.go), which watches a secure endpoint from  *)
(* above.  Every step of the endpoint runs the handlers of the events it   *)
(* emits, in the order in which it emits them.                             *)
(***************************************************************************)
EXTENDS PRUDPEndpoint, FiniteSetsExt

VARIABLES
    log           \* start: the keys of sessStart, explicit: the keys of sessExplicit,
                  \* lines: the DISCONNECT lines the last step wrote

observerVars == <<conns, created, obj, arrived, tasks, events, ended, packets, log>>

\* Mutant: a new session does not clear what the session before it left.
OnConnectKeepsExplicit(l, a) == [l EXCEPT !.start = @ \cup {a}]

OnConnect(l, a) == [l EXCEPT !.start = @ \cup {a}, !.explicit = @ \ {a}]

OnDisconnect(l, a) == [l EXCEPT !.explicit = @ \cup {a}]

\* Mutant: the end of a session leaves its start time behind.
OnConnectionEndedKeepsStart(l, c, a) ==
    [l EXCEPT !.explicit = @ \ {a},
              !.lines = Append(@, [conn |-> c, left |-> a \in l.explicit,
                                   timed |-> a \in l.start])]

\* One line per ended connection: its reason, and whether its duration is known.
OnConnectionEnded(l, c, a) ==
    [l EXCEPT !.start = @ \ {a}, !.explicit = @ \ {a},
              !.lines = Append(@, [conn |-> c, left |-> a \in l.explicit,
                                   timed |-> a \in l.start])]

Observe(l, e) ==
    LET a == obj'[e.conn].addr
    IN  CASE e.event = "connect" -> OnConnect(l, a)
          [] e.event = "disconnect" -> OnDisconnect(l, a)
          [] e.event = "connectionEnded" -> OnConnectionEnded(l, e.conn, a)
          [] OTHER -> l

\* The handlers of the events es run one after the other, in the order of the events.
Observed(l, es) ==
    MapThenFoldSet(LAMBDA e, m : Observe(m, e), l, LAMBDA i : es[i], LAMBDA S : Max(S), DOMAIN es)

ObserverInit ==
    /\ Init
    /\ log = [start |-> {}, explicit |-> {}, lines |-> <<>>]

ObserverNext ==
    /\ Next
    /\ log' = Observed([log EXCEPT !.lines = <<>>], events')

ObserverSpec == ObserverInit /\ [][ObserverNext]_observerVars

------------------------------------------------------------------------------
(* Properties *)

\* sessStart holds a start time exactly for the addresses with a connected console, so
\* it neither grows with dead sessions nor loses the duration of a live one.
StartTracksConnections ==
    log.start = {obj[c].addr : c \in {d \in DOMAIN obj : obj[d].state = "connected"}}

\* A session that was connected and ends without a DISCONNECT packet is logged as
\* dropped, with its duration, whatever the sessions before it from that address did.
DropLoggedAsDrop ==
    [][\A i \in DOMAIN log'.lines :
          LET c == log'.lines[i].conn
          IN  obj[c].state = "connected" /\ Event("disconnect", c) \notin Range(events')
                => ~log'.lines[i].left /\ log'.lines[i].timed]_observerVars

\* The log can "tell a clean player left from a silent network/NAT drop": a session that
\* ends by the client's DISCONNECT packet is logged as left.
LeaveLoggedAsLeave ==
    [][\A i \in DOMAIN log'.lines :
          LET c == log'.lines[i].conn
          IN  obj[c].state = "connected" /\ Event("disconnect", c) \in Range(events')
                => log'.lines[i].left]_observerVars
==============================================================================
