------------------------------- MODULE Startup -------------------------------
(***************************************************************************)
(* The relay while the server starts: startSecureServer runs in a          *)
(* goroutine per game and makes the relay manager if the global variable   *)
(* is nil, without a lock.  A game that listens already opens links        *)
(* through the handlers of relay_integration.go, which read the variable   *)
(* anew on every call.  FFE_RELAY and FFE_RELAY_IPS are set.               *)
(***************************************************************************)
EXTENDS Naturals, FiniteSets

CONSTANTS
    Servers,         \* the games whose secure servers start
    LinkPairs        \* pairs of consoles that are linked

ASSUME ServersAssumption == Servers # {}

VARIABLES
    at,              \* how far startSecureServer of each game is
    relay,           \* the relay manager the global variable points to, 0: nil
    managers,        \* relay managers made
    withHosts,       \* those that setHosts was called on
    opened,          \* links: the manager that holds each, and whether it had its hosts
    raced            \* history: two goroutines found nil

lvars == <<at, relay, managers, withHosts, opened, raced>>

StartupInit ==
    /\ at = [g \in Servers |-> "starting"]
    /\ relay = 0
    /\ managers = 0
    /\ withHosts = {}
    /\ opened = {}
    /\ raced = FALSE

Advance(g, to) == at' = [at EXCEPT ![g] = to]

\* if relay == nil
NeedsRelay == relay = 0

CheckRelay(g) ==
    /\ at[g] = "starting"
    /\ Advance(g, IF NeedsRelay THEN "making" ELSE "hosts")
    /\ raced' = (raced \/ (relay = 0 /\ \E h \in Servers : at[h] = "making"))
    /\ UNCHANGED <<relay, managers, withHosts, opened>>

\* relay = newRelayManager
MakeRelay(g) ==
    /\ at[g] = "making"
    /\ managers' = managers + 1
    /\ relay' = managers'
    /\ Advance(g, "hosts")
    /\ UNCHANGED <<withHosts, opened, raced>>

\* Mutant: the game listens first, then the hosts are set.
SetHostsLate(g) ==
    /\ at[g] \in {"hosts", "listening"}
    /\ Advance(g, "listening")
    /\ withHosts' \in {withHosts, withHosts \cup {relay}}
    /\ UNCHANGED <<relay, managers, opened, raced>>

\* relay.setHosts of FFE_RELAY_IPS; then the handlers are set and the game listens.
SetHosts(g) ==
    /\ at[g] = "hosts"
    /\ Advance(g, "listening")
    /\ withHosts' = withHosts \cup {relay}
    /\ UNCHANGED <<relay, managers, opened, raced>>

\* A handler of a game that listens calls relay.link.
OpenLink(g, pair) ==
    /\ at[g] = "listening"
    /\ ~\E l \in opened : l.pair = pair /\ l.manager = relay
    /\ opened' = opened \cup {[pair |-> pair, manager |-> relay, pool |-> relay \in withHosts]}
    /\ UNCHANGED <<at, relay, managers, withHosts, raced>>

StartupNext ==
    \E g \in Servers :
        \/ CheckRelay(g) \/ MakeRelay(g) \/ SetHosts(g)
        \/ \E pair \in LinkPairs : OpenLink(g, pair)

StartupSpec == StartupInit /\ [][StartupNext]_lvars

------------------------------------------------------------------------------
(* Properties *)

\* All games share one relay manager, so that a pair of consoles has one link, unless
\* two games found nil at the same time: the second manager then replaces the first,
\* and a pair linked before is linked again, at other ports.
OneLinkPerPair == \A k, l \in opened : k.pair = l.pair => k = l \/ raced

\* Every link has an IP of the pool.  A race may open one without, while the manager
\* that replaces another has no hosts yet; but once every game listens the manager in
\* use has its hosts, whatever the order was.
LinksHavePool ==
    /\ \A l \in opened : l.pool \/ raced
    /\ (\A g \in Servers : at[g] = "listening") => relay \in withHosts
==============================================================================
