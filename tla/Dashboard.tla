------------------------------ MODULE Dashboard ------------------------------
(***************************************************************************)
(* The statistics page: a pass of currentStats, which reads the owners of  *)
(* the gatherings from the database and then the connections of one        *)
(* endpoint after the other while consoles come and go, and the cache of   *)
(* locations geoLocate fills in the background.  The matchmaking tables    *)
(* and the geolocation service are the environment.                        *)
(*                                                                         *)
(* Coordinates are in tenths of a degree.  A console has an address of its *)
(* own.                                                                    *)
(***************************************************************************)
EXTENDS Integers, Sequences, FiniteSets, FiniteSetsExt

CONSTANTS
    Consoles,        \* PIDs above 2
    GameCount,       \* number of secure endpoints
    Place,           \* Place[c]: latitude and longitude of a console
    Local,           \* consoles with a private address
    MaxChanges,      \* bound: consoles that come or go, gatherings made
    MaxPasses        \* bound: passes of currentStats

ASSUME DashboardAssumption ==
    /\ GameCount \in Nat \ {0} /\ MaxChanges \in Nat /\ MaxPasses \in Nat
    /\ Local \subseteq Consoles /\ IsFiniteSet(Consoles)
    /\ Place \in [Consoles -> Int \X Int]

VARIABLES
    online,          \* the consoles connected to each endpoint
    gatherings,      \* registered gatherings of each console
    pass,            \* currentStats: where it is and what it has read
    geoCache,        \* address -> point
    geoInflight,     \* addresses being looked up
    lookups,         \* history: requests to the service for each address
    steady, during,  \* history: who stayed where they were, and who was online at all,
                     \* since the pass began
    changes, passes  \* how often

dvars == <<online, gatherings, pass, geoCache, geoInflight, lookups, steady, during,
           changes, passes>>

Endpoints == 1..GameCount
NoPlace == <<0, 0>>
Everyone == UNION {online[e] : e \in Endpoints}

DashboardInit ==
    /\ online = [e \in Endpoints |-> {}]
    /\ gatherings = [c \in Consoles |-> 0]
    /\ pass = [at |-> "idle", owners |-> gatherings, seen |-> <<>>, rooms |-> 0, points |-> {}]
    /\ geoCache = [c \in {} |-> NoPlace]
    /\ geoInflight = {}
    /\ lookups = [c \in Consoles |-> 0]
    /\ steady = {} /\ during = {}
    /\ changes = 0 /\ passes = 0

------------------------------------------------------------------------------
(* Consoles *)

Change == changes < MaxChanges /\ changes' = changes + 1

\* The history of a pass after a console came or went
Track(c) == steady' = steady \ {c} /\ during' = during \cup {c}

ComeOnline(c, e) ==
    /\ Change
    /\ c \notin online[e]
    /\ online' = [online EXCEPT ![e] = @ \cup {c}]
    /\ Track(c)
    /\ UNCHANGED <<gatherings, pass, geoCache, geoInflight, lookups, passes>>

GoOffline(c, e) ==
    /\ Change
    /\ c \in online[e]
    /\ online' = [online EXCEPT ![e] = @ \ {c}]
    /\ Track(c)
    /\ UNCHANGED <<gatherings, pass, geoCache, geoInflight, lookups, passes>>

OpenGathering(c) ==
    /\ Change
    /\ c \in Everyone
    /\ gatherings' = [gatherings EXCEPT ![c] = @ + 1]
    /\ UNCHANGED <<online, pass, geoCache, geoInflight, lookups, steady, during, passes>>

------------------------------------------------------------------------------
(* A pass of currentStats *)

\* registeredGatheringOwners, which returns nothing if the query fails
ReadOwners ==
    /\ pass.at = "idle" /\ passes < MaxPasses
    /\ passes' = passes + 1
    /\ \E owners \in {gatherings, [c \in Consoles |-> 0]} :
           pass' = [at |-> "endpoints", owners |-> owners, seen |-> <<>>, rooms |-> 0,
                    points |-> {}]
    /\ steady' = Everyone
    /\ during' = Everyone
    /\ UNCHANGED <<online, gatherings, geoCache, geoInflight, lookups, changes>>

\* Mutant: an owner counts once.
RoomsOfDistinct(owners, pids) == Cardinality({c \in pids : owners[c] > 0})

\* The gatherings whose owner is among pids
RoomsOf(owners, pids) == MapThenSumSet(LAMBDA c : owners[c], pids)

\* endpointOnlinePIDs of the next endpoint, under the lock of its map
ReadEndpoint ==
    LET pids == online[Len(pass.seen) + 1]
    IN  /\ pass.at = "endpoints"
        /\ pass' = [pass EXCEPT !.seen = Append(@, pids),
                                !.rooms = @ + RoomsOf(pass.owners, pids),
                                !.at = IF Len(pass.seen) + 1 = GameCount THEN "places" ELSE @]
        /\ UNCHANGED <<online, gatherings, geoCache, geoInflight, lookups, steady, during,
                       changes, passes>>

Counted == UNION {pass.seen[i] : i \in DOMAIN pass.seen}

\* Mutant: an address that is being looked up is looked up again.
UnknownToCache(c) == c \notin DOMAIN geoCache

\* geoLocate starts a lookup.
Unknown(c) == c \notin DOMAIN geoCache /\ c \notin geoInflight

\* onlineLocations with geoLocate of every address
ReadPlaces ==
    LET asked == {c \in Everyone : Unknown(c)}
    IN  /\ pass.at = "places"
        /\ pass' = [pass EXCEPT !.at = "done",
                       !.points = {<<c, geoCache[c]>> : c \in
                                      {d \in Everyone \cap DOMAIN geoCache : geoCache[d] # NoPlace}}]
        /\ geoInflight' = geoInflight \cup asked
        /\ lookups' = [c \in Consoles |-> IF c \in asked \ Local THEN lookups[c] + 1 ELSE lookups[c]]
        /\ UNCHANGED <<online, gatherings, geoCache, steady, during, changes, passes>>

AnswerStats ==
    /\ pass.at = "done"
    /\ pass' = [pass EXCEPT !.at = "idle"]
    /\ UNCHANGED <<online, gatherings, geoCache, geoInflight, lookups, steady, during,
                   changes, passes>>

\* A coordinate cut towards zero to a multiple of 0.3 degrees
Snap(x) == IF x >= 0 THEN (x \div 3) * 3 ELSE -(((-x) \div 3) * 3)

\* fetchGeo: a private address, a failure and a place within 0.3 degrees of <<0, 0>>
\* all become the zero point.
FetchGeo(c, ok) ==
    /\ c \in geoInflight
    /\ ok => c \notin Local
    /\ geoInflight' = geoInflight \ {c}
    /\ geoCache' = [d \in DOMAIN geoCache \cup {c} |->
                       IF d # c THEN geoCache[d]
                       ELSE IF ok THEN <<Snap(Place[c][1]), Snap(Place[c][2])>> ELSE NoPlace]
    /\ UNCHANGED <<online, gatherings, pass, lookups, steady, during, changes, passes>>

DashboardNext ==
    \/ \E c \in Consoles :
          \/ \E e \in Endpoints : ComeOnline(c, e) \/ GoOffline(c, e)
          \/ OpenGathering(c)
          \/ \E ok \in BOOLEAN : FetchGeo(c, ok)
    \/ ReadOwners \/ ReadEndpoint \/ ReadPlaces \/ AnswerStats

DashboardSpec == DashboardInit /\ [][DashboardNext]_dvars

------------------------------------------------------------------------------
(* Properties *)

\* A console that moved between two reads, or is in two games, may be in both counts.
SeenTwice == \E i, j \in DOMAIN pass.seen : i # j /\ pass.seen[i] \cap pass.seen[j] # {}

\* What a pass counts is true of some moment of it: consoles that stayed are counted,
\* those that were never online are not, and rooms are counted once each, those of
\* consoles that stayed all - unless their owner was seen in two games.  A point on the
\* map is "a general area, not a pin", less than 0.3 degrees in each coordinate from a
\* console that was online at a public address.
CountsTrue ==
    pass.at = "done" =>
        /\ steady \subseteq Counted /\ Counted \subseteq during
        /\ pass.rooms >= MapThenSumSet(LAMBDA c : pass.owners[c], steady)
        /\ ~SeenTwice => pass.rooms <= MapThenSumSet(LAMBDA c : pass.owners[c], during)
        /\ \A pt \in pass.points :
              /\ pt[1] \in during \ Local
              /\ \A k \in 1..2 : Place[pt[1]][k] - pt[2][k] \in -2..2

\* Every address is asked for at most once, however many passes find it before the
\* answer is there, and a private one never; "it never blocks".  So a lookup that failed
\* is not tried again.
AskedOnce == \A c \in Consoles : lookups[c] <= IF c \in Local THEN 0 ELSE 1
==============================================================================
