------------------------------ MODULE Browsing -------------------------------
(***************************************************************************)
(* The list of rooms: browseMatchmakeSessionStable, around the query of    *)
(* the matchmaking library, which returns at most as many rows as were     *)
(* asked for, in any order, and may return a room in several rows.         *)
(* Sessions are made, locked and closed by the library.                    *)
(***************************************************************************)
EXTENDS Naturals, Sequences, FiniteSets, Functions

CONSTANTS
    GatheringIDs,    \* IDs of gatherings
    AskedFor,        \* sizes of the result ranges
    MaxRows,         \* bound: rows a query finds
    MaxRoomChanges   \* bound: sessions made, locked or closed

ASSUME BrowsingAssumption ==
    /\ GatheringIDs \subseteq Nat /\ AskedFor \subseteq Nat
    /\ MaxRows \in Nat /\ MaxRoomChanges \in Nat

VARIABLES
    sessions,        \* the sessions: ID and attribute 4, the lock flag
    blanked,         \* wildcardIdx contains 4, as it does by default
    list,            \* the last answer
    query,           \* history: what the last query was asked and had found
    roomChanges      \* how often sessions changed

bvars == <<blanked, sessions, list, query, roomChanges>>

NoQuery == [size |-> 0, all |-> FALSE, sessions |-> {}]

BrowsingInit ==
    /\ blanked \in BOOLEAN
    /\ sessions = {}
    /\ list = <<>>
    /\ query = [last |-> NoQuery, lastList |-> <<>>, now |-> NoQuery]
    /\ roomChanges = 0

ChangeRooms ==
    /\ roomChanges < MaxRoomChanges
    /\ roomChanges' = roomChanges + 1
    /\ UNCHANGED <<blanked, list, query>>

MakeSession(id, locked) ==
    /\ ChangeRooms
    /\ \A s \in sessions : s.id # id
    /\ sessions' = sessions \cup {[id |-> id, locked |-> locked]}

CloseSession(s) == ChangeRooms /\ sessions' = sessions \ {s}

\* The game searches for attribute 4 = 0; a blank attribute matches anything.
Matches(s) == blanked \/ ~s.locked

Matching == {s \in sessions : Matches(s)}

\* FindMatchmakeSessionBySearchCriteria: rows of all sessions that match, cut to the size
Rows(size) ==
    {rows \in UNION {[1..n -> Matching] : n \in 0..MaxRows} :
        /\ Len(rows) <= size
        /\ Len(rows) < size => Range(rows) = Matching}

\* The elements of a finite set in the order of a relation that orders it
Arranged(S, before) ==
    [i \in 1..Cardinality(S) |->
        CHOOSE x \in S : Cardinality({y \in S : <<y, x>> \in before}) = i - 1]

Earlier == {p \in Nat \X Nat : p[1] < p[2]}

\* Positions of rows in the order of their IDs; of the same ID the earlier is the first
Sooner(rows) ==
    {p \in (DOMAIN rows) \X (DOMAIN rows) :
        \/ rows[p[1]].id < rows[p[2]].id
        \/ rows[p[1]].id = rows[p[2]].id /\ p[1] < p[2]}

\* SliceStable by ID
Sorted(rows) ==
    LET order == Arranged(DOMAIN rows, Sooner(rows))
    IN  [i \in DOMAIN order |-> rows[order[i]]]

\* The rows at some positions, in their order
Kept(rows, positions) ==
    LET order == Arranged(positions, Earlier)
    IN  [n \in DOMAIN order |-> rows[order[n]]]

\* The rows whose ID was not seen before
Deduped(rows) ==
    Kept(rows, {i \in DOMAIN rows : \A j \in 1..(i - 1) : rows[j].id # rows[i].id})

\* Mutant: only rows that follow each other are compared, before they are sorted.
SortedUniqueEarly(rows) ==
    Sorted(Kept(rows, {i \in DOMAIN rows : i = 1 \/ rows[i - 1] # rows[i]}))

\* Mutant: the rows are not sorted.
UniqueOnly(rows) == Deduped(rows)

SortedUnique(rows) == Deduped(Sorted(rows))

Browse(size) ==
    \E rows \in Rows(size) :
        /\ list' = SortedUnique(rows)
        /\ query' = [last |-> query.now, lastList |-> list,
                     now |-> [size |-> size, all |-> Range(rows) = Matching,
                              sessions |-> sessions]]
        /\ UNCHANGED <<blanked, sessions, roomChanges>>

BrowsingNext ==
    \/ \E id \in GatheringIDs, locked \in BOOLEAN : MakeSession(id, locked)
    \/ \E s \in sessions : CloseSession(s)
    \/ \E size \in AskedFor : Browse(size)

BrowsingSpec == BrowsingInit /\ [][BrowsingNext]_bvars

------------------------------------------------------------------------------
(* Properties *)

\* "returning more overruns that buffer and crashes the console", "no room is ever
\* listed twice", and locked rooms are listed: the list is never longer than asked for,
\* has every session at most once, and all of them if the query had room for its rows.
ListFits ==
    /\ Len(list) <= query.now.size
    /\ IsInjective(list)
    /\ query.now.all /\ blanked => Range(list) = query.now.sessions

\* "consecutive browses return an identical, unique-ordered list" while nothing
\* changes, whatever the order of the rows: if the query could return all of the rooms.
\* Of more rooms than were asked for, the query picks, before the list is sorted.
BrowseStable ==
    query.now.sessions = query.last.sessions /\ query.now.all /\ query.last.all =>
        list = query.lastList
==============================================================================
