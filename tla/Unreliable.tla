------------------------------ MODULE Unreliable -----------------------------
(***************************************************************************)
(* Unreliable DATA packets of one session: the base key of the connection, *)
(* processUnreliableCrypto at both ends of their way through the server,   *)
(* and the sequence IDs sendPacket gives them.  The network loses,         *)
(* reorders and duplicates them.                                           *)
(*                                                                         *)
(* A key is how far the three bytes that are modified, two for the         *)
(* sequence ID and one for the session ID, are from the base key both ends *)
(* derive from the session key.  The session has one substream: with more, *)
(* SetSessionKey would derive the base key from the last one's key.        *)
(***************************************************************************)
EXTENDS Integers, FiniteSets

CONSTANTS
    KeyValues,         \* values of a byte of the key, 256 in the program
    SessionID,         \* the session ID of the packets
    ClientSequenceIDs, \* sequence IDs of the packets the client sends
    MaxServerPackets   \* bound: packets the server sends

ASSUME UnreliableAssumption ==
    /\ KeyValues \in Nat \ {0}
    /\ SessionID \in Nat
    /\ ClientSequenceIDs \subseteq Nat
    /\ MaxServerPackets \in Nat

VARIABLES
    baseKey,           \* UnreliablePacketBaseKey
    unreliableCounter, \* OutgoingUnreliableSequenceIDCounter
    toServer, toClient,\* packets on their way, with the key of each
    reading            \* history: whether the last packet was read right, and whether
                       \* the server found the base key fresh when it made its key

nvars == <<baseKey, unreliableCounter, toServer, toClient, reading>>

\* The base key SetSessionKey makes
SessionBaseKey == <<0, 0, 0>>

NInit ==
    /\ baseKey = SessionBaseKey
    /\ unreliableCounter = 1
    /\ toServer = {}
    /\ toClient = {}
    /\ reading = [fresh |-> TRUE, right |-> TRUE]

\* What the IDs of a packet add to the bytes of a key
IDs(seq) == <<seq % KeyValues, seq \div KeyValues, SessionID>>

\* Mutant: the session ID is left out.
UniqueKeyPlain(base, seq) ==
    [i \in 1..3 |-> IF i = 3 THEN base[3] ELSE (base[i] + IDs(seq)[i]) % KeyValues]

\* The key processUnreliableCrypto makes for a packet
UniqueKey(base, seq) == [i \in 1..3 |-> (base[i] + IDs(seq)[i]) % KeyValues]

\* The key of the client, which leaves its base key alone
PeerKey(seq) == [i \in 1..3 |-> IDs(seq)[i] % KeyValues]

ClientSendsUnreliable(seq, fragment) ==
    /\ toServer' = toServer \cup {[seq |-> seq, fragment |-> fragment, key |-> PeerKey(seq)]}
    /\ UNCHANGED <<baseKey, unreliableCounter, toClient, reading>>

\* sendPacket of an unreliable DATA packet.  uniqueKey is the base key's own slice.
ServerSendsUnreliable ==
    /\ unreliableCounter <= MaxServerPackets
    /\ unreliableCounter' = unreliableCounter + 1
    /\ baseKey' = UniqueKey(baseKey, unreliableCounter')
    /\ toClient' = toClient \cup {[seq |-> unreliableCounter', key |-> baseKey',
                                    fresh |-> baseKey = SessionBaseKey]}
    /\ UNCHANGED <<toServer, reading>>

\* HandleUnreliable: a fragment is dropped before its key is made.
HandleUnreliable(p) ==
    /\ IF p.fragment # 0 THEN UNCHANGED <<baseKey, reading>>
       ELSE /\ baseKey' = UniqueKey(baseKey, p.seq)
            /\ reading' = [fresh |-> baseKey = SessionBaseKey, right |-> baseKey' = p.key]
    /\ toServer' \in {toServer, toServer \ {p}}
    /\ UNCHANGED <<unreliableCounter, toClient>>

ClientReadsUnreliable(p) ==
    /\ reading' = [fresh |-> p.fresh, right |-> p.key = PeerKey(p.seq)]
    /\ toClient' \in {toClient, toClient \ {p}}
    /\ UNCHANGED <<baseKey, unreliableCounter, toServer>>

NNext ==
    \/ \E seq \in ClientSequenceIDs, fragment \in {0, 1} : ClientSendsUnreliable(seq, fragment)
    \/ ServerSendsUnreliable
    \/ \E p \in toServer : HandleUnreliable(p)
    \/ \E p \in toClient : ClientReadsUnreliable(p)

NSpec == NInit /\ [][NNext]_nvars

\* "Since unreliable DATA packets can come in out of order, each packet uses a
\* dedicated RC4 stream" (processUnreliableCrypto): at either end a packet is decrypted
\* right exactly if the server found the base key as SetSessionKey left it when it made
\* the key of the packet.  The IDs go where the client puts them, and fragments, which
\* are dropped, do not touch the key; every packet that is not one changes it for the
\* next.
FreshKeyReads == reading.fresh <=> reading.right
==============================================================================
