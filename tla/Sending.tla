------------------------------- MODULE Sending -------------------------------
(***************************************************************************)
(* The way of a message from PRUDPServer.Send to the other end of a        *)
(* connection: the keys SetSessionKey gives the substreams, the fragments  *)
(* Send makes of a message, the sequence ID and the place in the key       *)
(* stream that sendPacket gives each, and how the receiver puts the        *)
(* message together again, which HandleReliable shows for the server's own *)
(* end.  Handlers run in goroutines of their own and send without the      *)
(* mutex of the connection, so two calls of Send may overlap.              *)
(*                                                                         *)
(* A payload is a sequence of distinct bytes.  A key is the number of      *)
(* times the session key was modified to get it.  RC4 is a key stream: a   *)
(* byte is read right if both ends use it at the same place of the same    *)
(* stream.  Loss and retransmission are the subject of OutboundStream.     *)
(***************************************************************************)
EXTENDS Integers, Sequences, FiniteSets, Functions

CONSTANTS
    Goroutines,      \* handlers that send on the connection
    Lengths,         \* lengths of the messages
    FragmentSize,    \* PRUDPServer.FragmentSize, 1300 in the code
    FragmentIDs,     \* values of the uint8 fragment ID, 256 in the code
    SubstreamIDs,    \* values of the uint8 substream ID, 256 in the code
    MaxMessages      \* bound: messages sent

ASSUME SendingAssumption ==
    /\ IsFiniteSet(Goroutines)
    /\ Lengths \subseteq Nat
    /\ FragmentSize \in Nat \ {0}
    /\ FragmentIDs \in Nat \ {0}
    /\ SubstreamIDs \in Nat \ {0}
    /\ MaxMessages \in Nat

VARIABLES
    maxSubstream,    \* MaximumSubstreamID of the CONNECT packet
    order,           \* the order in which Each visits the sliding windows
    cipher,          \* the key of each sliding window
    counter,         \* Counter.Value of substream 0's sequenceIDCounter
    position,        \* place in the key stream of substream 0
    call,            \* what each goroutine's call of Send is doing
    messages,        \* the messages Send has begun to send, in that order
    inTransit,       \* the packets sent
    receiver,        \* the other end: next sequence ID, key stream, buffer, messages
    overlapped       \* history: a fragment was sent in the middle of another message
                     \* or of another call of sendPacket

svars == <<maxSubstream, order, cipher, counter, position, call, messages, inTransit,
           receiver, overlapped>>

------------------------------------------------------------------------------
(* Session keys *)

\* The key of a sliding window that SetSessionKey did not reach: the one
\* NewRC4Encryption sets
DefaultKey == SubstreamIDs

\* InitializeSlidingWindows: the count is computed in the type of the substream ID.
Windows(max) == 0..(((max + 1) % SubstreamIDs) - 1)

\* Mutant: every other substream modifies the session key itself.
KeyAfterFresh(key, substream) == IF substream = 0 THEN key ELSE 1

\* The body of the loop of SetSessionKey: the key a substream gets, which is then the
\* one the next substream modifies
KeyAfter(key, substream) == IF substream = 0 THEN key ELSE key + 1

SetSessionKey(visits) ==
    LET keys[i \in 0..Len(visits)] == IF i = 0 THEN 0 ELSE KeyAfter(keys[i - 1], visits[i])
    IN  [s \in Range(visits) |-> keys[CHOOSE i \in DOMAIN visits : visits[i] = s]]

\* SlidingWindow: a window that does not exist is created, without a session key.
CipherOf(substream) == IF substream \in DOMAIN cipher THEN cipher[substream] ELSE DefaultKey

Idle == [at |-> "idle", left |-> <<>>, fragment |-> 0, seq |-> 0, packet |-> <<>>]

SInit ==
    /\ maxSubstream \in 0..(SubstreamIDs - 1)
    /\ order \in Bijection(1..Cardinality(Windows(maxSubstream)), Windows(maxSubstream))
    /\ cipher = SetSessionKey(order)
    /\ counter = 0
    /\ position = 0
    /\ call = [g \in Goroutines |-> Idle]
    /\ messages = <<>>
    /\ inTransit = {}
    /\ receiver = [next |-> 1, position |-> 0, buffer |-> <<>>, messages |-> <<>>]
    /\ overlapped = FALSE

------------------------------------------------------------------------------
(* Sending *)

Calls == Len(messages) + Cardinality({g \in Goroutines : call[g].at = "called"})

\* Send is called with a message of n bytes.
CallSend(g, n) ==
    /\ call[g] = Idle
    /\ Calls < MaxMessages
    /\ call' = [call EXCEPT ![g] = [Idle EXCEPT !.at = "called", !.fragment = 1,
                                       !.left = [i \in 1..n |-> <<Calls + 1, i>>]]]
    /\ UNCHANGED <<maxSubstream, order, cipher, counter, position, messages, inTransit,
                   receiver, overlapped>>

\* The last fragment is the one that is not full; it may be empty.
IsLast(data) == Len(data) < FragmentSize

\* The body of the loop of Send up to sendPacket, whose Copy holds the fragment, and
\* the read of the counter in Counter.Next
NextFragment(g) ==
    LET c == call[g]
        size == IF IsLast(c.left) THEN Len(c.left) ELSE FragmentSize
    IN  /\ c.at \in {"called", "fragment"}
        /\ messages' = IF c.at = "called" THEN Append(messages, c.left) ELSE messages
        /\ call' = [call EXCEPT ![g] =
              [at |-> "number", left |-> SubSeq(c.left, size + 1, Len(c.left)),
               fragment |-> (c.fragment + 1) % FragmentIDs,
               seq |-> counter + 1,
               packet |-> [fragment |-> IF IsLast(c.left) THEN 0 ELSE c.fragment,
                           last |-> IsLast(c.left),
                           payload |-> SubSeq(c.left, 1, size)]]]
        /\ overlapped' = (overlapped \/ \E h \in Goroutines \ {g} :
                                            call[h].at \notin {"idle", "called"})
        /\ UNCHANGED <<maxSubstream, order, cipher, counter, position, inTransit, receiver>>

\* The write of the counter in Counter.Next, which has no lock
NumberPacket(g) ==
    /\ call[g].at = "number"
    /\ counter' = call[g].seq
    /\ call' = [call EXCEPT ![g].at = "encrypt"]
    /\ UNCHANGED <<maxSubstream, order, cipher, position, messages, inTransit, receiver, overlapped>>

\* RC4.Encrypt, of a payload that is not empty; then the packet is sent.  After the
\* last fragment Send returns.
EncryptAndSend(g) ==
    LET c == call[g]
    IN  /\ c.at = "encrypt"
        /\ inTransit' = inTransit \cup
              {[seq |-> c.seq, fragment |-> c.packet.fragment, payload |-> c.packet.payload,
                key |-> CipherOf(0), position |-> position]}
        /\ position' = position + Len(c.packet.payload)
        /\ call' = [call EXCEPT ![g] = IF c.packet.last THEN Idle ELSE [c EXCEPT !.at = "fragment"]]
        /\ UNCHANGED <<maxSubstream, order, cipher, counter, messages, receiver, overlapped>>

------------------------------------------------------------------------------
(* The receiver *)

\* What XORKeyStream makes of a payload
Decrypted(p) ==
    IF p.key = 0 /\ p.position = receiver.position THEN p.payload
    ELSE [i \in DOMAIN p.payload |-> <<0, 0>>]

\* Mutant: the buffer is not cleared after the last fragment.
BufferedKept(p, buffer) == buffer

\* What the fragment buffer holds after a packet
Buffered(p, buffer) == IF p.fragment = 0 THEN <<>> ELSE buffer

\* The loop of HandleReliable at the other end, for the packet whose turn it is.  The
\* other end derives the key of substream 0 from the session key, unmodified.
Dispatch(p) ==
    LET buffer == receiver.buffer \o Decrypted(p)
    IN  /\ p.seq = receiver.next
        /\ receiver' = [next |-> receiver.next + 1,
                        position |-> receiver.position + Len(p.payload),
                        buffer |-> Buffered(p, buffer),
                        messages |-> IF p.fragment = 0 THEN Append(receiver.messages, buffer)
                                     ELSE receiver.messages]
        /\ UNCHANGED <<maxSubstream, order, cipher, counter, position, call, messages,
                       inTransit, overlapped>>

\* What follows a fragment in the middle of another message is not looked at: the
\* receiver can no longer tell the messages apart.
SNext ==
    /\ ~overlapped
    /\ \/ \E g \in Goroutines :
             \/ \E n \in Lengths : CallSend(g, n)
             \/ NextFragment(g)
             \/ NumberPacket(g)
             \/ EncryptAndSend(g)
       \/ \E p \in inTransit : Dispatch(p)

SSpec == SInit /\ [][SNext]_svars

------------------------------------------------------------------------------
(* Properties *)

\* Each visited the windows in the order of their substreams.
Ascending == \A i \in DOMAIN order : order[i] = i - 1

\* "Only the first substream uses the session key directly.  All other substreams
\* modify the key before it so that all substreams have a unique cipher key"
\* (SetSessionKey): the substreams have the keys the other end derives for them exactly
\* if SetSessionKey came to them in ascending order.  With one substream it always
\* does; the order in which Go visits a map is random.
KeysFollowOrder == Ascending <=> \A s \in DOMAIN cipher : cipher[s] = s

\* Substream 0 got the session key itself.
KeyAgreed == CipherOf(0) = 0

\* A message of so many full fragments that the fragment ID comes back to 0
TooLong == \E i \in DOMAIN messages : Len(messages[i]) >= FragmentIDs * FragmentSize

\* The messages arrive whole and in the order in which Send began with them, and once
\* every packet was received all of them have arrived: also those of a length that is a
\* multiple of FragmentSize, and those of length 0.  Excepted are goroutines that send
\* in the middle of one another's messages, a session whose substream 0 did not get
\* the session key, and messages of 256 fragments.
MessagesArrive ==
    overlapped \/ TooLong \/ (~KeyAgreed /\ \E i \in DOMAIN messages : messages[i] # <<>>)
    \/ /\ \E k \in 0..Len(messages) : receiver.messages = SubSeq(messages, 1, k)
       /\ (\A g \in Goroutines : call[g] = Idle) /\ receiver.next > counter
             => receiver.messages = messages
==============================================================================
