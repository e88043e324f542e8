--------------------------- MODULE Sending_proofs ----------------------------
(***************************************************************************)
(* Proofs about Sending, for any number of substreams, goroutines and      *)
(* messages of any length, every fragment size and every number of         *)
(* fragment IDs: KeysFollowOrderAlways and MessagesArriveAlways.           *)
(*                                                                         *)
(* The second follows every packet: the invariant (Core) gives each packet *)
(* sent the place where it begins - its message, its offset in the message *)
(* and its place in the key stream - and says that the place of a packet   *)
(* follows from the one before it.  Sender and receiver are then two       *)
(* cursors on the same chain of places.                                    *)
(***************************************************************************)
EXTENDS Sending, SequenceTheorems, FiniteSetTheorems, WellFoundedInduction, TLAPS

------------------------------------------------------------------------------
(* The keys of the substreams *)

\* A set of numbers has a least one: what the induction over visits rests on.
LEMMA Least ==
    ASSUME NEW T, T \subseteq Nat, T # {}
    PROVE  \E x \in T : \A y \in T : x <= y
<1> DEFINE R == OpToRel(<, Nat)
<1>1. IsWellFoundedOn(R, Nat) BY NatLessThanWellFounded, Zenon
<1> HIDE DEF R
<1>2. PICK x \in T : \A y \in T : ~ (<<y, x>> \in R)
  BY <1>1, WFMin, Zenon
<1>3. \A y \in T : y < x => <<y, x>> \in R
  BY DEF R, OpToRel
<1>4. x \in Nat /\ \A y \in T : y \in Nat /\ ~(y < x) BY <1>2, <1>3, Zenon
<1>5. \A y \in T : x <= y BY <1>4
<1> QED BY <1>5

\* The position of substream 0 among the visits, or one that no visit has
ZeroAt(visits) == IF \E i \in DOMAIN visits : visits[i] = 0
                  THEN CHOOSE i \in DOMAIN visits : visits[i] = 0
                  ELSE Len(visits) + 1

\* The key after i visits
Counted(visits, i) == IF i < ZeroAt(visits) THEN i ELSE i - 1

\* SetSessionKey's loop counts the visits, without the one to substream 0.
LEMMA KeysCounted ==
    ASSUME NEW n \in Nat, NEW visits \in Seq(Nat), Len(visits) = n,
           \A i, j \in 1..n : i # j => visits[i] # visits[j],
           NEW s \in Range(visits)
    PROVE  \E i \in 1..n : visits[i] = s /\ SetSessionKey(visits)[s] = Counted(visits, i)
<1> DEFINE Step(f, i) == IF i = 0 THEN 0 ELSE KeyAfter(f[i - 1], visits[i])
           keys == CHOOSE f : f = [i \in 0..Len(visits) |-> Step(f, i)]
           z == ZeroAt(visits)
<1>1. DOMAIN visits = 1..n OBVIOUS
<1>2. z \in Nat \ {0} /\ \A i \in 1..n : visits[i] = 0 <=> i = z
  <2>1. CASE \E i \in 1..n : visits[i] = 0
    <3>1. z = CHOOSE i \in 1..n : visits[i] = 0 BY <1>1, <2>1 DEF ZeroAt
    <3>2. z \in 1..n /\ visits[z] = 0 BY <2>1, <3>1
    <3> QED BY <3>2
  <2>2. CASE ~\E i \in 1..n : visits[i] = 0
    <3>1. z = n + 1 BY <1>1, <2>2 DEF ZeroAt
    <3> QED BY <2>2, <3>1
  <2> QED BY <2>1, <2>2
<1> HIDE DEF z
<1> DEFINE w == [i \in 0..n |-> IF i < z THEN i ELSE i - 1]
<1>3. \A i \in 0..n : w[i] = Step(w, i)
  <2> TAKE i \in 0..n
  <2>1. CASE i = 0 BY <1>2, <2>1
  <2>2. CASE i # 0
    <3>1. i - 1 \in 0..n /\ i \in 1..n BY <2>2
    <3>2. w[i - 1] = (IF i - 1 < z THEN i - 1 ELSE (i - 1) - 1) /\ w[i] = (IF i < z THEN i ELSE i - 1)
      BY <3>1
    <3> HIDE DEF w
    <3>3. visits[i] = 0 <=> i = z BY <1>2, <3>1
    <3> QED BY <1>2, <2>2, <3>1, <3>2, <3>3 DEF KeyAfter
  <2> QED BY <2>1, <2>2
<1> HIDE DEF Step
<1>4. w = [i \in 0..Len(visits) |-> Step(w, i)] BY <1>3
<1> HIDE DEF w
<1>5. keys = [i \in 0..Len(visits) |-> Step(keys, i)] BY <1>4
<1>6. SetSessionKey(visits) = [t \in Range(visits) |-> keys[CHOOSE i \in DOMAIN visits : visits[i] = t]]
  BY DEF SetSessionKey, Step
<1> HIDE DEF keys
<1>7. \A i \in 0..n : keys[i] = w[i]
  <2> DEFINE T == {i \in 0..n : keys[i] # w[i]}
  <2> SUFFICES ASSUME T # {} PROVE FALSE OBVIOUS
  <2>1. PICK x \in T : \A y \in T : x <= y
    <3>1. T \subseteq Nat OBVIOUS
    <3> HIDE DEF T
    <3> QED BY <3>1, Least, Zenon
  <2>2. x \in 0..n /\ keys[x] # w[x] OBVIOUS
  <2>3. keys[x] = Step(keys, x) /\ w[x] = Step(w, x) BY <1>3, <1>5, <2>2
  <2>4. x # 0 BY <2>2, <2>3 DEF Step
  <2>5. x - 1 \in 0..n /\ x - 1 \notin T BY <2>1, <2>2, <2>4
  <2>6. keys[x - 1] = w[x - 1] BY <2>5
  <2> QED BY <2>2, <2>3, <2>4, <2>6 DEF Step
<1>8. PICK j \in 1..n : visits[j] = s BY <1>1 DEF Range
<1> DEFINE p == CHOOSE i \in DOMAIN visits : visits[i] = s
<1>9. p \in 1..n /\ visits[p] = s BY <1>1, <1>8
<1>10. SetSessionKey(visits)[s] = keys[p] BY <1>6
<1> HIDE DEF p
<1>11. keys[p] = Counted(visits, p) BY <1>7, <1>9 DEF w, Counted, z
<1> QED BY <1>9, <1>10, <1>11

\* The keys a session starts with
LEMMA InitKeys == SInit => KeysFollowOrder
<1> SUFFICES ASSUME SInit PROVE KeysFollowOrder OBVIOUS
<1> USE SendingAssumption
<1> DEFINE n == (maxSubstream + 1) % SubstreamIDs
<1>1. n \in Nat /\ Windows(maxSubstream) = 0..(n - 1)
  BY DEF SInit, Windows
<1>2. Cardinality(0..(n - 1)) = n
  <2>1. Cardinality(0..(n - 1)) = IF 0 > n - 1 THEN 0 ELSE (n - 1) - 0 + 1
    <3>1. 0 \in Int /\ n - 1 \in Int BY <1>1
    <3> HIDE DEF n
    <3> QED BY <3>1, FS_Interval
  <2> HIDE DEF n
  <2> QED BY <1>1, <2>1
<1>3. /\ order \in [1..n -> 0..(n - 1)] /\ \A i, j \in 1..n : i # j => order[i] # order[j]
      /\ cipher = SetSessionKey(order)
  BY <1>1, <1>2 DEF SInit, Bijection, Injection, IsInjective
<1> HIDE DEF n
<1>4. order \in Seq(Nat) /\ Len(order) = n /\ DOMAIN order = 1..n BY <1>1, <1>3
<1>5. DOMAIN cipher = Range(order)
  BY <1>3 DEF SetSessionKey
<1>6. \A s \in Range(order) : \E i \in 1..n : order[i] = s /\ cipher[s] = Counted(order, i)
  BY <1>1, <1>3, <1>4, KeysCounted
<1>7. \A i \in 1..n : order[i] \in Range(order) /\ cipher[order[i]] = Counted(order, i)
  <2> TAKE i \in 1..n
  <2>1. order[i] \in Range(order) BY <1>4 DEF Range
  <2>2. PICK j \in 1..n : order[j] = order[i] /\ cipher[order[i]] = Counted(order, j) BY <1>6, <2>1
  <2> QED BY <1>3, <2>1, <2>2
<1> DEFINE z == ZeroAt(order)
<1>8. \/ z \in 1..n /\ order[z] = 0
      \/ z = n + 1 /\ \A i \in 1..n : order[i] # 0
  <2>1. CASE \E i \in 1..n : order[i] = 0
    <3>1. z = CHOOSE i \in 1..n : order[i] = 0 BY <1>4, <2>1 DEF ZeroAt
    <3> QED BY <2>1, <3>1
  <2>2. CASE ~\E i \in 1..n : order[i] = 0 BY <1>4, <2>2 DEF ZeroAt
  <2> QED BY <2>1, <2>2
<1>9. \A i \in 1..n : cipher[order[i]] = IF i < z THEN i ELSE i - 1 BY <1>7 DEF Counted
<1> HIDE DEF z
<1>10. Ascending <=> \A i \in 1..n : order[i] = i - 1 BY <1>4 DEF Ascending
<1>11. (\A s \in DOMAIN cipher : cipher[s] = s) <=> \A i \in 1..n : cipher[order[i]] = order[i]
  BY <1>4, <1>5 DEF Range
<1>12. ASSUME \A i \in 1..n : order[i] = i - 1, NEW i \in 1..n PROVE cipher[order[i]] = order[i]
  <2>1. 1 \in 1..n /\ order[1] = 0 BY <1>1, <1>12
  <2>2. z = 1 BY <1>1, <1>3, <1>8, <2>1
  <2> QED BY <1>9, <1>12, <2>2
<1>13. ASSUME \A i \in 1..n : cipher[order[i]] = order[i], NEW i \in 1..n PROVE order[i] = i - 1
  <2>1. CASE z \in 1..n /\ order[z] = 0
    <3>1. z = 1 BY <1>9, <1>13, <2>1
    <3> QED BY <1>9, <1>13, <3>1
  <2>2. CASE z = n + 1
    <3>1. n \in 1..n /\ order[n] \in 0..(n - 1) BY <1>1, <1>3
    <3>2. cipher[order[n]] = n BY <1>9, <2>2, <3>1
    <3> QED BY <1>13, <3>1, <3>2
  <2> QED BY <1>8, <2>1, <2>2
<1> QED BY <1>10, <1>11, <1>12, <1>13 DEF KeysFollowOrder

\* SetSessionKey: for any number of substreams, they have the keys the other end derives
\* exactly if the map's windows were visited in ascending order.
THEOREM KeysFollowOrderAlways == SSpec => []KeysFollowOrder
<1>1. KeysFollowOrder /\ [SNext]_svars => KeysFollowOrder'
  <2>1. [SNext]_svars => UNCHANGED <<order, cipher>>
    BY Zenon DEF SNext, CallSend, NextFragment, NumberPacket, EncryptAndSend, Dispatch, svars
  <2> QED BY <2>1 DEF KeysFollowOrder, Ascending
<1> QED BY <1>1, InitKeys, PTL DEF SSpec

------------------------------------------------------------------------------
(* The way of the messages *)

\* A byte of a message: whose, and which
Byte == Nat \X Nat

\* Size of the fragment of M that begins after off bytes, and whether it is the last
LastAt(M, off) == Len(M) - off < FragmentSize
Size(M, off) == IF LastAt(M, off) THEN Len(M) - off ELSE FragmentSize

\* Where a packet begins: its message, its offset in it, its place in the key stream
Place == [msg : Nat \ {0}, off : Nat, pos : Nat]

\* The place after w, in a message M
Follows(v, w, M) ==
    /\ v.pos = w.pos + Size(M, w.off)
    /\ LastAt(M, w.off) => v.msg = w.msg + 1 /\ v.off = 0
    /\ ~LastAt(M, w.off) => v.msg = w.msg /\ v.off = w.off + FragmentSize

\* What the packet at place w of message M carries
PacketAt(p, w, M) ==
    /\ p.payload = SubSeq(M, w.off + 1, w.off + Size(M, w.off))
    /\ p.fragment = 0 <=> LastAt(M, w.off)
    /\ p.key = CipherOf(0)
    /\ p.position = w.pos

\* The packets 1..n sent, with their places
Chain(place, n) ==
    /\ place \in [1..(n + 1) -> Place]
    /\ \A i \in 1..n :
          /\ place[i].msg \in 1..Len(messages)
          /\ place[i].off <= Len(messages[place[i].msg])
          /\ Follows(place[i + 1], place[i], messages[place[i].msg])
    /\ \A p \in inTransit : /\ p.seq \in 1..n
                            /\ PacketAt(p, place[p.seq], messages[place[p.seq].msg])

\* The receiver has dispatched every packet before place w.
Received(w) ==
    /\ receiver.position = w.pos
    /\ receiver.messages = SubSeq(messages, 1, w.msg - 1)
    /\ receiver.buffer = IF w.off = 0 THEN <<>> ELSE SubSeq(messages[w.msg], 1, w.off)

\* A call of Send that is in the middle of its message
Active(g) == call[g].at \notin {"idle", "called"}

\* How far a call of Send is with the message at place w, after n packets
Working(c, w, n) ==
    LET M == messages[w.msg]
        size == Size(M, w.off)
    IN  /\ w.msg = Len(messages) /\ w.off <= Len(M)
        /\ \E k \in Nat : /\ w.off = k * FragmentSize
                          /\ c.at = "fragment" /\ k + 1 < FragmentIDs => c.fragment = k + 1
                          /\ c.at # "fragment" /\ k + 2 < FragmentIDs => c.fragment = k + 2
        /\ c.at = "fragment" => counter = n /\ c.left = SubSeq(M, w.off + 1, Len(M))
        /\ c.at # "fragment" =>
              /\ c.seq = n + 1
              /\ counter = IF c.at = "number" THEN n ELSE n + 1
              /\ c.left = SubSeq(M, w.off + size + 1, Len(M))
              /\ c.packet.payload = SubSeq(M, w.off + 1, w.off + size)
              /\ c.packet.last = LastAt(M, w.off)
              /\ c.packet.fragment = 0 <=> LastAt(M, w.off)

\* The calls of Send: at most one is in the middle of its message.
Sender(w, n) ==
    /\ \A g, h \in Goroutines : Active(g) /\ Active(h) => g = h
    /\ (\A g \in Goroutines : ~Active(g)) =>
          w.off = 0 /\ w.msg = Len(messages) + 1 /\ counter = n
    /\ \A g \in Goroutines : Active(g) => Working(call[g], w, n)

\* The n packets sent so far have these places; place[n + 1] is where the next begins.
At(place, n) ==
    /\ Chain(place, n)
    /\ Sender(place[n + 1], n)
    /\ position = place[n + 1].pos
    /\ receiver.next \in 1..(n + 1)
    /\ Received(place[receiver.next])

\* What holds while the sender's and the receiver's key streams and messages agree
Core == \E n \in Nat : \E place \in [1..(n + 1) -> Place] : At(place, n)

\* Substream 0 did not get the session key, and something was sent.
BadKey == ~KeyAgreed /\ \E i \in DOMAIN messages : messages[i] # <<>>

\* The calls of Send
Call == [at : {"idle", "called", "number", "encrypt", "fragment"}, left : Seq(Byte),
         fragment : Nat, seq : Nat,
         packet : {<<>>} \cup [fragment : Nat, last : BOOLEAN, payload : Seq(Byte)]]

\* The types of the variables
STypes ==
    /\ messages \in Seq(Seq(Byte))
    /\ call \in [Goroutines -> Call]
    /\ counter \in Nat
    /\ \A g \in Goroutines : /\ call[g].at = "idle" => call[g] = Idle
                             /\ call[g].at = "called" => call[g].fragment = 1
                             /\ call[g].at \in {"number", "encrypt"} => call[g].packet # <<>>

\* The inductive invariant of sending
SIInv == STypes /\ (overlapped \/ TooLong \/ BadKey \/ Core)

\* Nothing is sent at first, so nothing is missing.
LEMMA SInitInv == SInit => SIInv
<1> SUFFICES ASSUME SInit PROVE STypes /\ Core BY DEF SIInv
<1> USE SendingAssumption
<1>1. /\ messages = <<>> /\ call = [g \in Goroutines |-> Idle] /\ counter = 0 /\ inTransit = {}
      /\ position = 0
      /\ receiver = [next |-> 1, position |-> 0, buffer |-> <<>>, messages |-> <<>>]
  BY DEF SInit
<1>2. STypes
  <2>1. <<>> \in Seq(Byte) /\ <<>> \in Seq(Seq(Byte)) OBVIOUS
  <2>2. Idle \in Call /\ Idle.at = "idle" BY <2>1 DEF Call, Idle
  <2> QED BY <1>1, <2>1, <2>2 DEF STypes
<1>3. Core
  <2> DEFINE place == [i \in 1..(0 + 1) |-> [msg |-> 1, off |-> 0, pos |-> 0]]
  <2>1. place \in [1..(0 + 1) -> Place] /\ place[0 + 1] = place[1]
        /\ place[1] = [msg |-> 1, off |-> 0, pos |-> 0] BY DEF Place
  <2> HIDE DEF place
  <2>2. Chain(place, 0) BY <1>1, <2>1 DEF Chain
  <2>3. Sender(place[0 + 1], 0)
    <3>1. \A g \in Goroutines : ~Active(g) BY <1>1 DEF Active, Idle
    <3>2. Len(messages) = 0 BY <1>1
    <3> QED BY <1>1, <2>1, <3>1, <3>2 DEF Sender
  <2>4. Received(place[receiver.next])
    <3>1. SubSeq(messages, 1, 0) = <<>> BY <1>1
    <3> QED BY <1>1, <2>1, <3>1 DEF Received
  <2>5. receiver.next \in 1..(0 + 1) /\ position = place[0 + 1].pos BY <1>1, <2>1
  <2>6. At(place, 0) BY <2>2, <2>3, <2>4, <2>5 DEF At
  <2> QED BY <2>1, <2>6, Zenon DEF Core
<1> QED BY <1>2, <1>3

\* Slices of a sequence: their type and length, and slices of a slice
LEMMA Slices ==
    ASSUME NEW T, NEW s \in Seq(T), NEW i \in Nat, NEW j \in Nat, i <= j, j <= Len(s)
    PROVE  /\ SubSeq(s, i + 1, j) \in Seq(T) /\ Len(SubSeq(s, i + 1, j)) = j - i
           /\ SubSeq(s, 1, i) \o SubSeq(s, i + 1, j) = SubSeq(s, 1, j)
           /\ SubSeq(SubSeq(s, i + 1, Len(s)), 1, j - i) = SubSeq(s, i + 1, j)
           /\ SubSeq(SubSeq(s, i + 1, Len(s)), j - i + 1, Len(s) - i) = SubSeq(s, j + 1, Len(s))
<1>1. \A a, b \in Nat : b <= Len(s) =>
                            /\ SubSeq(s, a + 1, b) \in Seq(T)
                            /\ Len(SubSeq(s, a + 1, b)) = IF a <= b THEN b - a ELSE 0
                            /\ \A k \in 1..(b - a) : SubSeq(s, a + 1, b)[k] = s[a + k]
  <2> SUFFICES ASSUME NEW a \in Nat, NEW b \in Nat, b <= Len(s)
               PROVE  /\ SubSeq(s, a + 1, b) \in Seq(T)
                      /\ Len(SubSeq(s, a + 1, b)) = IF a <= b THEN b - a ELSE 0
                      /\ \A k \in 1..(b - a) : SubSeq(s, a + 1, b)[k] = s[a + k]
    OBVIOUS
  <2>1. a + 1 \in Int /\ b \in Int /\ \A k \in (a + 1)..b : s[k] \in T OBVIOUS
  <2>2. /\ SubSeq(s, a + 1, b) \in Seq(T)
        /\ Len(SubSeq(s, a + 1, b)) = IF a + 1 <= b THEN b - (a + 1) + 1 ELSE 0
        /\ \A k \in 1..(b - (a + 1) + 1) : SubSeq(s, a + 1, b)[k] = s[(a + 1) + k - 1]
    BY <2>1, SubSeqProperties, SMTT(30)
  <2>3. \A k \in 1..(b - a) : SubSeq(s, a + 1, b)[k] = s[a + k]
    <3> TAKE k \in 1..(b - a)
    <3>1. k \in 1..(b - (a + 1) + 1) /\ (a + 1) + k - 1 = a + k OBVIOUS
    <3> QED BY <2>2, <3>1
  <2> QED BY <2>2, <2>3
<1>2. SubSeq(s, i + 1, j) \in Seq(T) /\ Len(SubSeq(s, i + 1, j)) = j - i BY <1>1
<1>3. SubSeq(s, 1, i) \o SubSeq(s, i + 1, j) = SubSeq(s, 1, j)
  <2>1. 1 \in 1..(Len(s) + 1) /\ i \in (1 - 1)..Len(s) /\ j \in i..Len(s) OBVIOUS
  <2> QED BY <2>1, ConcatAdjacentSubSeq
<1> DEFINE t == SubSeq(s, i + 1, Len(s))
<1>4. t \in Seq(T) /\ Len(t) = Len(s) - i /\ \A k \in 1..(Len(s) - i) : t[k] = s[i + k] BY <1>1
<1> HIDE DEF t
<1>5. SubSeq(t, 1, j - i) = SubSeq(s, i + 1, j)
  <2> DEFINE u == SubSeq(t, 1, j - i)
             v == SubSeq(s, i + 1, j)
  <2>1. \A k \in 1..(j - i) : t[k] \in T BY <1>4
  <2>2. u \in Seq(T) /\ Len(u) = j - i /\ \A k \in 1..(j - i) : u[k] = t[k]
    <3>1. /\ u \in Seq(T) /\ Len(u) = (IF 1 <= j - i THEN (j - i) - 1 + 1 ELSE 0)
          /\ \A k \in 1..((j - i) - 1 + 1) : u[k] = t[1 + k - 1]
      BY <2>1, SubSeqProperties
    <3> QED BY <3>1
  <2>3. v \in Seq(T) /\ Len(v) = j - i /\ \A k \in 1..(j - i) : v[k] = s[i + k] BY <1>1
  <2> HIDE DEF u, v
  <2>4. \A k \in 1..(j - i) : u[k] = v[k] BY <1>4, <2>2, <2>3
  <2>5. u = v BY <2>2, <2>3, <2>4, SeqEqual
  <2> QED BY <2>5 DEF u, v
<1>6. SubSeq(t, j - i + 1, Len(s) - i) = SubSeq(s, j + 1, Len(s))
  <2> DEFINE u == SubSeq(t, j - i + 1, Len(s) - i)
             v == SubSeq(s, j + 1, Len(s))
  <2>1. \A k \in (j - i + 1)..(Len(s) - i) : t[k] \in T BY <1>4
  <2>2. u \in Seq(T) /\ Len(u) = Len(s) - j /\ \A k \in 1..(Len(s) - j) : u[k] = t[(j - i) + k]
    <3>1. /\ u \in Seq(T)
          /\ Len(u) = IF j - i + 1 <= Len(s) - i THEN (Len(s) - i) - (j - i + 1) + 1 ELSE 0
          /\ \A k \in 1..((Len(s) - i) - (j - i + 1) + 1) : u[k] = t[(j - i + 1) + k - 1]
      BY <2>1, SubSeqProperties
    <3>2. Len(u) = Len(s) - j BY <3>1
    <3>3. ASSUME NEW k \in 1..(Len(s) - j) PROVE u[k] = t[(j - i) + k]
      <4>1. k \in 1..((Len(s) - i) - (j - i + 1) + 1) /\ (j - i + 1) + k - 1 = (j - i) + k OBVIOUS
      <4> QED BY <3>1, <4>1
    <3> QED BY <3>1, <3>2, <3>3
  <2>3. v \in Seq(T) /\ Len(v) = Len(s) - j /\ \A k \in 1..(Len(s) - j) : v[k] = s[j + k] BY <1>1
  <2> HIDE DEF u, v
  <2>4. ASSUME NEW k \in 1..(Len(s) - j) PROVE u[k] = v[k]
    <3>1. (j - i) + k \in 1..(Len(s) - i) /\ i + ((j - i) + k) = j + k OBVIOUS
    <3> QED BY <1>4, <2>2, <2>3, <3>1
  <2>5. u = v BY <2>2, <2>3, <2>4, SeqEqual
  <2> QED BY <2>5 DEF u, v
<1> QED BY <1>2, <1>3, <1>5, <1>6 DEF t

\* A prefix, longer by one
LEMMA Prolonged ==
    ASSUME NEW T, NEW s \in Seq(T), NEW m \in 1..Len(s)
    PROVE  Append(SubSeq(s, 1, m - 1), s[m]) = SubSeq(s, 1, m)
<1>1. 1 \in 1..Len(s) /\ m \in 1..Len(s) /\ m - 1 \in Nat /\ m - 1 <= Len(s) /\ s[m] \in T OBVIOUS
<1>2. SubSeq(s, 1, m) = SubSeq(s, 1, m - 1) \o <<s[m]>> BY <1>1, SubSeqRecursiveSecond
<1>3. SubSeq(s, 1, m - 1) \in Seq(T)
  <2>1. \A k \in 1..(m - 1) : s[k] \in T OBVIOUS
  <2> QED BY <1>1, <2>1, SubSeqProperties
<1> QED BY <1>1, <1>2, <1>3, AppendIsConcat

\* A smaller multiple has a smaller factor: what keeps the fragment ID from returning to 0.
LEMMA Multiples ==
    ASSUME NEW k \in Nat, NEW n \in Nat, NEW f \in Nat \ {0}, k * f < n * f
    PROVE  k < n
<1> SUFFICES ASSUME k >= n PROVE FALSE OBVIOUS
<1> DEFINE d == k - n
<1>1. d \in Nat /\ k = n + d OBVIOUS
<1> HIDE DEF d
<1>2. (n + d) * f = n * f + d * f BY <1>1
<1>3. d * f >= 0 BY <1>1
<1> QED BY <1>1, <1>2, <1>3

\* Every step keeps the types.
LEMMA STypesStep == STypes /\ SNext => STypes'
<1> SUFFICES ASSUME STypes, SNext PROVE STypes' OBVIOUS
<1> USE SendingAssumption
<1>0. \A g \in Goroutines : call[g] \in Call BY DEF STypes
<1>1. ASSUME NEW g \in Goroutines, NEW e \in Call, call' = [call EXCEPT ![g] = e],
             e.at = "idle" => e = Idle, e.at = "called" => e.fragment = 1,
             e.at \in {"number", "encrypt"} => e.packet # <<>>,
             messages' \in Seq(Seq(Byte)), counter' \in Nat
      PROVE  STypes'
  <2>1. call' \in [Goroutines -> Call] /\ call'[g] = e
        /\ \A h \in Goroutines \ {g} : call'[h] = call[h]
    BY <1>1 DEF STypes
  <2> QED BY <1>1, <2>1 DEF STypes
<1>2. ASSUME NEW g \in Goroutines, NEW n \in Lengths, CallSend(g, n) PROVE STypes'
  <2> DEFINE left == [i \in 1..n |-> <<Calls + 1, i>>]
             e == [Idle EXCEPT !.at = "called", !.fragment = 1, !.left = left]
  <2>1. Calls \in Nat
    <3>1. IsFiniteSet({h \in Goroutines : call[h].at = "called"})
      BY FS_Subset
    <3>2. Cardinality({h \in Goroutines : call[h].at = "called"}) \in Nat
      BY <3>1, FS_CardinalityType
    <3>3. Len(messages) \in Nat BY DEF STypes
    <3> QED BY <3>2, <3>3 DEF Calls
  <2>2. left \in Seq(Byte)
    <3>1. n \in Nat /\ \A i \in 1..n : <<Calls + 1, i>> \in Byte BY <2>1 DEF Byte
    <3> HIDE DEF Byte
    <3> QED BY <3>1, IsASeq
  <2> HIDE DEF left
  <2>3. e \in Call /\ e.at = "called" /\ e.fragment = 1
    BY <2>2, Zenon DEF Idle, Call
  <2>4. call' = [call EXCEPT ![g] = e] BY <1>2 DEF CallSend, left
  <2>5. messages' \in Seq(Seq(Byte)) /\ counter' \in Nat BY <1>2 DEF CallSend, STypes
  <2> HIDE DEF e
  <2> QED BY <1>1, <2>3, <2>4, <2>5, Zenon
<1>3. ASSUME NEW g \in Goroutines, NextFragment(g) PROVE STypes'
  <2> DEFINE c == call[g]
             size == IF IsLast(c.left) THEN Len(c.left) ELSE FragmentSize
             rest == SubSeq(c.left, size + 1, Len(c.left))
             part == SubSeq(c.left, 1, size)
             packet == [fragment |-> IF IsLast(c.left) THEN 0 ELSE c.fragment,
                        last |-> IsLast(c.left), payload |-> part]
             e == [at |-> "number", left |-> rest, fragment |-> (c.fragment + 1) % FragmentIDs,
                   seq |-> counter + 1, packet |-> packet]
  <2>1. c \in Call BY <1>0
  <2>2. c.left \in Seq(Byte) /\ c.fragment \in Nat /\ counter \in Nat BY <2>1 DEF Call, STypes
  <2>3. size \in Nat /\ size <= Len(c.left)
    BY <2>2 DEF IsLast
  <2>4. call' = [call EXCEPT ![g] = e] BY <1>3 DEF NextFragment
  <2>5. messages' \in Seq(Seq(Byte)) /\ counter' \in Nat
    <3>1. messages' = messages \/ messages' = Append(messages, c.left) BY <1>3 DEF NextFragment
    <3>2. messages \in Seq(Seq(Byte)) BY DEF STypes
    <3>3. Append(messages, c.left) \in Seq(Seq(Byte)) BY <2>2, <3>2, AppendProperties
    <3>4. counter' = counter BY <1>3 DEF NextFragment
    <3> QED BY <2>2, <3>1, <3>2, <3>3, <3>4
  <2> HIDE DEF size
  <2>6. part \in Seq(Byte) /\ rest \in Seq(Byte)
    <3>1. /\ 0 \in Nat /\ Len(c.left) \in Nat /\ 0 <= size /\ 0 + 1 = 1
          /\ Len(c.left) <= Len(c.left)
      BY <2>2, <2>3
    <3>2. SubSeq(c.left, 0 + 1, size) \in Seq(Byte) BY <2>2, <2>3, <3>1, Slices
    <3>3. SubSeq(c.left, size + 1, Len(c.left)) \in Seq(Byte) BY <2>2, <2>3, <3>1, Slices
    <3> QED BY <3>1, <3>2, <3>3
  <2>7. (c.fragment + 1) % FragmentIDs \in Nat BY <2>2
  <2> HIDE DEF part, rest
  <2>8. IsLast(c.left) \in BOOLEAN BY DEF IsLast
  <2>9. packet \in [fragment : Nat, last : BOOLEAN, payload : Seq(Byte)] BY <2>2, <2>6, <2>8
  <2>10. packet # <<>>
    <3>1. DOMAIN packet = {"fragment", "last", "payload"} OBVIOUS
    <3>2. "last" \notin DOMAIN <<>> OBVIOUS
    <3> QED BY <3>1, <3>2
  <2> HIDE DEF packet
  <2>11. e \in Call /\ e.at = "number" /\ e.packet = packet BY <2>2, <2>6, <2>7, <2>9 DEF Call
  <2> HIDE DEF e
  <2> QED BY <1>1, <2>4, <2>5, <2>10, <2>11, Zenon
<1>4. ASSUME NEW g \in Goroutines, NumberPacket(g) PROVE STypes'
  <2> DEFINE c == call[g]
             e == [c EXCEPT !.at = "encrypt"]
  <2>1. c \in Call BY <1>0
  <2>2. e \in Call /\ e.at = "encrypt" /\ e.packet = c.packet BY <2>1 DEF Call
  <2>3. c.packet # <<>> BY <1>4 DEF NumberPacket, STypes
  <2>4. call' = [call EXCEPT ![g] = e] BY <1>4 DEF NumberPacket
  <2>5. messages' \in Seq(Seq(Byte)) /\ counter' \in Nat
    BY <1>4, <2>1 DEF NumberPacket, STypes, Call
  <2> HIDE DEF e
  <2> QED BY <1>1, <2>2, <2>3, <2>4, <2>5, Zenon
<1>5. ASSUME NEW g \in Goroutines, EncryptAndSend(g) PROVE STypes'
  <2> DEFINE c == call[g]
             e == IF c.packet.last THEN Idle ELSE [c EXCEPT !.at = "fragment"]
  <2>1. c \in Call BY <1>0
  <2>2. Idle \in Call /\ Idle.at = "idle"
    <3>1. <<>> \in Seq(Byte) OBVIOUS
    <3> QED BY <3>1 DEF Call, Idle
  <2>3. [c EXCEPT !.at = "fragment"] \in Call /\ [c EXCEPT !.at = "fragment"].at = "fragment"
    BY <2>1 DEF Call
  <2>4. call' = [call EXCEPT ![g] = e] BY <1>5 DEF EncryptAndSend
  <2>5. messages' \in Seq(Seq(Byte)) /\ counter' \in Nat
    BY <1>5 DEF EncryptAndSend, STypes
  <2> QED BY <1>1, <2>2, <2>3, <2>4, <2>5, Zenon
<1>6. ASSUME NEW p \in inTransit, Dispatch(p) PROVE STypes'
  BY <1>6 DEF Dispatch, STypes
<1> QED BY <1>2, <1>3, <1>4, <1>5, <1>6 DEF SNext

\* A message that is too long, or was sent with a wrong key, stays so.
LEMMA Lasting == STypes /\ SNext => /\ TooLong => TooLong'
                                    /\ BadKey => BadKey'
<1> SUFFICES ASSUME STypes, SNext PROVE (TooLong => TooLong') /\ (BadKey => BadKey') OBVIOUS
<1>1. CipherOf(0)' = CipherOf(0) /\ cipher' = cipher
  BY Zenon DEF SNext, CallSend, NextFragment, NumberPacket, EncryptAndSend, Dispatch, CipherOf
<1>2. messages \in Seq(Seq(Byte)) BY DEF STypes
<1>3. messages' = messages \/ \E g \in Goroutines : messages' = Append(messages, call[g].left)
  BY Zenon DEF SNext, CallSend, NextFragment, NumberPacket, EncryptAndSend, Dispatch
<1>4. \A i \in DOMAIN messages : i \in DOMAIN messages' /\ messages'[i] = messages[i]
  <2>1. CASE messages' = messages BY <2>1
  <2>2. ASSUME NEW g \in Goroutines, messages' = Append(messages, call[g].left)
        PROVE \A i \in DOMAIN messages : i \in DOMAIN messages' /\ messages'[i] = messages[i]
    <3>1. call[g].left \in Seq(Byte) BY DEF STypes, Call
    <3> QED BY <1>2, <2>2, <3>1
  <2> QED BY <1>3, <2>1, <2>2
<1>5. TooLong => TooLong' BY <1>4 DEF TooLong
<1>6. BadKey => BadKey' BY <1>1, <1>4 DEF BadKey, KeyAgreed
<1> QED BY <1>5, <1>6

\* A fragment lies in its message, and the last one ends it.
LEMMA Sizes ==
    ASSUME NEW M \in Seq(Byte), NEW off \in Nat, off <= Len(M)
    PROVE  /\ Len(M) \in Nat /\ LastAt(M, off) \in BOOLEAN
           /\ Size(M, off) \in Nat /\ off + Size(M, off) <= Len(M)
           /\ LastAt(M, off) => off + Size(M, off) = Len(M)
           /\ ~LastAt(M, off) => Size(M, off) = FragmentSize
BY SendingAssumption DEF Size, LastAt

\* How long a slice is
LEMMA SliceLen ==
    ASSUME NEW T, NEW s \in Seq(T), NEW i \in Nat, NEW j \in Nat, i <= j, j <= Len(s)
    PROVE  Len(SubSeq(s, i + 1, j)) = j - i
BY Slices, Zenon

\* A place is made of three numbers.
LEMMA PlaceMade ==
    ASSUME NEW msg \in Nat \ {0}, NEW off \in Nat, NEW pos \in Nat
    PROVE  [msg |-> msg, off |-> off, pos |-> pos] \in Place
BY DEF Place

\* A new call of Send changes nothing of the others.
LEMMA CoreCall ==
    ASSUME STypes, NEW n \in Nat, NEW place \in [1..(n + 1) -> Place], At(place, n),
           NEW g \in Goroutines, NEW m \in Lengths, CallSend(g, m)
    PROVE  At(place, n)'
<1>1. /\ UNCHANGED <<cipher, counter, position, messages, inTransit, receiver>>
      /\ call[g] = Idle
      /\ \A h \in Goroutines \ {g} : call'[h] = call[h]
      /\ call'[g].at = "called"
  BY DEF CallSend, STypes, Idle
<1>2. \A h \in Goroutines : Active(h)' = Active(h) BY <1>1 DEF Active, Idle
<1>3. \A h \in Goroutines : Active(h) => call'[h] = call[h] BY <1>1 DEF Active, Idle
<1>4. Chain(place, n)' BY <1>1 DEF At, Chain, PacketAt, CipherOf
<1>5. Sender(place[n + 1], n)'
  <2>1. \A h \in Goroutines : Active(h) => Working(call[h], place[n + 1], n)'
    <3> TAKE h \in Goroutines
    <3> HAVE Active(h)
    <3>1. Working(call[h], place[n + 1], n) BY DEF At, Sender
    <3>2. call'[h] = call[h] BY <1>3
    <3> QED BY <1>1, <3>1, <3>2 DEF Working
  <2> QED BY <1>1, <1>2, <1>3, <2>1 DEF At, Sender
<1>6. receiver'.next \in 1..(n + 1) /\ Received(place[receiver.next])'
  BY <1>1 DEF At, Received
<1> QED BY <1>1, <1>4, <1>5, <1>6 DEF At

\* The write of the sequence ID counter
LEMMA CoreNumber ==
    ASSUME STypes, NEW n \in Nat, NEW place \in [1..(n + 1) -> Place], At(place, n),
           NEW g \in Goroutines, NumberPacket(g)
    PROVE  At(place, n)'
<1> DEFINE c == call[g]
           e == [c EXCEPT !.at = "encrypt"]
           w == place[n + 1]
<1>1. /\ UNCHANGED <<cipher, position, messages, inTransit, receiver>> /\ c.at = "number"
      /\ \A h \in Goroutines \ {g} : call'[h] = call[h]
      /\ call'[g] = e /\ counter' = c.seq
  BY DEF NumberPacket, STypes
<1>2. c \in Call BY DEF STypes
<1>3. /\ e.at = "encrypt" /\ e.left = c.left /\ e.fragment = c.fragment /\ e.seq = c.seq
      /\ e.packet = c.packet
  BY <1>2 DEF Call
<1> HIDE DEF e
<1>4. \A h \in Goroutines : Active(h)' = Active(h) BY <1>1, <1>3 DEF Active
<1>5. Active(g) BY <1>1 DEF Active
<1>6. Chain(place, n)' BY <1>1 DEF At, Chain, PacketAt, CipherOf
<1>7. Working(call[g], w, n)'
  <2>1. Working(c, w, n) BY <1>5 DEF At, Sender
  <2>2. counter' = n + 1 BY <1>1, <2>1 DEF Working
  <2> QED BY <1>1, <1>3, <2>1, <2>2 DEF Working
<1>8. Sender(w, n)'
  <2>1. \A h \in Goroutines : Active(h) => h = g BY <1>5 DEF At, Sender
  <2> QED BY <1>1, <1>4, <1>5, <1>7, <2>1 DEF Sender
<1>9. receiver'.next \in 1..(n + 1) /\ Received(place[receiver.next])'
  BY <1>1 DEF At, Received
<1> QED BY <1>1, <1>6, <1>8, <1>9 DEF At

\* Send cuts the next fragment at the place of the next packet.
LEMMA CoreFragment ==
    ASSUME STypes, STypes', NEW n \in Nat, NEW place \in [1..(n + 1) -> Place], At(place, n),
           NEW g \in Goroutines, NextFragment(g), ~overlapped', ~TooLong'
    PROVE  At(place, n)'
<1> USE SendingAssumption
<1> DEFINE c == call[g]
           size == IF IsLast(c.left) THEN Len(c.left) ELSE FragmentSize
           packet == [fragment |-> IF IsLast(c.left) THEN 0 ELSE c.fragment,
                      last |-> IsLast(c.left), payload |-> SubSeq(c.left, 1, size)]
           e == [at |-> "number", left |-> SubSeq(c.left, size + 1, Len(c.left)),
                 fragment |-> (c.fragment + 1) % FragmentIDs,
                 seq |-> counter + 1, packet |-> packet]
           w == place[n + 1]
<1>1. /\ UNCHANGED <<cipher, counter, position, inTransit, receiver>>
      /\ c.at \in {"called", "fragment"}
      /\ \A h \in Goroutines \ {g} : call'[h] = call[h] /\ ~Active(h)
      /\ call'[g] = e
      /\ messages' = IF c.at = "called" THEN Append(messages, c.left) ELSE messages
  BY Zenon DEF NextFragment, STypes, Active
<1>2. c \in Call BY DEF STypes
<1>3. c.left \in Seq(Byte) /\ c.fragment \in Nat BY <1>2 DEF Call
<1>4. messages \in Seq(Seq(Byte)) /\ messages' \in Seq(Seq(Byte)) BY DEF STypes
<1>5. w \in Place /\ w.msg \in Nat \ {0} /\ w.off \in Nat /\ w.pos \in Nat
  <2>1. w \in Place OBVIOUS
  <2> QED BY <2>1 DEF Place
\* The message the fragment is of, and how far Send has come with it
<1> DEFINE M == messages'[w.msg]
<1>6. /\ w.msg = Len(messages') /\ M \in Seq(Byte) /\ w.off <= Len(M) /\ counter = n
      /\ c.left = SubSeq(M, w.off + 1, Len(M))
  <2>1. CASE c.at = "called"
    <3>1. \A h \in Goroutines : ~Active(h) BY <1>1, <2>1 DEF Active
    <3>2. w.off = 0 /\ w.msg = Len(messages) + 1 /\ counter = n BY <3>1 DEF At, Sender
    <3>3. Len(messages') = Len(messages) + 1 /\ M = c.left BY <1>1, <1>3, <1>4, <2>1, <3>2
    <3>4. c.left = SubSeq(M, w.off + 1, Len(M))
      BY <1>3, <3>2, <3>3, SubSeqFull
    <3>5. w.off <= Len(c.left) BY <1>3, <3>2
    <3> QED BY <1>3, <3>2, <3>3, <3>4, <3>5
  <2>2. CASE c.at = "fragment"
    <3>1. messages' = messages /\ Active(g) BY <1>1, <2>2 DEF Active
    <3>2. Working(c, w, n) BY <3>1 DEF At, Sender
    <3>3. w.msg = Len(messages) /\ w.off <= Len(messages[w.msg]) /\ counter = n
          /\ c.left = SubSeq(messages[w.msg], w.off + 1, Len(messages[w.msg]))
      BY <2>2, <3>2, Zenon DEF Working
    <3>4. messages[w.msg] \in Seq(Byte) BY <1>4, <1>5, <3>3
    <3> QED BY <3>1, <3>3, <3>4
  <2> QED BY <1>1, <2>1, <2>2
<1>60. \E k \in Nat : w.off = k * FragmentSize /\ (k + 1 < FragmentIDs => c.fragment = k + 1)
  <2>1. CASE c.at = "called"
    <3>1. \A h \in Goroutines : ~Active(h) BY <1>1, <2>1 DEF Active
    <3>2. w.off = 0 BY <3>1 DEF At, Sender
    <3>3. c.fragment = 1 BY <2>1 DEF STypes
    <3>4. w.off = 0 * FragmentSize BY <3>2
    <3> QED BY <3>3, <3>4
  <2>2. CASE c.at = "fragment"
    <3>1. Active(g) BY <2>2 DEF Active
    <3>2. Working(c, w, n) BY <3>1 DEF At, Sender
    <3> QED BY <2>2, <3>2 DEF Working
  <2> QED BY <1>1, <2>1, <2>2
<1>7. \A i \in 1..Len(messages) : i \in 1..Len(messages') /\ messages'[i] = messages[i]
  <2>1. messages' = messages \/ messages' = Append(messages, c.left) BY <1>1, Zenon
  <2>2. messages \in Seq(Seq(Byte)) /\ c.left \in Seq(Byte) BY <1>3, <1>4
  <2> HIDE DEF c
  <2>3. CASE messages' = messages BY <2>2, <2>3
  <2>4. CASE messages' = Append(messages, c.left) BY <2>2, <2>4
  <2> QED BY <2>1, <2>3, <2>4
<1> HIDE DEF M
<1>8. /\ Len(M) \in Nat /\ size = Size(M, w.off) /\ IsLast(c.left) = LastAt(M, w.off)
      /\ Size(M, w.off) \in Nat /\ w.off + Size(M, w.off) <= Len(M)
      /\ Len(c.left) = Len(M) - w.off
  <2>1. Len(M) \in Nat /\ Size(M, w.off) \in Nat /\ w.off + Size(M, w.off) <= Len(M)
    BY <1>5, <1>6, Sizes, Zenon
  <2>2. Len(c.left) = Len(M) - w.off
    <3> DEFINE j == Len(M)
    <3>1. j \in Nat /\ w.off <= j /\ j <= Len(M) BY <1>6, <2>1
    <3>2. Len(SubSeq(M, w.off + 1, j)) = j - w.off
      <4> HIDE DEF j
      <4> QED BY <1>5, <1>6, <3>1, Slices
    <3> QED BY <1>6, <3>2, Zenon
  <2> QED BY <2>1, <2>2 DEF Size, LastAt, IsLast
<1>9. /\ SubSeq(c.left, 1, size) = SubSeq(M, w.off + 1, w.off + Size(M, w.off))
      /\ SubSeq(c.left, size + 1, Len(c.left)) = SubSeq(M, w.off + Size(M, w.off) + 1, Len(M))
  <2> DEFINE i == w.off
             j == w.off + Size(M, w.off)
  <2>1. i \in Nat /\ j \in Nat /\ i <= j /\ j <= Len(M) /\ j - i = size BY <1>5, <1>8
  <2>2. /\ SubSeq(SubSeq(M, i + 1, Len(M)), 1, j - i) = SubSeq(M, i + 1, j)
        /\ SubSeq(SubSeq(M, i + 1, Len(M)), j - i + 1, Len(M) - i) = SubSeq(M, j + 1, Len(M))
    <3> HIDE DEF i, j
    <3> QED BY <1>6, <2>1, Slices
  <2> HIDE DEF size
  <2> QED BY <1>6, <1>8, <2>1, <2>2, Zenon
<1>10. PICK k \in Nat : w.off = k * FragmentSize /\ (k + 1 < FragmentIDs => c.fragment = k + 1)
  BY <1>60
<1> HIDE DEF size
<1>11. /\ e.at = "number" /\ e.left = SubSeq(M, w.off + Size(M, w.off) + 1, Len(M))
       /\ e.fragment = (c.fragment + 1) % FragmentIDs /\ e.seq = n + 1
       /\ e.packet.payload = SubSeq(M, w.off + 1, w.off + Size(M, w.off))
       /\ e.packet.last = LastAt(M, w.off)
       /\ e.packet.fragment = IF LastAt(M, w.off) THEN 0 ELSE c.fragment
  BY <1>6, <1>8, <1>9, Zenon
<1> HIDE DEF e, packet
<1>12. ~LastAt(M, w.off) => c.fragment # 0
  <2> SUFFICES ASSUME ~LastAt(M, w.off) PROVE c.fragment # 0 OBVIOUS
  <2>1. Len(M) < FragmentIDs * FragmentSize
    <3>1. w.msg \in DOMAIN messages' BY <1>4, <1>5, <1>6
    <3>2. ~(Len(messages'[w.msg]) >= FragmentIDs * FragmentSize) BY <3>1 DEF TooLong
    <3>3. FragmentIDs * FragmentSize \in Nat OBVIOUS
    <3> QED BY <1>8, <3>2, <3>3 DEF M
  <2>2. (k + 1) * FragmentSize = k * FragmentSize + FragmentSize OBVIOUS
  <2>3. (k + 1) * FragmentSize <= Len(M) BY <1>5, <1>8, <1>10, <2>2 DEF LastAt
  <2>4. (k + 1) * FragmentSize < FragmentIDs * FragmentSize
    <3>1. (k + 1) * FragmentSize \in Nat /\ FragmentIDs * FragmentSize \in Nat OBVIOUS
    <3> QED BY <1>8, <2>1, <2>3, <3>1
  <2>5. k + 1 < FragmentIDs BY <2>4, Multiples
  <2> QED BY <1>10, <2>5
<1>13. k + 2 < FragmentIDs => e.fragment = k + 2
  <2> SUFFICES ASSUME k + 2 < FragmentIDs PROVE e.fragment = k + 2 OBVIOUS
  <2>1. c.fragment = k + 1 BY <1>10
  <2>2. (k + 2) % FragmentIDs = k + 2 OBVIOUS
  <2> QED BY <1>11, <2>1, <2>2
<1>14. Working(call[g], w, n)'
  <2>1. e.at # "fragment" BY <1>11
  <2>2. \E j \in Nat : /\ w.off = j * FragmentSize
                       /\ e.at = "fragment" /\ j + 1 < FragmentIDs => e.fragment = j + 1
                       /\ e.at # "fragment" /\ j + 2 < FragmentIDs => e.fragment = j + 2
    BY <1>10, <1>13, <2>1
  <2>3. e.packet.fragment = 0 <=> LastAt(M, w.off) BY <1>11, <1>12
  <2>4. counter' = n BY <1>1, <1>6
  <2> QED BY <1>1, <1>6, <1>11, <2>1, <2>2, <2>3, <2>4, Zenon DEF Working, M
<1>15. Chain(place, n)'
  <2>1. \A i \in 1..n : messages'[place[i].msg] = messages[place[i].msg]
                        /\ place[i].msg \in 1..Len(messages')
    BY <1>7 DEF At, Chain
  <2>2. \A i \in 1..n : /\ place[i].off <= Len(messages'[place[i].msg])
                        /\ Follows(place[i + 1], place[i], messages'[place[i].msg])
    BY <2>1, Zenon DEF At, Chain
  <2>3. \A p \in inTransit : /\ p.seq \in 1..n
                             /\ PacketAt(p, place[p.seq], messages[place[p.seq].msg])'
    <3>1. CipherOf(0)' = CipherOf(0) BY <1>1 DEF CipherOf
    <3> QED BY <1>1, <2>1, <3>1 DEF At, Chain, PacketAt
  <2> QED BY <1>1, <2>1, <2>2, <2>3 DEF Chain
<1>16. Sender(w, n)'
  <2>1. Active(g)' /\ \A h \in Goroutines \ {g} : ~Active(h)' BY <1>1, <1>11 DEF Active
  <2> QED BY <1>1, <1>14, <2>1 DEF Sender
<1>17. receiver'.next \in 1..(n + 1) /\ Received(place[receiver.next])'
  <2> DEFINE r == receiver.next
             v == place[r]
  <2>1. r \in 1..(n + 1) /\ v \in Place BY DEF At
  <2>2. v.msg \in Nat \ {0} /\ v.off \in Nat BY <2>1 DEF Place
  <2>3. Received(v) BY DEF At
  <2>4. v.msg - 1 <= Len(messages) /\ (v.off # 0 => messages'[v.msg] = messages[v.msg])
    <3>1. CASE r \in 1..n
      <4>1. v.msg \in 1..Len(messages) BY <3>1, Zenon DEF At, Chain
      <4> HIDE DEF v
      <4> QED BY <1>4, <1>7, <2>2, <4>1
    <3>2. CASE r = n + 1
      <4>1. CASE c.at = "called"
        <5>1. \A h \in Goroutines : ~Active(h) BY <1>1, <4>1 DEF Active
        <5>2. w.off = 0 /\ w.msg = Len(messages) + 1 BY <5>1, Zenon DEF At, Sender
        <5>3. v = w BY <3>2, Zenon
        <5> HIDE DEF v, w
        <5> QED BY <1>4, <5>2, <5>3
      <4>2. CASE c.at = "fragment" BY <1>1, <1>4, <1>6, <3>2, <4>2
      <4> QED BY <1>1, <4>1, <4>2, Zenon
    <3> QED BY <2>1, <3>1, <3>2
  <2>5. SubSeq(messages', 1, v.msg - 1) = SubSeq(messages, 1, v.msg - 1)
    <3>1. CASE messages' = messages BY <3>1
    <3>2. CASE messages' = Append(messages, c.left)
      <4> HIDE DEF c, v
      <4> QED BY <1>3, <1>4, <2>2, <2>4, <3>2
    <3> QED BY <1>1, <3>1, <3>2, Zenon
  <2> QED BY <1>1, <2>1, <2>3, <2>4, <2>5, Zenon DEF Received
<1> QED BY <1>1, <1>15, <1>16, <1>17 DEF At

\* The packet is sent, and the next place follows it.
LEMMA CoreEncrypt ==
    ASSUME STypes, NEW n \in Nat, NEW place \in [1..(n + 1) -> Place], At(place, n),
           NEW g \in Goroutines, EncryptAndSend(g)
    PROVE  Core'
<1> USE SendingAssumption
<1> DEFINE c == call[g]
           w == place[n + 1]
           M == messages[w.msg]
           packet == [seq |-> c.seq, fragment |-> c.packet.fragment, payload |-> c.packet.payload,
                      key |-> CipherOf(0), position |-> position]
           e == IF c.packet.last THEN Idle ELSE [c EXCEPT !.at = "fragment"]
<1>1. /\ UNCHANGED <<cipher, counter, messages, receiver>> /\ c.at = "encrypt"
      /\ \A h \in Goroutines \ {g} : call'[h] = call[h]
      /\ call'[g] = e
      /\ inTransit' = inTransit \cup {packet}
      /\ position' = position + Len(c.packet.payload)
  BY DEF EncryptAndSend, STypes
<1>2. c \in Call BY DEF STypes
<1>3. Active(g) /\ \A h \in Goroutines \ {g} : ~Active(h) BY <1>1 DEF Active, At, Sender
<1>4. Working(c, w, n) BY <1>3 DEF At, Sender
<1>5. w \in Place /\ w.msg \in Nat \ {0} /\ w.off \in Nat /\ w.pos \in Nat
  <2>1. w \in Place OBVIOUS
  <2> QED BY <2>1 DEF Place
<1>6. messages \in Seq(Seq(Byte)) BY DEF STypes
<1>7. /\ w.msg = Len(messages) /\ M \in Seq(Byte) /\ w.off <= Len(M)
      /\ c.seq = n + 1 /\ counter = n + 1
      /\ c.left = SubSeq(M, w.off + Size(M, w.off) + 1, Len(M))
      /\ c.packet.payload = SubSeq(M, w.off + 1, w.off + Size(M, w.off))
      /\ c.packet.last = LastAt(M, w.off)
      /\ c.packet.fragment = 0 <=> LastAt(M, w.off)
      /\ \E k \in Nat : /\ w.off = k * FragmentSize
                        /\ k + 2 < FragmentIDs => c.fragment = k + 2
  <2>1. w.msg = Len(messages) BY <1>4 DEF Working
  <2>2. M \in Seq(Byte) BY <1>5, <1>6, <2>1
  <2> QED BY <1>1, <1>4, <2>1, <2>2 DEF Working
<1> HIDE DEF M
<1>8. /\ Len(M) \in Nat /\ LastAt(M, w.off) \in BOOLEAN
      /\ Size(M, w.off) \in Nat /\ w.off + Size(M, w.off) <= Len(M)
      /\ LastAt(M, w.off) => w.off + Size(M, w.off) = Len(M)
      /\ ~LastAt(M, w.off) => Size(M, w.off) = FragmentSize
  BY <1>5, <1>7, Sizes
<1>9. Len(c.packet.payload) = Size(M, w.off)
  <2> DEFINE i == w.off
             j == w.off + Size(M, w.off)
  <2>1. i \in Nat /\ j \in Nat /\ i <= j /\ j <= Len(M) /\ j - i = Size(M, w.off) BY <1>5, <1>8
  <2>2. Len(SubSeq(M, i + 1, j)) = j - i
    <3>1. M \in Seq(Byte) BY <1>7
    <3> HIDE DEF i, j
    <3> QED BY <2>1, <3>1, SliceLen, Zenon
  <2> QED BY <1>7, <2>1, <2>2
<1>10. PICK v \in Place : Follows(v, w, M)
  <2>0. Size(M, w.off) \in Nat BY <1>8, Zenon
  <2> HIDE DEF w
  <2>1. CASE LastAt(M, w.off)
    <3> DEFINE u == [msg |-> w.msg + 1, off |-> 0, pos |-> w.pos + Size(M, w.off)]
    <3>1. u \in Place /\ u.msg = w.msg + 1 /\ u.off = 0 /\ u.pos = w.pos + Size(M, w.off)
      <4>1. w.msg + 1 \in Nat \ {0} /\ 0 \in Nat /\ w.pos + Size(M, w.off) \in Nat BY <1>5, <2>0
      <4> QED BY <4>1, PlaceMade, Zenon
    <3> QED BY <2>1, <3>1 DEF Follows
  <2>2. CASE ~LastAt(M, w.off)
    <3> DEFINE u == [msg |-> w.msg, off |-> w.off + FragmentSize, pos |-> w.pos + Size(M, w.off)]
    <3>1. u \in Place /\ u.msg = w.msg /\ u.off = w.off + FragmentSize
          /\ u.pos = w.pos + Size(M, w.off)
      <4>1. w.off + FragmentSize \in Nat BY <1>5
      <4>2. w.pos + Size(M, w.off) \in Nat BY <1>5, <2>0
      <4> QED BY <1>5, <4>1, <4>2, PlaceMade, Zenon
    <3> QED BY <2>2, <3>1 DEF Follows
  <2> QED BY <2>1, <2>2
<1>11. v.pos = w.pos + Size(M, w.off)
       /\ (LastAt(M, w.off) => v.msg = w.msg + 1 /\ v.off = 0)
       /\ (~LastAt(M, w.off) => v.msg = w.msg /\ v.off = w.off + FragmentSize)
  BY <1>10 DEF Follows
<1>12. PICK next \in [1..(n + 2) -> Place] :
           next[n + 2] = v /\ \A i \in 1..(n + 1) : next[i] = place[i]
  <2> DEFINE f == [i \in 1..(n + 2) |-> IF i <= n + 1 THEN place[i] ELSE v]
  <2>1. f \in [1..(n + 2) -> Place] /\ f[n + 2] = v /\ \A i \in 1..(n + 1) : f[i] = place[i]
    BY <1>10
  <2> HIDE DEF f
  <2> QED BY <2>1
<1>13. packet.seq = n + 1 /\ PacketAt(packet, w, M)
  <2>1. position = w.pos BY DEF At
  <2>2. /\ packet.seq = n + 1 /\ packet.fragment = c.packet.fragment
        /\ packet.payload = c.packet.payload
        /\ packet.key = CipherOf(0) /\ packet.position = position
    BY <1>7, Zenon
  <2> HIDE DEF packet
  <2> QED BY <1>7, <2>1, <2>2 DEF PacketAt
<1> HIDE DEF packet
<1>14. Chain(next, n + 1)'
  <2>1. next \in [1..((n + 1) + 1) -> Place] BY <1>12
  <2>2. ASSUME NEW i \in 1..(n + 1)
        PROVE  /\ next[i].msg \in 1..Len(messages)
               /\ next[i].off <= Len(messages[next[i].msg])
               /\ Follows(next[i + 1], next[i], messages[next[i].msg])
    <3>1. CASE i = n + 1
      <4>1. next[i] = w /\ next[i + 1] = v BY <1>12, <3>1
      <4>2. w.msg \in 1..Len(messages)
        <5> HIDE DEF w
        <5> QED BY <1>5, <1>7
      <4> QED BY <1>7, <1>10, <4>1, <4>2, Zenon DEF M
    <3>2. CASE i # n + 1
      <4>1. i \in 1..n /\ i + 1 \in 1..(n + 1) /\ next[i] = place[i] /\ next[i + 1] = place[i + 1]
        BY <1>12, <3>2
      <4> QED BY <4>1 DEF At, Chain
    <3> QED BY <3>1, <3>2
  <2>3. ASSUME NEW p \in inTransit'
        PROVE  /\ p.seq \in 1..(n + 1)
               /\ PacketAt(p, next[p.seq], messages[next[p.seq].msg])
    <3>1. CASE p = packet
      <4>1. next[p.seq] = w BY <1>12, <1>13, <3>1
      <4> QED BY <1>13, <3>1, <4>1 DEF M
    <3>2. CASE p \in inTransit
      <4>1. p.seq \in 1..n /\ PacketAt(p, place[p.seq], messages[place[p.seq].msg])
        BY <3>2 DEF At, Chain
      <4>2. p.seq \in 1..(n + 1) BY <4>1
      <4>3. next[p.seq] = place[p.seq] BY <1>12, <4>2, Zenon
      <4> QED BY <4>1, <4>2, <4>3, Zenon
    <3> QED BY <1>1, <2>3, <3>1, <3>2
  <2>4. CipherOf(0)' = CipherOf(0) BY <1>1 DEF CipherOf
  <2>5. \A p \in inTransit' : PacketAt(p, next[p.seq], messages[next[p.seq].msg])'
    BY <1>1, <2>3, <2>4 DEF PacketAt
  <2> QED BY <1>1, <2>1, <2>2, <2>3, <2>5 DEF Chain
<1>15. Sender(v, n + 1)'
  <2>1. CASE LastAt(M, w.off)
    <3>1. e = Idle BY <1>7, <2>1
    <3>2. \A h \in Goroutines : ~Active(h)' BY <1>1, <1>3, <3>1 DEF Active, Idle
    <3>3. v.off = 0 /\ v.msg = Len(messages') + 1 /\ counter' = n + 1
      BY <1>1, <1>7, <1>11, <2>1
    <3> QED BY <3>2, <3>3 DEF Sender
  <2>2. CASE ~LastAt(M, w.off)
    <3>1. e = [c EXCEPT !.at = "fragment"] BY <1>7, <2>2
    <3>2. e.at = "fragment" /\ e.left = c.left /\ e.fragment = c.fragment BY <1>2, <3>1, Zenon DEF Call
    <3> HIDE DEF e
    <3>3. Active(g)' /\ \A h \in Goroutines \ {g} : ~Active(h)' BY <1>1, <1>3, <3>2 DEF Active
    <3>4. PICK k \in Nat : /\ w.off = k * FragmentSize
                           /\ k + 2 < FragmentIDs => c.fragment = k + 2
      BY <1>7, Zenon
    <3>5. v.off = (k + 1) * FragmentSize
      <4>1. (k + 1) * FragmentSize = k * FragmentSize + FragmentSize OBVIOUS
      <4> QED BY <1>11, <2>2, <3>4, <4>1
    <3>6. \E j \in Nat : /\ v.off = j * FragmentSize
                         /\ j + 1 < FragmentIDs => e.fragment = j + 1
      <4>1. k + 1 \in Nat /\ (k + 1) + 1 = k + 2 OBVIOUS
      <4> QED BY <3>2, <3>4, <3>5, <4>1
    <3>7. v.msg = Len(messages) /\ v.off <= Len(M) /\ v.off = w.off + Size(M, w.off)
          /\ messages[v.msg] = M
      BY <1>7, <1>8, <1>11, <2>2 DEF M
    <3>8. Working(call[g], v, n + 1)'
      BY <1>1, <1>7, <3>2, <3>6, <3>7, Zenon DEF Working
    <3> QED BY <3>3, <3>8 DEF Sender
  <2> QED BY <2>1, <2>2
<1>16. receiver'.next \in 1..((n + 1) + 1) /\ Received(next[receiver.next])'
  <2>1. receiver.next \in 1..(n + 1) /\ Received(place[receiver.next]) BY DEF At
  <2>2. next[receiver.next] = place[receiver.next] BY <1>12, <2>1
  <2> QED BY <1>1, <2>1, <2>2 DEF Received
<1>17. At(next, n + 1)'
  <2>1. next[(n + 1) + 1] = v BY <1>12
  <2>2. position = w.pos BY DEF At
  <2>3. position' = v.pos BY <1>1, <1>9, <1>11, <2>2
  <2> QED BY <1>14, <1>15, <1>16, <2>1, <2>3 DEF At
<1>18. n + 1 \in Nat /\ next \in [1..((n + 1) + 1) -> Place] OBVIOUS
<1> QED BY <1>17, <1>18 DEF Core

\* The receiver reads the packet at its place and moves on to the next.
LEMMA CoreDispatch ==
    ASSUME STypes, NEW n \in Nat, NEW place \in [1..(n + 1) -> Place], At(place, n),
           ~BadKey, NEW p \in inTransit, Dispatch(p)
    PROVE  At(place, n)'
<1> USE SendingAssumption
<1> DEFINE r == receiver.next
           w == place[r]
           v == place[r + 1]
           M == messages[w.msg]
           buffer == receiver.buffer \o Decrypted(p)
<1>1. /\ UNCHANGED <<cipher, counter, position, call, messages, inTransit>> /\ p.seq = r
      /\ receiver'.next = r + 1
      /\ receiver'.position = receiver.position + Len(p.payload)
      /\ receiver'.buffer = IF p.fragment = 0 THEN <<>> ELSE buffer
      /\ receiver'.messages = IF p.fragment = 0 THEN Append(receiver.messages, buffer)
                              ELSE receiver.messages
  BY DEF Dispatch, Buffered
<1>2. /\ r \in 1..n /\ PacketAt(p, w, M) /\ w.msg \in 1..Len(messages) /\ w.off <= Len(M)
      /\ Follows(v, w, M) /\ Received(w)
  BY <1>1 DEF At, Chain
<1>3. w \in Place /\ v \in Place /\ w.msg \in Nat \ {0} /\ w.off \in Nat /\ w.pos \in Nat
  <2>1. r \in 1..(n + 1) /\ r + 1 \in 1..(n + 1) BY <1>2
  <2>2. w \in Place /\ v \in Place BY <2>1
  <2> QED BY <2>2 DEF Place
<1>4. messages \in Seq(Seq(Byte)) /\ M \in Seq(Byte)
  <2>1. messages \in Seq(Seq(Byte)) BY DEF STypes
  <2> HIDE DEF w
  <2> QED BY <1>2, <2>1
<1> HIDE DEF M
<1>5. /\ Len(M) \in Nat /\ LastAt(M, w.off) \in BOOLEAN
      /\ Size(M, w.off) \in Nat /\ w.off + Size(M, w.off) <= Len(M)
      /\ LastAt(M, w.off) => w.off + Size(M, w.off) = Len(M)
      /\ ~LastAt(M, w.off) => Size(M, w.off) = FragmentSize
  BY <1>2, <1>3, <1>4, Sizes, Zenon
<1> DEFINE i == w.off
           j == w.off + Size(M, w.off)
<1>6. /\ SubSeq(M, i + 1, j) \in Seq(Byte) /\ Len(SubSeq(M, i + 1, j)) = Size(M, w.off)
      /\ SubSeq(M, 1, i) \o SubSeq(M, i + 1, j) = SubSeq(M, 1, j)
  <2>1. i \in Nat /\ j \in Nat /\ i <= j /\ j <= Len(M) /\ j - i = Size(M, w.off)
    BY <1>3, <1>5
  <2> HIDE DEF i, j
  <2> QED BY <1>4, <2>1, Slices
<1>7. p.payload = SubSeq(M, i + 1, j) BY <1>2 DEF PacketAt
<1>8. Decrypted(p) = p.payload
  <2>1. p.key = CipherOf(0) /\ p.position = receiver.position BY <1>2 DEF PacketAt, Received
  <2>2. CASE KeyAgreed BY <2>1, <2>2 DEF KeyAgreed, Decrypted
  <2>3. CASE ~KeyAgreed
    <3>1. M = <<>>
      <4>1. w.msg \in DOMAIN messages
        <5> HIDE DEF w
        <5> QED BY <1>2, <1>4
      <4> QED BY <2>3, <4>1, Zenon DEF BadKey, M
    <3>2. Len(p.payload) = 0 /\ p.payload \in Seq(Byte)
      <4>1. Size(M, w.off) = 0
        <5>1. Len(M) = 0 BY <3>1
        <5> HIDE DEF w
        <5> QED BY <1>3, <1>5, <5>1
      <4> QED BY <1>6, <1>7, <4>1
    <3>3. p.payload = <<>> BY <3>2, EmptySeq
    <3>4. [k \in DOMAIN p.payload |-> <<0, 0>>] = <<>> BY <3>3
    <3> QED BY <3>3, <3>4 DEF Decrypted
  <2> QED BY <2>2, <2>3
<1>9. receiver.buffer = SubSeq(M, 1, w.off)
  <2>1. CASE w.off = 0
    <3>1. SubSeq(M, 1, 0) = <<>> BY SubSeqEmpty
    <3> QED BY <1>2, <2>1, <3>1 DEF Received
  <2>2. CASE w.off # 0 BY <1>2, <2>2, Zenon DEF Received, M
  <2> QED BY <2>1, <2>2
<1>10. buffer = SubSeq(M, 1, j) BY <1>6, <1>7, <1>8, <1>9, Zenon
<1>11. Len(p.payload) = Size(M, w.off) BY <1>6, <1>7, Zenon
<1> HIDE DEF buffer
<1>12. /\ receiver'.position = v.pos
       /\ receiver'.messages = SubSeq(messages', 1, v.msg - 1)
       /\ receiver'.buffer = IF v.off = 0 THEN <<>> ELSE SubSeq(messages'[v.msg], 1, v.off)
  <2>1. receiver'.position = v.pos
    <3>1. receiver.position = w.pos BY <1>2 DEF Received
    <3> QED BY <1>1, <1>2, <1>11, <3>1 DEF Follows
  <2>2. p.fragment = 0 <=> LastAt(M, w.off) BY <1>2 DEF PacketAt
  <2>3. receiver.messages = SubSeq(messages, 1, w.msg - 1) BY <1>2 DEF Received
  <2>4. CASE LastAt(M, w.off)
    <3>1. v.msg = w.msg + 1 /\ v.off = 0 BY <1>2, <2>4 DEF Follows
    <3>2. buffer = M
      <4>1. j = Len(M) BY <1>5, <2>4
      <4>2. SubSeq(M, 1, Len(M)) = M BY <1>4, SubSeqFull
      <4> QED BY <1>10, <4>1, <4>2
    <3>3. Append(SubSeq(messages, 1, w.msg - 1), M) = SubSeq(messages, 1, w.msg)
      BY <1>2, <1>4, Prolonged, Zenon DEF M
    <3>4. v.msg - 1 = w.msg BY <1>3, <3>1
    <3>5. receiver'.messages = SubSeq(messages', 1, v.msg - 1)
      BY <1>1, <2>2, <2>3, <2>4, <3>2, <3>3, <3>4, Zenon
    <3>6. receiver'.buffer = <<>> BY <1>1, <2>2, <2>4
    <3> QED BY <2>1, <3>1, <3>5, <3>6
  <2>5. CASE ~LastAt(M, w.off)
    <3>1. v.msg = w.msg /\ v.off = j BY <1>2, <1>5, <2>5 DEF Follows
    <3>2. v.off # 0 BY <1>3, <1>5, <2>5, <3>1
    <3>3. receiver'.buffer = SubSeq(M, 1, v.off) BY <1>1, <1>10, <2>2, <2>5, <3>1, Zenon
    <3>4. receiver'.messages = SubSeq(messages', 1, v.msg - 1) BY <1>1, <2>2, <2>3, <2>5, <3>1, Zenon
    <3>5. messages'[v.msg] = M BY <1>1, <3>1 DEF M
    <3> QED BY <2>1, <3>2, <3>3, <3>4, <3>5, Zenon
  <2> QED BY <1>5, <2>4, <2>5
<1>13. Chain(place, n)' BY <1>1 DEF At, Chain, PacketAt, CipherOf
<1>14. Sender(place[n + 1], n)' BY <1>1, Zenon DEF At, Sender, Working, Active
<1>15. receiver'.next \in 1..(n + 1) /\ Received(place[receiver.next])'
  <2>1. PICK u \in Place : u = v BY <1>3
  <2>2. Received(u)' BY <1>12, <2>1 DEF Received
  <2>3. place[receiver'.next] = u /\ receiver'.next \in 1..(n + 1)
    <3>1. receiver'.next = receiver.next + 1 BY <1>1
    <3> QED BY <1>2, <2>1, <3>1
  <2>4. Received(place[receiver.next])' BY <2>2, <2>3 DEF Received
  <2> QED BY <2>3, <2>4
<1> QED BY <1>1, <1>13, <1>14, <1>15 DEF At

\* Every step keeps the invariant.
LEMMA SNextInv == SIInv /\ [SNext]_svars => SIInv'
<1> SUFFICES ASSUME SIInv, [SNext]_svars PROVE SIInv' OBVIOUS
<1>1. CASE UNCHANGED svars
  <2>1. STypes' BY <1>1 DEF SIInv, STypes, svars
  <2>2. Core => Core'
    <3> SUFFICES ASSUME NEW n \in Nat, NEW place \in [1..(n + 1) -> Place], At(place, n)
                 PROVE  At(place, n)'
      BY DEF Core
    <3> USE <1>1 DEF svars
    <3>1. Chain(place, n)' BY DEF At, Chain, PacketAt, CipherOf
    <3>2. Sender(place[n + 1], n)' BY Zenon DEF At, Sender, Working, Active
    <3>3. receiver'.next \in 1..(n + 1) /\ Received(place[receiver.next])' BY DEF At, Received
    <3> QED BY <3>1, <3>2, <3>3 DEF At
  <2>3. (TooLong => TooLong') /\ (BadKey => BadKey') /\ (overlapped => overlapped')
    BY <1>1 DEF svars, TooLong, BadKey, KeyAgreed, CipherOf
  <2> QED BY <2>1, <2>2, <2>3 DEF SIInv
<1>2. CASE SNext
  <2>1. STypes /\ STypes' BY <1>2, STypesStep DEF SIInv
  <2>2. (TooLong => TooLong') /\ (BadKey => BadKey') BY <1>2, <2>1, Lasting
  <2> SUFFICES ASSUME ~overlapped', ~TooLong', ~BadKey' PROVE Core' BY <2>1 DEF SIInv
  <2>3. ~overlapped BY <1>2 DEF SNext
  <2>4. Core BY <2>2, <2>3 DEF SIInv
  <2>5. PICK n \in Nat : \E place \in [1..(n + 1) -> Place] : At(place, n) BY <2>4 DEF Core
  <2>6. PICK place \in [1..(n + 1) -> Place] : At(place, n) BY <2>5
  <2>7. At(place, n)' => Core' BY DEF Core
  <2>8. ASSUME NEW g \in Goroutines,
               (\E m \in Lengths : CallSend(g, m)) \/ NextFragment(g) \/ NumberPacket(g)
        PROVE  At(place, n)'
    BY <2>1, <2>6, <2>8, CoreCall, CoreFragment, CoreNumber
  <2>9. ASSUME NEW g \in Goroutines, EncryptAndSend(g) PROVE Core'
    BY <2>1, <2>6, <2>9, CoreEncrypt
  <2>10. ASSUME NEW p \in inTransit, Dispatch(p) PROVE At(place, n)'
    BY <2>1, <2>2, <2>6, <2>10, CoreDispatch
  <2> QED BY <1>2, <2>7, <2>8, <2>9, <2>10 DEF SNext
<1> QED BY <1>1, <1>2

\* Send, sendPacket and HandleReliable: the messages arrive whole and in order, for every
\* fragment size, every number of fragment IDs and messages of any length, except where
\* MessagesArrive says so.
THEOREM MessagesArriveAlways == SSpec => []MessagesArrive
<1>1. SIInv => MessagesArrive
  <2> SUFFICES ASSUME SIInv, ~overlapped, ~TooLong, ~BadKey
               PROVE  /\ \E m \in 0..Len(messages) : receiver.messages = SubSeq(messages, 1, m)
                      /\ (\A g \in Goroutines : call[g] = Idle) /\ receiver.next > counter
                            => receiver.messages = messages
    BY DEF MessagesArrive, BadKey
  <2>1. STypes /\ Core BY DEF SIInv
  <2>2. PICK n \in Nat : \E place \in [1..(n + 1) -> Place] : At(place, n) BY <2>1 DEF Core
  <2>3. PICK place \in [1..(n + 1) -> Place] : At(place, n) BY <2>2
  <2> DEFINE r == receiver.next
             w == place[r]
             v == place[n + 1]
             k == w.msg - 1
  <2>4. r \in 1..(n + 1) /\ Received(w) /\ Sender(v, n) BY <2>3 DEF At
  <2>5. w \in Place /\ v \in Place /\ w.msg \in Nat \ {0} /\ v.msg \in Nat \ {0}
    <3>1. w \in Place /\ v \in Place BY <2>4
    <3> QED BY <3>1 DEF Place
  <2>6. messages \in Seq(Seq(Byte)) /\ Len(messages) \in Nat BY <2>1 DEF STypes
  <2>7. k \in Nat /\ k <= Len(messages)
    <3>1. CASE r \in 1..n
      <4>1. w.msg <= Len(messages) BY <2>3, <3>1 DEF At, Chain
      <4> QED BY <2>5, <2>6, <4>1
    <3>2. CASE r = n + 1
      <4>1. v.msg = Len(messages) + 1 \/ v.msg = Len(messages) BY <2>4 DEF Sender, Working
      <4> QED BY <2>5, <2>6, <3>2, <4>1
    <3> QED BY <2>4, <3>1, <3>2
  <2>8. receiver.messages = SubSeq(messages, 1, k) BY <2>4 DEF Received
  <2>9. \E m \in 0..Len(messages) : receiver.messages = SubSeq(messages, 1, m)
    <3> HIDE DEF k
    <3> QED BY <2>6, <2>7, <2>8
  <2>10. ASSUME \A g \in Goroutines : call[g] = Idle, r > counter PROVE receiver.messages = messages
    <3>1. \A g \in Goroutines : ~Active(g) BY <2>10 DEF Active, Idle
    <3>2. v.msg = Len(messages) + 1 /\ counter = n BY <2>4, <3>1 DEF Sender
    <3>3. r = n + 1 BY <2>4, <2>10, <3>2
    <3>4. k = Len(messages) BY <2>6, <3>2, <3>3
    <3> QED BY <2>6, <2>8, <3>4, SubSeqFull
  <2> QED BY <2>9, <2>10
<1> QED BY <1>1, SInitInv, SNextInv, PTL DEF SSpec
==============================================================================
