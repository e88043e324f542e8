------------------------------- MODULE NEXTypes ------------------------------
(***************************************************************************)
(* The NEX types (types/*.go): how a value of each is written to a stream, *)
(* extracted from one into a variable that may already hold a value,       *)
(* copied, compared, stored in a database column and scanned back.         *)
(*                                                                         *)
(* A type is a description: its kind and what its methods depend on.  The  *)
(* files of the integer types are one file with another width; here they   *)
(* are one kind.  Characters are bytes, 0 is NUL; a floating-point number  *)
(* is its bit pattern; a StationURL is its text (StationURLs.tla models     *)
(* what it means).  A variant without Type and a holder without Object     *)
(* have the empty sequence in its place.                                   *)
(***************************************************************************)
EXTENDS ByteStream, FiniteSets, TLC

CONSTANTS
    Types,           \* the types used, a sequence
    Samples(_)       \* Samples(t): the values of type t used

VARIABLES
    set,             \* the ByteStreamSettings of the stream
    ty, val,         \* a type and a value of it
    target,          \* the variable that is extracted, scanned or copied into
    used,            \* what target held before
    data,            \* the stream, or the database column
    step,            \* the last step: "start", "written", "cut", "read", ...
    ok               \* the last step reported no error

vars == <<set, ty, val, target, used, data, step, ok>>

------------------------------------------------------------------------------
(* Type descriptions *)

Integer(size, signed, sql) ==
    [kind |-> "int", size |-> size, signed |-> signed, sql |-> sql]

UInt8 == Integer(1, FALSE, "int64")
UInt16 == Integer(2, FALSE, "int64")
UInt32 == Integer(4, FALSE, "int64")
UInt64 == Integer(8, FALSE, "string")
Int8 == Integer(1, TRUE, "int64")
Int16 == Integer(2, TRUE, "int64")
Int32 == Integer(4, TRUE, "int64")
Int64 == Integer(8, TRUE, "int64")
QResult == Integer(4, FALSE, "int64")
DateTime == Integer(8, FALSE, "time")
Float == [kind |-> "float", size |-> 4, sql |-> "float64"]
Double == [kind |-> "float", size |-> 8, sql |-> "float64"]
Bool == [kind |-> "bool", sql |-> "bool"]
String == [kind |-> "string", sql |-> "string"]
StationURL == String
Buffer == [kind |-> "bytes", size |-> 4, sql |-> "bytes"]
QBuffer == [kind |-> "bytes", size |-> 2, sql |-> "bytes"]
QUUID == [kind |-> "quuid", sql |-> "uuid"]
PID == [kind |-> "pid", sql |-> "string"]
List(t) == [kind |-> "list", of |-> t, sql |-> "none"]
Map(k, t) == [kind |-> "map", key |-> k, of |-> t, sql |-> "none"]
Variant == [kind |-> "variant", sql |-> "none"]
AnyObjectHolder == [kind |-> "holder", sql |-> "none"]

\* A structure: whether its methods use the structure header, its fields, and the
\* structure version each field needs.
Structure(name, header, fields, since) ==
    [kind |-> "struct", name |-> name, header |-> header, fields |-> fields,
     since |-> since, sql |-> "none"]

Data == Structure("Data", TRUE, <<>>, <<>>)
ResultRange == Structure("ResultRange", TRUE, <<UInt32, UInt32>>, <<0, 0>>)
RVConnectionData ==
    Structure("RVConnectionData", TRUE,
              <<StationURL, List(UInt8), StationURL, DateTime>>, <<0, 0, 0, 1>>)
ClassVersionContainer ==
    Structure("ClassVersionContainer", FALSE, <<Map(String, UInt16)>>, <<0>>)

\* The types registered for Variant, by type ID
VariantTypes ==
    [id \in 1..6 |-> <<Int64, Double, Bool, String, DateTime, UInt64>>[id]]

\* The objects registered for AnyObjectHolder, by identifier; "Data" is one character
DataObjectID == <<4>>
AnyObjectHolderObjects == [id \in {DataObjectID} |-> Data]

\* The zero value of a type, as "var value T" and the constructors make it
RECURSIVE Zero(_)
Zero(t) ==
    CASE t.kind \in {"int", "float", "pid"} -> 0
      [] t.kind = "bool" -> FALSE
      [] t.kind \in {"string", "bytes", "quuid", "list"} -> <<>>
      [] t.kind = "map" -> [k \in {} |-> 0]
      [] t.kind = "variant" -> [id |-> 0, value |-> <<>>]
      [] t.kind = "holder" -> [id |-> <<>>, object |-> <<>>]
      [] t.kind = "struct" ->
            [version |-> 0, f |-> [i \in DOMAIN t.fields |-> Zero(t.fields[i])]]

\* The fields of a structure that its version has
Present(t, v) == SelectSeq([i \in DOMAIN t.fields |-> i], LAMBDA i : t.since[i] <= v.version)

------------------------------------------------------------------------------
(* WriteTo *)

Cat(A, B) == {a \o b : a \in A, b \in B}

StringSize == set.stringLength
PIDSize == IF set.pid = 8 THEN 8 ELSE 4

\* The byte sequences WriteTo may produce: a map is written in any order.
RECURSIVE Writes(_, _)
Writes(t, v) ==
    CASE t.kind \in {"int", "float"} -> {WriteInt(v, t.size)}
      [] t.kind = "pid" -> {WriteInt(v, PIDSize)}
      [] t.kind = "bool" -> {WriteBool(v)}
      [] t.kind = "string" -> {WriteInt(Len(v) + 1, StringSize) \o Append(v, 0)}
      [] t.kind = "bytes" -> {WriteInt(Len(v), t.size) \o v}
      [] t.kind = "quuid" -> {v}
      [] t.kind = "list" ->
            FoldLeft(LAMBDA A, x : Cat(A, Writes(t.of, x)), {WriteInt(Len(v), 4)}, v)
      [] t.kind = "map" ->
            UNION {FoldLeft(LAMBDA A, k : Cat(A, Cat(Writes(t.key, k), Writes(t.of, v[k]))),
                            {WriteInt(Cardinality(DOMAIN v), 4)}, order)
                   : order \in SetToSeqs(DOMAIN v)}
      [] t.kind = "variant" ->
            Cat({WriteInt(v.id, 1)},
                IF v.value = <<>> THEN {<<>>} ELSE Writes(VariantTypes[v.id], v.value[1]))
      [] t.kind = "holder" ->
            {id \o WriteInt(Len(object) + 4, 4) \o WriteInt(Len(object), 4) \o object
             : id \in Writes(String, v.id),
               object \in Writes(AnyObjectHolderObjects[v.id], v.object[1])}
      [] t.kind = "struct" ->
            {IF set.header /\ t.header
             THEN WriteInt(v.version, 1) \o WriteInt(Len(content), 4) \o content
             ELSE content
             : content \in FoldLeft(LAMBDA A, i : Cat(A, Writes(t.fields[i], v.f[i])),
                                    {<<>>}, Present(t, v))}

------------------------------------------------------------------------------
(* ExtractFrom *)

\* strings.TrimRight(s, "\x00")
TrimNUL(s) ==
    LET kept == {i \in 1..Len(s) : s[i] # 0}
    IN  SubSeq(s, 1, IF kept = {} THEN 0 ELSE CHOOSE i \in kept : \A j \in kept : j <= i)

\* Mutant: the length is not checked against the rest of the stream.
ReadSizedShort(s, n) ==
    LET length == ReadUInt(s, n)
    IN  IF length.ok THEN ReadShort(length.rest, length.val) ELSE length

\* A length of n bytes, then that many bytes
ReadSized(s, n) ==
    LET length == ReadUInt(s, n)
    IN  IF length.ok THEN Read(length.rest, length.val) ELSE length

\* The structure header: the length is checked against the rest of the stream.
ExtractHeaderFrom(t, s, old) ==
    LET version == ReadUInt(s, 1)
        length == ReadUInt(version.rest, 4)
    IN  IF ~(set.header /\ t.header) THEN [ok |-> TRUE, val |-> old.version, rest |-> s]
        ELSE [ok |-> version.ok /\ length.ok /\ Len(length.rest) >= length.val,
              val |-> version.val, rest |-> length.rest]

\* After an error nothing more is read.
Failed(old) == [ok |-> FALSE, val |-> old, rest |-> <<>>]

\* Mutant: a list or a map is filled in place, also by an ExtractFrom that then fails.
KeepInPlace(r, old) == r

Keep(r, old) == IF r.ok THEN r ELSE Failed(old)

\* Keys and values in turn, as a map: of two values of a key the later counts.
AsMap(r) ==
    [r EXCEPT !.val =
        FoldLeft(LAMBDA m, i : (r.val[2 * i - 1] :> r.val[2 * i]) @@ m, [k \in {} |-> 0],
                 [i \in 1..(Len(r.val) \div 2) |-> i])]

\* ExtractFrom into a variable that holds old.  What the variable holds after an
\* error: old, but for a structure the fields read before it, and for a Variant the
\* type ID.
RECURSIVE Extract(_, _, _)
Extract(t, s, old) ==
    LET \* the elements of a list or the keys and values of a map, n of them
        Elements(n, rest, ts) ==
            FoldLeft(LAMBDA r, i :
                         IF ~r.ok THEN r
                         ELSE LET e == Extract(ts[1 + (i % Len(ts))], r.rest,
                                               Zero(ts[1 + (i % Len(ts))]))
                              IN  [ok |-> e.ok, val |-> Append(r.val, e.val), rest |-> e.rest],
                     [ok |-> TRUE, val |-> <<>>, rest |-> rest],
                     [i \in 1..(n * Len(ts)) |-> i - 1])
    IN  CASE t.kind = "int" -> Keep(IF t.signed THEN ReadInt(s, t.size) ELSE ReadUInt(s, t.size), old)
          [] t.kind = "float" -> Keep(ReadUInt(s, t.size), old)
          [] t.kind = "pid" -> Keep(ReadUInt(s, PIDSize), old)
          [] t.kind = "bool" -> Keep(ReadBool(s), old)
          [] t.kind = "string" ->
                LET r == ReadSized(s, StringSize)
                IN  IF r.ok THEN [r EXCEPT !.val = TrimNUL(@)] ELSE Failed(old)
          [] t.kind = "bytes" -> Keep(ReadSized(s, t.size), old)
          [] t.kind = "quuid" -> Keep(Read(s, 16), old)
          [] t.kind = "list" ->
                LET n == ReadUInt(s, 4)
                IN  IF n.ok THEN Keep(Elements(n.val, n.rest, <<t.of>>), old) ELSE Failed(old)
          [] t.kind = "map" ->
                LET n == ReadUInt(s, 4)
                IN  IF n.ok THEN Keep(AsMap(Elements(n.val, n.rest, <<t.key, t.of>>)), old)
                    ELSE Failed(old)
          [] t.kind = "variant" ->
                LET id == ReadUInt(s, 1)
                    r == Extract(VariantTypes[id.val], id.rest, Zero(VariantTypes[id.val]))
                IN  IF ~id.ok THEN Failed(old)
                    ELSE IF id.val = 0 THEN [id EXCEPT !.val = [old EXCEPT !.id = 0]]
                    ELSE IF id.val \notin DOMAIN VariantTypes
                    THEN Failed([old EXCEPT !.id = id.val])
                    ELSE IF ~r.ok THEN Failed([old EXCEPT !.id = id.val])
                    ELSE [r EXCEPT !.val = [id |-> id.val, value |-> <<@>>]]
          [] t.kind = "holder" ->
                LET id == Extract(String, s, <<>>)
                    length == ReadUInt(id.rest, 4)
                    bufferLength == ReadUInt(length.rest, 4)
                    object == AnyObjectHolderObjects[id.val]
                    r == Extract(object, bufferLength.rest, Zero(object))
                IN  IF ~(id.ok /\ length.ok /\ bufferLength.ok)
                       \/ id.val \notin DOMAIN AnyObjectHolderObjects
                    THEN Failed(old)
                    ELSE IF ~r.ok THEN Failed(old)
                    ELSE [r EXCEPT !.val = [id |-> id.val, object |-> <<@>>]]
          [] t.kind = "struct" ->
                LET h == ExtractHeaderFrom(t, s, old)
                    new == [old EXCEPT !.version = h.val]
                IN  IF ~h.ok THEN Failed(old)
                    ELSE FoldLeft(
                           LAMBDA r, i :
                             IF ~r.ok THEN r
                             ELSE LET e == Extract(t.fields[i], r.rest, r.val.f[i])
                                  IN  [e EXCEPT !.val = [r.val EXCEPT !.f[i] = e.val]],
                           [h EXCEPT !.val = new], Present(t, new))

------------------------------------------------------------------------------
(* Copy and Equals *)

\* Mutant: a list is copied without its elements.
CopyEmpty(t, v) == IF t.kind = "list" THEN <<<<>>>> ELSE <<v>>

\* Copy: <<>> when it panics.  RVConnectionData asserts that a copied DateTime is a
\* pointer, which it is not; the container of class versions drops its version.
RECURSIVE CopyOf(_, _)
CopyOf(t, v) ==
    LET All(ts, vs) == [i \in DOMAIN vs |-> CopyOf(ts[i], vs[i])]
        Panics(cs) == \E i \in DOMAIN cs : cs[i] = <<>>
        Got(cs) == [i \in DOMAIN cs |-> cs[i][1]]
    IN  CASE t.kind = "list" ->
                LET cs == All([i \in DOMAIN v |-> t.of], v)
                IN  IF Panics(cs) THEN <<>> ELSE <<Got(cs)>>
          [] t.kind = "struct" ->
                LET present == {Present(t, v)[i] : i \in DOMAIN Present(t, v)}
                    cs == All(t.fields, [i \in DOMAIN v.f |-> IF i \in present THEN v.f[i]
                                                              ELSE Zero(t.fields[i])])
                IN  IF Panics(cs) \/ (t.name = "RVConnectionData" /\ v.version >= 1)
                    THEN <<>>
                    ELSE <<[version |-> IF t.header THEN v.version ELSE 0, f |-> Got(cs)]>>
          [] OTHER -> <<v>>

\* The bit pattern that stands for "not a number", equal to nothing
NaN(t) == Limit(t.size) - 1

\* Mutant: lists of the same length are equal.
EqualLengths(t, a, b) == IF t.kind = "list" THEN Len(a) = Len(b) ELSE a = b

\* Equals.  Map compares pointers to the values, which are never equal, and takes that
\* for equality: only the keys count.  ResultRange and ClassVersionContainer pass
\* their fields something of another type.
RECURSIVE Equals(_, _, _)
Equals(t, a, b) ==
    CASE t.kind = "float" -> a = b /\ a # NaN(t)
      [] t.kind = "list" ->
            Len(a) = Len(b) /\ \A i \in DOMAIN a : Equals(t.of, a[i], b[i])
      [] t.kind = "map" -> DOMAIN a = DOMAIN b
      [] t.kind = "variant" ->
            /\ a.id = b.id
            /\ a.value # <<>> => b.value # <<>> /\ Equals(VariantTypes[a.id], a.value[1], b.value[1])
      [] t.kind = "holder" ->
            a.id = b.id /\ Equals(AnyObjectHolderObjects[a.id], a.object[1], b.object[1])
      [] t.kind = "struct" ->
            /\ t.name \notin {"ResultRange", "ClassVersionContainer"}
            /\ a.version = b.version
            /\ \A i \in DOMAIN a.f : t.since[i] <= a.version => Equals(t.fields[i], a.f[i], b.f[i])
      [] OTHER -> a = b

------------------------------------------------------------------------------
(* Value and Scan: database columns *)

\* Mutant: month and day overlap.
MakeDateTimeOverlap(d) ==
    d.second + d.minute * 2^6 + d.hour * 2^12 + d.day * 2^17 + d.month * 2^21 + d.year * 2^26

\* Make, of fields that are in range: DateTime is a bit field, year to second from the top.
MakeDateTime(d) ==
    d.second + d.minute * 2^6 + d.hour * 2^12 + d.day * 2^17 + d.month * 2^22 + d.year * 2^26

\* Second, Minute, Hour, Day, Month, Year
DateTimeFields(v) ==
    [second |-> v % 2^6, minute |-> (v \div 2^6) % 2^6, hour |-> (v \div 2^12) % 2^5,
     day |-> (v \div 2^17) % 2^5, month |-> (v \div 2^22) % 2^4, year |-> v \div 2^26]

\* The sections of a UUID, whose bytes QUUID keeps in the opposite order
Sections == <<<<1, 4>>, <<5, 6>>, <<7, 8>>, <<9, 10>>, <<11, 12>>, <<13, 14>>, <<15, 16>>>>

ReverseSections(q) ==
    FoldLeft(LAMBDA u, s : u \o Reverse(SubSeq(q, s[1], s[2])), <<>>, Sections)

NULL == [sql |-> "NULL"]

\* Value: a number is stored as int64 or as its decimal digits; both are the number here.
Value(t, v) ==
    CASE t.sql = "time" -> IF v = 0 THEN NULL ELSE [sql |-> "time", v |-> DateTimeFields(v)]
      [] t.sql = "uuid" -> IF v = <<>> THEN NULL ELSE [sql |-> "uuid", v |-> ReverseSections(v)]
      [] OTHER -> [sql |-> t.sql, v |-> v]

\* Scan into a variable that holds old.  NULL gives the zero value, but leaves a QUUID
\* alone; an int64 is cut to the width of the type, digits are refused if too large.
Scan(t, d, old) ==
    LET size == IF t.kind = "pid" THEN 8 ELSE t.size
        signed == t.kind = "int" /\ t.signed
        cut == IF signed THEN Signed(d.v % Limit(size), size) ELSE d.v % Limit(size)
    IN  CASE d = NULL -> [ok |-> TRUE, val |-> IF t.kind = "quuid" THEN old ELSE Zero(t)]
          [] d.sql = "time" -> [ok |-> TRUE, val |-> MakeDateTime(d.v)]
          [] d.sql = "uuid" -> [ok |-> TRUE, val |-> ReverseSections(d.v)]
          [] t.kind \in {"int", "pid"} /\ d.sql = "int64" -> [ok |-> TRUE, val |-> cut]
          [] t.kind \in {"int", "pid"} /\ d.sql = "string" ->
                [ok |-> cut = d.v, val |-> IF cut = d.v THEN d.v ELSE old]
          [] OTHER -> [ok |-> TRUE, val |-> d.v]

------------------------------------------------------------------------------
(* The uses of a value *)

Settings == [stringLength : {2, 4}, pid : {4, 8}, header : BOOLEAN]

\* What follows the value in the stream
Following == <<1, 2>>

Init ==
    /\ set \in Settings
    /\ \E i \in DOMAIN Types : ty = Types[i]
    /\ val \in Samples(ty)
    /\ used \in {Zero(ty)} \cup Samples(ty)
    /\ target = used
    /\ data = <<>>
    /\ step = "start"
    /\ ok = TRUE

\* A date does not fit eight of the model's bytes; it only goes to the database.
WriteTo ==
    /\ step = "start"
    /\ ty = DateTime => val < Limit(8)
    /\ \E bytes \in Writes(ty, val) : data' = bytes \o Following
    /\ step' = "written"
    /\ UNCHANGED <<set, ty, val, target, used, ok>>

\* The stream ends inside the value.
Cut ==
    /\ step = "written"
    /\ \E n \in 0..(Len(data) - Len(Following) - 1) : data' = SubSeq(data, 1, n)
    /\ step' = "cut"
    /\ UNCHANGED <<set, ty, val, target, used, ok>>

ExtractFrom ==
    /\ step \in {"written", "cut"}
    /\ LET r == Extract(ty, data, target)
       IN  target' = r.val /\ data' = r.rest /\ ok' = r.ok
    /\ step' = IF step = "cut" THEN "cut read" ELSE "read"
    /\ UNCHANGED <<set, ty, val, used>>

Copy ==
    /\ step = "start"
    /\ LET copied == CopyOf(ty, val)
       IN  /\ ok' = (copied # <<>>)
           /\ target' = IF copied = <<>> THEN target ELSE copied[1]
    /\ step' = "copied"
    /\ UNCHANGED <<set, ty, val, used, data>>

Store ==
    /\ step = "start"
    /\ ty.sql # "none"
    /\ data' = Value(ty, val)
    /\ step' = "stored"
    /\ UNCHANGED <<set, ty, val, target, used, ok>>

ScanColumn ==
    /\ step = "stored"
    /\ LET r == Scan(ty, data, target) IN target' = r.val /\ ok' = r.ok
    /\ step' = "scanned"
    /\ UNCHANGED <<set, ty, val, used, data>>

Next == WriteTo \/ Cut \/ ExtractFrom \/ Copy \/ Store \/ ScanColumn

Spec == Init /\ [][Next]_vars

------------------------------------------------------------------------------
(* Properties *)

\* What a value says: a structure has no fields its version does not have.
Seen(v) ==
    IF ty.kind = "struct"
    THEN [v EXCEPT !.f = [i \in DOMAIN @ |-> IF ty.since[i] <= v.version THEN @[i]
                                             ELSE Zero(ty.fields[i])]]
    ELSE v

\* The values a stream with these settings can carry: lengths and PIDs fit their
\* fields, strings do not end in NUL, a QUUID is not empty, a structure version that is
\* not written is the one the reader's variable has, and an empty Variant is read into an
\* empty one.
Fits ==
    CASE ty.kind = "string" -> Len(val) + 1 < Limit(StringSize) /\ TrimNUL(val) = val
      [] ty.kind = "bytes" -> Len(val) < Limit(ty.size)
      [] ty.kind = "pid" -> val < Limit(PIDSize)
      [] ty.kind = "quuid" -> val # <<>>
      [] ty.kind = "struct" -> (set.header /\ ty.header) \/ used.version = val.version
      [] ty.kind = "holder" -> set.header \/ val.object[1].version = 0
      [] ty.kind = "variant" -> val.id = 0 => used.value = <<>>
      [] OTHER -> TRUE

\* Whatever way a value takes, it is the same at the end: what WriteTo writes ExtractFrom
\* reads back, whatever the variable held before, and it stops where the value ends, for
\* every value the stream can carry; so do Copy, except that of RVConnectionData of
\* version 1 or later, which panics, and Value and Scan, except that the NULL of an empty
\* QUUID leaves the variable as it was.
ValueKept ==
    /\ step = "read" /\ Fits => ok /\ Seen(target) = Seen(val) /\ data = Following
    /\ step = "copied" =>
          IF ty = RVConnectionData /\ val.version >= 1 THEN ~ok
          ELSE ok /\ Seen(target) = Seen(val)
    /\ step = "scanned" => ok /\ (target = val \/ (ty = QUUID /\ val = <<>>))

\* A stream that ends inside the value is refused by ExtractFrom: no bounds check is
\* missing and no length is trusted.  A refusal leaves the variable as it was, except
\* that a structure keeps the fields read before the error and a Variant the type ID.
CutRefused ==
    /\ step = "cut read" /\ Fits => ~ok
    /\ ~ok /\ ty.kind \notin {"struct", "variant"} => target = used

\* "Equals checks if the input is equal in value to the current instance": it holds of
\* equal values only and of all of them, for every type but the map (only its keys are
\* compared), the two structures that never equal themselves and NaN.
EqualsExact ==
    \/ ty.kind = "map" \/ ty \in {ResultRange, ClassVersionContainer}
    \/ ty.kind = "float" /\ val = NaN(ty)
    \/ ty = Variant /\ val.id = 2 /\ val.value = <<NaN(Double)>>
    \/ Equals(ty, val, used) <=> Seen(val) = Seen(used)
==============================================================================
