----------------------------- MODULE Contracts -----------------------------
(***************************************************************************)
(* The contract layer every receipt passes through: canonical JSON and the *)
(* ids made of it, decimal strings, timestamps, portable paths and the     *)
(* packaged schemas.  The algorithms are compared with definitions of what *)
(* they compute.                                                           *)
(***************************************************************************)
EXTENDS Procedures, Integers, Sequences, FiniteSets

CONSTANTS
    MaxDigits,      \* digits of a Decimal's coefficient
    MaxExponent,    \* bound on its exponent, either way
    Years,          \* years the calendar is tried on
    MaxParts    \* parts of a path

ASSUME ContractsAssumption ==
    {MaxDigits, MaxExponent, MaxParts} \subseteq Nat \ {0} /\ Years \subseteq Nat
-----------------------------------------------------------------------------
(***************************************************************************)
(* Canonical JSON.  An object is the sequence of its items in the order    *)
(* they were inserted; a key is a string, or a number json.dumps will turn *)
(* into one.                                                               *)
(***************************************************************************)
StrKey(text) == [kind |-> "str", text |-> text]
IntKey(text) == [kind |-> "int", text |-> text]

Keys   == {StrKey("1"), StrKey("a"), StrKey("object_id"), IntKey("1")}
Scalar == {"one", "two", "NaN"}

JsonObjects ==
    {o \in UNION {[1 .. n -> [key : Keys, value : Scalar]] : n \in 0 .. 2} :
        \A i, j \in DOMAIN o : i # j => o[i].key # o[j].key}

Kinds(o)       == {o[i].key.kind : i \in DOMAIN o}
Before(a, b)   == \E i, j \in 1 .. 3 : i < j /\ <<"1", "a", "object_id">>[i] = a
                                             /\ <<"1", "a", "object_id">>[j] = b
InOrder(items) == \A i, j \in DOMAIN items : Before(items[i].text, items[j].text) => i < j

ItemTexts(o) == [i \in DOMAIN o |-> [text |-> o[i].key.text, value |-> o[i].value]]

\* dumps: the items sorted by key.  Keys of two kinds cannot be compared and a
\* number that is not finite has no text, so both are refused; a key that is a
\* number is not refused but becomes its text.
Dumps(o) ==
    IF Cardinality(Kinds(o)) > 1 \/ \E i \in DOMAIN o : o[i].value = "NaN" THEN {}
    ELSE {CHOOSE s \in {[i \in DOMAIN o |-> ItemTexts(o)[p[i]]] :
                           p \in {q \in [DOMAIN o -> DOMAIN o] :
                                     \A i, j \in DOMAIN o : i # j => q[i] # q[j]}} : InOrder(s)}

\* loads: every key comes back as a string.
Loads(bytes) == [i \in DOMAIN bytes |-> [key |-> StrKey(bytes[i].text), value |-> bytes[i].value]]

\* validate: encode, decode, encode again.
Validate(o) == {b \in Dumps(o) : Dumps(Loads(b)) = {b}}

CarriesOwnId(o) == \E i \in DOMAIN o : o[i].key = StrKey("object_id") /\ o[i].value # "NaN"

\* object_id: over the canonical bytes, refused for an object that has one.
ObjectId(o) == IF CarriesOwnId(o) THEN {} ELSE Dumps(o)

JsonInit ==
    /\ subject = "json"
    /\ \E a, b \in JsonObjects : st = [a |-> a, b |-> b, valid |-> {}, ids |-> {}]

JsonIdentify ==
    /\ st.ids = {}
    /\ Step("json", [st EXCEPT !.valid = {o \in {st.a, st.b} : Validate(o) # {}},
                               !.ids   = {<<ObjectId(st.a), ObjectId(st.b)>>}])
-----------------------------------------------------------------------------
(***************************************************************************)
(* Decimal strings.                                                        *)
(***************************************************************************)
Zeros(n) == [i \in 1 .. n |-> 0]

DecimalInit ==
    /\ subject = "decimal"
    /\ \E n \in 1 .. MaxDigits : \E digits \in [1 .. n -> {0, 1, 9}],
           exponent \in -MaxExponent .. MaxExponent, sign \in 0 .. 1 :
              st = [sign |-> sign, digits |-> digits, exponent |-> exponent, out |-> {}]

\* _decimal_tuple_to_str: a minus sign or none, the digits before the point and
\* those behind it.
DecimalTupleToStr(sign, digits, exponent) ==
    IF exponent >= 0 THEN [sign |-> sign, whole |-> digits \o Zeros(exponent), frac |-> <<>>]
    ELSE LET n == -exponent
         IN  IF Len(digits) > n
             THEN [sign  |-> sign,
                   whole |-> SubSeq(digits, 1, Len(digits) - n),
                   frac  |-> SubSeq(digits, Len(digits) - n + 1, Len(digits))]
             ELSE [sign  |-> sign,
                   whole |-> <<0>>, frac |-> Zeros(n - Len(digits)) \o digits]

\* decimal_to_str for a finite Decimal, with the shape check at the end.
DecimalToStr ==
    /\ st.out = {}
    /\ LET s == DecimalTupleToStr(st.sign, st.digits, st.exponent)
       IN  s.whole # <<>> /\ Step("decimal", [st EXCEPT !.out = {s}])
-----------------------------------------------------------------------------
(***************************************************************************)
(* Timestamps.                                                             *)
(***************************************************************************)
DayStamps ==
    [year : Years, month : 0 .. 13, day : 0 .. 32, hour : {0}, fraction : {FALSE}, zone : {"Z"}]
FormStamps ==
    [year : {2024}, month : {2}, day : {29, 30}, hour : {0, 23, 24}, fraction : BOOLEAN,
     zone : {"Z", "z", "+00:00", "+02:00", "none"}]
Stamps == DayStamps \cup FormStamps

StampInit == subject = "timestamp" /\ \E t \in Stamps : st = [stamp |-> t, out |-> {}]

\* Wrong variant: centuries are leap years.
IsLeapEveryFour(year) == year % 4 = 0

\* _is_leap
IsLeap(year) == year % 4 = 0 /\ (year % 100 # 0 \/ year % 400 = 0)

\* _days_in_month
DaysInMonth(year, month) ==
    IF month = 2 /\ IsLeap(year) THEN 29
    ELSE <<31, 28, 31, 30, 31, 30, 31, 31, 30, 31, 30, 31>>[month]

\* _NORMALIZE_RE and _CANONICAL_RE
Shape(t, zones) ==
    /\ t.month \in 1 .. 12 /\ t.day \in 1 .. 31 /\ t.hour \in 0 .. 23
    /\ ~t.fraction /\ t.zone \in zones

\* _check_calendar
CheckCalendar(t) == t.day <= DaysInMonth(t.year, t.month)

\* validate of the timestamps
ValidStamp(t) == Shape(t, {"Z"}) /\ CheckCalendar(t)

\* normalize
NormalizeStamp(t) ==
    IF Shape(t, {"Z", "z", "+00:00"}) /\ CheckCalendar(t) THEN {[t EXCEPT !.zone = "Z"]} ELSE {}

NormalizeTimestamp ==
    /\ st.out = {} /\ NormalizeStamp(st.stamp) # {}
    /\ Step("timestamp", [st EXCEPT !.out = NormalizeStamp(st.stamp)])
-----------------------------------------------------------------------------
(***************************************************************************)
(* Portable paths: the parts between slashes.  "none" is the empty part of *)
(* two slashes in a row, "back" one that climbs behind backslashes.        *)
(***************************************************************************)
PathParts == {"a", "none", ".", "..", "C:", "back"}

PathInit ==
    /\ subject = "path"
    /\ \E n \in 1 .. MaxParts : \E parts \in [1 .. n -> PathParts] :
           st = [parts |-> parts, out |-> {}]

\* validate_portable_path: not empty, not absolute, no backslash, no drive in
\* the first part and no parent part.
PortablePath(parts) ==
    /\ parts[1] \notin {"none", "C:"}
    /\ \A i \in DOMAIN parts : parts[i] \notin {"..", "back"}

ValidatePortablePath ==
    /\ st.out = {} /\ PortablePath(st.parts)
    /\ Step("path", [st EXCEPT !.out = {st.parts}])
-----------------------------------------------------------------------------
(***************************************************************************)
(* The packaged schemas.  A file is missing, broken, refused by the        *)
(* meta-schema or good, and may be replaced while the process runs; a      *)
(* schema that loaded is kept for the life of the process.                 *)
(***************************************************************************)
SchemaFiles == {"missing", "broken", "unsound", "good", "better"}

SchemaInit ==
    /\ subject = "schema"
    /\ \E f \in SchemaFiles : st = [file |-> f, edits |-> 0, kept |-> {}, used |-> {}]

ReplaceSchemaFile ==
    /\ st.edits < 2
    /\ \E f \in SchemaFiles \ {st.file} :
           Step("schema", [st EXCEPT !.file = f, !.edits = @ + 1])

\* _load_and_metavalidate; a failure is raised and not remembered.
LoadAndMetavalidate(file) == IF file \in {"good", "better"} THEN {file} ELSE {}

\* load_schema and validate
SchemaValidate ==
    LET schema == IF st.kept # {} THEN st.kept ELSE LoadAndMetavalidate(st.file)
    IN  /\ schema # {} /\ ~(schema \subseteq st.used /\ st.kept = schema)
        /\ Step("schema", [st EXCEPT !.kept = schema, !.used = @ \cup schema])

ContractsInit == JsonInit \/ DecimalInit \/ StampInit \/ PathInit \/ SchemaInit
ContractsNext ==
    \/ subject = "json" /\ JsonIdentify
    \/ subject = "decimal" /\ DecimalToStr
    \/ subject = "timestamp" /\ NormalizeTimestamp
    \/ subject = "path" /\ ValidatePortablePath
    \/ subject = "schema" /\ (ReplaceSchemaFile \/ SchemaValidate)
-----------------------------------------------------------------------------
(***************************************************************************)
(* Properties, with the definitions the algorithms are compared with.      *)
(***************************************************************************)
\* The content of an object: its keys, 1 and "1" being two, and their values.
Content(o) == {<<o[i].key, o[i].value>> : i \in DOMAIN o}

\* Two objects with the same content get one id, in whatever order it was
\* inserted; two whose keys are strings get one id only for the same content; and
\* what is read back keeps its id (object_id, dumps, loads).  The second is said
\* of string keys alone: dumps' docstring promises to refuse a key that is not a
\* string, but json.dumps writes a number as its text, so {1: x} and {"1": x}
\* share an id.
SameIdSameContent ==
    subject = "json" => \A ids \in st.ids :
        /\ ids[1] # {} /\ ids[2] # {} =>
               /\ Content(st.a) = Content(st.b) => ids[1] = ids[2]
               /\ ids[1] = ids[2] /\ Kinds(st.a) \cup Kinds(st.b) \subseteq {"str"} =>
                      Content(st.a) = Content(st.b)
        /\ \A b \in ids[1] : ObjectId(Loads(b)) = {b} /\ st.a \in st.valid

Numeral(s) == LET n[i \in 0 .. Len(s)] == IF i = 0 THEN 0 ELSE 10 * n[i - 1] + s[i]
              IN  n[Len(s)]

PowerOfTen(n) == LET p[i \in 0 .. n] == IF i = 0 THEN 1 ELSE 10 * p[i - 1]
                 IN  p[n]

Signed(sign, n) == IF sign = 1 THEN -n ELSE n

\* A Decimal's string denotes exactly its value, sign included, for coefficients
\* shorter, as long as and longer than the fraction (_decimal_tuple_to_str).
DecimalIsExact ==
    subject = "decimal" => \A s \in st.out :
        LET places == IF st.exponent < 0 THEN -st.exponent ELSE 0
            scale  == IF st.exponent < 0 THEN 1 ELSE PowerOfTen(st.exponent)
        IN  /\ Len(s.frac) = places
            /\ Signed(s.sign, Numeral(s.whole \o s.frac))
                   = Signed(st.sign, Numeral(st.digits) * scale)

\* Days from a fixed one to the first of a month, by the closed formula that
\* starts the year in March.
DaysTo(year, month) ==
    LET y == IF month <= 2 THEN year - 1 ELSE year
        m == (month + 9) % 12
    IN  365 * y + y \div 4 - y \div 100 + y \div 400 + (153 * m + 2) \div 5

RealDate(t) ==
    t.day <= IF t.month = 12 THEN DaysTo(t.year + 1, 1) - DaysTo(t.year, 12)
             ELSE DaysTo(t.year, t.month + 1) - DaysTo(t.year, t.month)

\* A normalised timestamp is a day of the calendar in canonical form, which
\* validate accepts and normalize leaves alone; and no real day is refused
\* (normalize, _check_calendar).
TimestampIsRealDay ==
    subject = "timestamp" =>
        /\ \A t \in st.out : RealDate(t) /\ ValidStamp(t) /\ NormalizeStamp(t) = {t}
        /\ Shape(st.stamp, {"Z"}) /\ RealDate(st.stamp) => ValidStamp(st.stamp)

Descent(part) ==
    IF part \in {"none", "."} THEN 0 ELSE IF part \in {"..", "back"} THEN -1 ELSE 1

\* Where a path leads: how far below its start each prefix of it ends.
Depth(parts) ==
    LET d[i \in 0 .. Len(parts)] == IF i = 0 THEN 0 ELSE d[i - 1] + Descent(parts[i])
    IN  d

\* A portable path never leads above its start, on a system of slashes or of
\* backslashes (validate_portable_path).
PortablePathStaysBelow ==
    subject = "path" => \A p \in st.out : \A i \in DOMAIN p : Depth(p)[i] >= 0

\* Whatever happens to the file, one process validates against one schema, and
\* against one the meta-schema accepts (_load_and_metavalidate, load_schema).
OneSoundSchema ==
    subject = "schema" => st.used \subseteq {"good", "better"} /\ Cardinality(st.used) <= 1

\* Encoding, dates, paths and schemas never make two things one or one two.
EncodingFaithful ==
    /\ SameIdSameContent
    /\ DecimalIsExact
    /\ TimestampIsRealDay
    /\ PortablePathStaysBelow
    /\ OneSoundSchema
=============================================================================
