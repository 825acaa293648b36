---------------------------- MODULE RecordFilter ----------------------------
(***************************************************************************)
(* The record filter of HeapFileScan (src/s4/heapfile.C): startScan       *)
(* validates and stores the predicate (offset, length, type, filter, op), *)
(* matchRec tests one record against it.  A caller sets predicates and    *)
(* tests records in any order.                                             *)
(*                                                                         *)
(* A record is its length and the attribute found at the filter's offset, *)
(* read as an int, as a float and as chars.  Ints are 32-bit and matchRec *)
(* subtracts them in int: the build wraps modulo 2^32 (two's complement,  *)
(* no trapping), which Sub32 computes without leaving TLC's integers.     *)
(* diff is then converted to float and only compared with 0.0; the        *)
(* conversion keeps the sign, so the model keeps diff's sign.  Floats are *)
(* finite (no NaN): a difference of finite floats has the sign of the     *)
(* exact difference.  Chars are unsigned; 0 is the NUL byte.               *)
(***************************************************************************)
EXTENDS Integers, Sequences

CONSTANTS
    NoFilter,   \* a NULL filter pointer
    Offsets,    \* offsets a caller passes to startScan
    Lengths,    \* lengths a caller passes to startScan
    RecLengths, \* record lengths
    IntVals,    \* int (and finite float) attribute and filter values
    StrVals     \* char sequences, attribute and filter strings

IntMax == 2147483647
IntMin == -IntMax - 1
SizeofInt   == 4
SizeofFloat == 4

Types     == {"INTEGER", "FLOAT", "STRING"}
Operators == {"LT", "LTE", "EQ", "GTE", "GT", "NE"}

ASSUME \A v \in IntVals : IntMin <= v /\ v <= IntMax
ASSUME \A s \in StrVals : \A l \in Lengths : l >= 1 => Len(s) >= l

\* iattr - ifltr in 32-bit two's complement.
Sub32(a, b) ==
    CASE b < 0 /\ a > IntMax + b -> (a - IntMax - 1) - (b + IntMax + 1)
      [] b > 0 /\ a < IntMin + b -> (a - IntMin) - (b + IntMin)
      [] OTHER                   -> a - b

Sign(x) == IF x < 0 THEN -1 ELSE IF x > 0 THEN 1 ELSE 0

\* The sign of the exact difference a - b.
Cmp(a, b) == IF a < b THEN -1 ELSE IF a > b THEN 1 ELSE 0

\* strncmp(a, b, n): compare up to n chars, stopping after a NUL both share.
RECURSIVE StrnCmp(_, _, _)
StrnCmp(a, b, n) ==
    IF n = 0 THEN 0
    ELSE IF Head(a) # Head(b) THEN Sign(Head(a) - Head(b))
    ELSE IF Head(a) = 0 THEN 0
    ELSE StrnCmp(Tail(a), Tail(b), n - 1)

\* The relation op between diff and 0.
OpHolds(op, diff) ==
    CASE op = "LT"  -> diff < 0
      [] op = "LTE" -> diff <= 0
      [] op = "EQ"  -> diff = 0
      [] op = "GTE" -> diff >= 0
      [] op = "GT"  -> diff > 0
      [] op = "NE"  -> diff # 0

\* The sign of diff as matchRec computes it.
Diff(sc, rec) ==
    CASE sc.type = "INTEGER" -> Sign(Sub32(rec.ival, sc.filter))
      [] sc.type = "FLOAT"   -> Cmp(rec.ival, sc.filter)
      [] sc.type = "STRING"  -> StrnCmp(rec.sval, sc.filter, sc.length)

\* Mutant of MatchRec: the record-length check is off by one.
MatchRecLengthOffByOne(sc, rec) ==
    \/ sc.filter = NoFilter
    \/ /\ sc.offset + sc.length < rec.length
       /\ OpHolds(sc.op, Diff(sc, rec))

MatchRec(sc, rec) ==
    \/ sc.filter = NoFilter
    \/ /\ sc.offset + sc.length - 1 < rec.length
       /\ OpHolds(sc.op, Diff(sc, rec))

\* startScan's parameter check.
ValidScan(offset, length, type, op) ==
    /\ offset >= 0 /\ length >= 1
    /\ type \in Types
    /\ type = "INTEGER" => length = SizeofInt
    /\ type = "FLOAT" => length = SizeofFloat
    /\ op \in Operators

Records == [length : RecLengths, ival : IntVals, sval : StrVals]
NoTest  == [done |-> FALSE, rec |-> CHOOSE r \in Records : TRUE, result |-> FALSE]

VARIABLES
    scan,    \* the predicate members of the HeapFileScan
    status,  \* what the last startScan returned
    tested   \* the last matchRec call since startScan: record and result

vars == <<scan, status, tested>>

Init ==
    /\ scan = [filter |-> NoFilter, offset |-> 0, length |-> 0,
               type |-> "INTEGER", op |-> "EQ"]
    /\ status = "OK"
    /\ tested = NoTest

\* Mutant of StartScan: the check omits the operator.
StartScanNoOpCheck(offset, length, type, filter, op) ==
    LET ok == /\ offset >= 0 /\ length >= 1 /\ type \in Types
              /\ type = "INTEGER" => length = SizeofInt
              /\ type = "FLOAT" => length = SizeofFloat
    IN /\ scan' = CASE filter = NoFilter -> [scan EXCEPT !.filter = NoFilter]
                    [] ok -> [filter |-> filter, offset |-> offset, length |-> length,
                              type |-> type, op |-> op]
                    [] OTHER -> scan
       /\ status' = IF filter = NoFilter \/ ok THEN "OK" ELSE "BADSCANPARM"
       /\ tested' = NoTest

\* Mutant of StartScan: the check omits that an INTEGER or FLOAT filter is
\* exactly sizeof(int) or sizeof(float) long.
StartScanNoSizeCheck(offset, length, type, filter, op) ==
    LET ok == offset >= 0 /\ length >= 1 /\ type \in Types /\ op \in Operators
    IN /\ scan' = CASE filter = NoFilter -> [scan EXCEPT !.filter = NoFilter]
                    [] ok -> [filter |-> filter, offset |-> offset, length |-> length,
                              type |-> type, op |-> op]
                    [] OTHER -> scan
       /\ status' = IF filter = NoFilter \/ ok THEN "OK" ELSE "BADSCANPARM"
       /\ tested' = NoTest

\* startScan(offset, length, type, filter, op).  A NULL filter clears the
\* predicate; bad parameters return BADSCANPARM and change nothing.
StartScan(offset, length, type, filter, op) ==
    /\ scan' = CASE filter = NoFilter -> [scan EXCEPT !.filter = NoFilter]
                 [] ValidScan(offset, length, type, op) ->
                      [filter |-> filter, offset |-> offset, length |-> length,
                       type |-> type, op |-> op]
                 [] OTHER -> scan
    /\ status' = IF filter = NoFilter \/ ValidScan(offset, length, type, op)
                 THEN "OK" ELSE "BADSCANPARM"
    /\ tested' = NoTest

\* scanNext tests the record at curRec.
Test(rec) ==
    /\ tested' = [done |-> TRUE, rec |-> rec, result |-> MatchRec(scan, rec)]
    /\ UNCHANGED <<scan, status>>

\* The filter values that fit a type: numbers for INTEGER and FLOAT, char
\* sequences for STRING.
FilterVals(type) == IF type = "STRING" THEN StrVals ELSE IntVals

Next ==
    \/ \E offset \in Offsets, length \in Lengths, type \in Types \cup {"BADTYPE"},
          op \in Operators \cup {"BADOP"} :
          \E filter \in FilterVals(type) \cup {NoFilter} :
             StartScan(offset, length, type, filter, op)
    \/ \E rec \in Records : Test(rec)

Spec == Init /\ [][Next]_vars

-----------------------------------------------------------------------------
(***************************************************************************)
(* Properties.  SpecMatch is matchRec as spec 4.4 states it: diff is the  *)
(* exact difference attr - fltr, or memcmp of length bytes.               *)
(***************************************************************************)
RECURSIVE MemCmp(_, _, _)
MemCmp(a, b, n) ==
    IF n = 0 THEN 0
    ELSE IF Head(a) # Head(b) THEN Sign(Head(a) - Head(b))
    ELSE MemCmp(Tail(a), Tail(b), n - 1)

SpecMatch(sc, rec) ==
    \/ sc.filter = NoFilter
    \/ /\ sc.offset + sc.length <= rec.length
       /\ OpHolds(sc.op, CASE sc.type = "STRING" -> MemCmp(rec.sval, sc.filter, sc.length)
                           [] OTHER -> Cmp(rec.ival, sc.filter))

\* The int subtraction overflows.
Overflows(a, b) == (b < 0 /\ a > IntMax + b) \/ (b > 0 /\ a < IntMin + b)

\* The two strings share a NUL before they first differ (in length chars).
RECURSIVE NulBeforeDiff(_, _, _)
NulBeforeDiff(a, b, n) ==
    /\ n > 0 /\ Head(a) = Head(b)
    /\ (Head(a) = 0 \/ NulBeforeDiff(Tail(a), Tail(b), n - 1))

TypeOK ==
    /\ scan.offset \in Offsets \cup {0} /\ scan.length \in Lengths \cup {0}
    /\ scan.type \in Types /\ scan.op \in Operators
    /\ scan.filter = NoFilter \/ scan.filter \in FilterVals(scan.type)
    /\ status \in {"OK", "BADSCANPARM"}
    /\ tested.rec \in Records /\ tested.result \in BOOLEAN

\* Whenever matchRec gets past its record-length check it reads defined
\* bytes only: the attribute lies inside the record (offset >= 0, so the
\* memcpy/strncmp from rec.data + offset does not start before the data),
\* and for INTEGER and FLOAT the memcpy fills exactly the sizeof(int) or
\* sizeof(float) bytes of iattr/ifltr or fattr/ffltr: fewer leaves bytes
\* of the local uninitialised, more overruns it.  matchRec itself checks
\* only the end of the attribute; the rest must come from the predicate
\* startScan stored, across any sequence of accepted, rejected and
\* clearing startScan calls.
MatchRecReadsDefinedBytes ==
    LET sc == scan
        r  == tested.rec
    IN tested.done /\ sc.filter # NoFilter /\ sc.offset + sc.length - 1 < r.length =>
           /\ sc.offset >= 0
           /\ sc.type = "INTEGER" => sc.length = SizeofInt
           /\ sc.type = "FLOAT" => sc.length = SizeofFloat

\* matchRec decides as the spec says for every predicate startScan accepts
\* and every record, except in exactly two cases: an INTEGER subtraction
\* that overflows int, and a STRING filter where both strings hold a NUL
\* before they differ (strncmp stops there, memcmp does not).  Any other
\* disagreement (the length check, an operator, the NULL filter, the
\* predicate startScan stored) is a fault of matchRec or startScan.
MatchRecAgreesWithSpec ==
    LET sc == scan
        r  == tested.rec
        Exempt == \/ (sc.type = "INTEGER" /\ Overflows(r.ival, sc.filter))
                  \/ (sc.type = "STRING" /\ NulBeforeDiff(r.sval, sc.filter, sc.length))
    IN tested.done => ((sc.filter # NoFilter /\ Exempt) \/ tested.result = SpecMatch(sc, r))

\* An INTEGER filter orders values as the integers are ordered (spec 4.4:
\* diff = attr - fltr, compared with 0).
IntegerFilterOrdersValues ==
    tested.done /\ scan.filter # NoFilter /\ scan.type = "INTEGER" =>
        tested.result = SpecMatch(scan, tested.rec)

=============================================================================
