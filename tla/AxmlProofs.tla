---------------------------- MODULE AxmlProofs ----------------------------
(***************************************************************************)
(* Proofs about AxmlWalk, for every length of the data and every size of   *)
(* the headers: the chunks tile the data, every read is inside its chunk,  *)
(* and each issue stands for one chunk or one string.                      *)
(***************************************************************************)
EXTENDS AxmlWalk, FiniteSetTheorems, SequenceTheorems, TLAPS

\* Where the walk is.
WalkInv ==
    /\ at = "begin" => chunks = {} /\ outerSize = 0 /\ pos = 0
    /\ at \in {"walk", "table"} \cup ChunkType => ChunkHeaderLen <= pos
    /\ pos > ChunkHeaderLen => pos <= outerSize
    /\ chunks # {} => WalkedTo <= outerSize
    /\ InChunk => Whole(chunkSize) /\ HeaderLeft
    /\ at = "table" => PoolHeaderLen <= chunkSize
    /\ at = "done" /\ HeaderLeft => ~Whole(chunkSize)

TileInv ==
    /\ \A c \in chunks : ChunkHeaderLen <= c.at /\ c.at + c.size <= WalkedTo
    /\ \A c \in chunks : ChunkHeaderLen <= c.size
    /\ \A c, d \in chunks : c = d \/ c.at + c.size <= d.at \/ d.at + d.size <= c.at
    /\ \A p \in ChunkHeaderLen..(WalkedTo - 1) : \E c \in chunks : Covers(c, p)

IInv == TypeOK /\ WalkInv /\ TileInv

LEMMA Consts ==
    /\ Alignment \in Nat \ {0} /\ OffsetLen \in Nat \ {0}
    /\ PoolHeaderLen \in Nat /\ ElementLen \in Nat
    /\ ChunkHeaderLen \in Nat \ {0} /\ ChunkHeaderLen = AxmlMinLen
    /\ ChunkHeaderLen <= PoolHeaderLen /\ ChunkHeaderLen <= ElementLen
    /\ ChunkHeaderLen % Alignment = 0
    /\ Sentinel32 \in Nat
    /\ DataLens \subseteq Nat
BY ChunkAssumption, WidthAssumption DEF ChunkHeaderLen

LEMMA Kinds ==
    /\ \A c, k : k \in AXMLKind => Flag(c, k) \in Seq(AXMLKind)
    /\ {"axml_bad_magic", "axml_chunk_misaligned", "axml_string_count_mismatch",
        "axml_offset_out_of_bounds", "axml_string_duplicate_offset",
        "axml_attribute_start_invalid", "axml_attribute_size_invalid"} \subseteq AXMLKind
BY DEF Flag, AXMLKind

\* What leaving a chunk does to the place and to the local variables.
LEMMA DoneType ==
    ASSUME IInv, InChunk, NEW returned \in Seq(AXMLKind), ChunkDone(returned)
    PROVE  IInv'
<1>1. TypeOK /\ WalkInv /\ TileInv
    BY DEF IInv
<1>2. /\ len' = len /\ outerSize' = outerSize /\ chunkSize' = chunkSize /\ chunks' = chunks
      /\ pos' = pos + chunkSize /\ at' = "walk" /\ issues' = issues \o returned
      /\ stringCount' = 0 /\ stringsStart' = 0 /\ strings' = << >> /\ seen' = {}
      /\ found' = << >>
    BY DEF ChunkDone
<1>3. /\ len \in Nat /\ outerSize \in 0..len /\ pos \in 0..len /\ chunkSize \in Nat
      /\ chunkSize >= ChunkHeaderLen /\ pos >= ChunkHeaderLen /\ pos + chunkSize <= outerSize
    BY <1>1, Consts DEF TypeOK, WalkInv, Whole, InChunk, U32
<1>4. TypeOK'
    <2>1. issues' \in Seq(AXMLKind)
        BY <1>1, <1>2, ConcatProperties DEF TypeOK
    <2>2. pos' \in 0..len
        BY <1>2, <1>3
    <2>3. stringCount' \in U32 /\ stringsStart' \in U32
        BY <1>2, Consts DEF U32
    <2> QED
        BY <1>1, <1>2, <2>1, <2>2, <2>3 DEF TypeOK
<1>5. WalkedTo = pos + chunkSize /\ WalkedTo' = WalkedTo
    <2>1. WalkedTo' = pos'
        BY <1>2 DEF WalkedTo, InChunk, ChunkType
    <2> QED
        BY <1>2, <2>1 DEF WalkedTo
<1>6. WalkInv'
    <2>1. ChunkHeaderLen <= pos' /\ pos' <= outerSize'
        BY <1>2, <1>3, Consts
    <2> QED
        BY <1>1, <1>2, <1>5, <2>1 DEF WalkInv, InChunk, ChunkType
<1>7. TileInv'
    BY <1>1, <1>2, <1>5 DEF TileInv, Covers
<1> QED
    BY <1>4, <1>6, <1>7 DEF IInv

LEMMA InitIInv ==
    ASSUME Init
    PROVE  IInv
<1>1. TypeOK
    BY Consts DEF Init, TypeOK, U32
<1>2. WalkedTo = 0 /\ chunks = {}
    BY DEF Init, WalkedTo, InChunk, ChunkType
<1> QED
    BY <1>1, <1>2, Consts DEF Init, IInv, WalkInv, TileInv, InChunk, ChunkType

LEMMA StepIInv ==
    ASSUME IInv, [Next]_vars
    PROVE  IInv'
<1>1. TypeOK /\ WalkInv /\ TileInv
    BY DEF IInv
<1>2. /\ len \in Nat /\ outerSize \in 0..len /\ pos \in 0..len /\ chunkSize \in Nat
      /\ chunks \in SUBSET Chunk
    BY <1>1, Consts DEF TypeOK, U32
<1>3. CASE TooShort
    BY <1>1, <1>2, <1>3, Consts
       DEF TooShort, poolVars, IInv, TypeOK, WalkInv, TileInv, WalkedTo, InChunk, ChunkType,
           HeaderLeft
<1>4. CASE ReadOuter
    <2>1. /\ len' = len /\ at' = "walk" /\ pos' = ChunkHeaderLen /\ chunks' = {}
          /\ chunkSize' = chunkSize /\ stringCount' = stringCount
          /\ stringsStart' = stringsStart /\ strings' = strings /\ seen' = seen
          /\ found' = found /\ outerSize' \in 0..len /\ len >= ChunkHeaderLen
        BY <1>1, <1>2, <1>4, Consts DEF ReadOuter, poolVars, WalkInv, U32
    <2>2. issues' \in Seq(AXMLKind)
        BY <1>4, Kinds DEF ReadOuter
    <2>3. TypeOK'
        BY <1>1, <2>1, <2>2, Consts DEF TypeOK
    <2>4. WalkedTo' = ChunkHeaderLen /\ ~InChunk'
        BY <2>1 DEF WalkedTo, InChunk, ChunkType
    <2> QED
        BY <2>1, <2>3, <2>4, Consts DEF IInv, WalkInv, TileInv
<1>5. CASE WalkEnds
    BY <1>1, <1>2, <1>5, Consts
       DEF WalkEnds, poolVars, IInv, TypeOK, WalkInv, TileInv, WalkedTo, InChunk, ChunkType,
           HeaderLeft, Covers
<1>6. CASE BrokenChunk
    <2>1. /\ chunkSize' \in U32 /\ ~Whole(chunkSize')
          /\ UNCHANGED <<len, outerSize, pos, poolVars, issues, chunks>>
          /\ at = "walk" /\ at' = "done"
        BY <1>6 DEF BrokenChunk
    <2>2. ~Whole(chunkSize)'
        BY <2>1 DEF Whole
    <2>3. WalkedTo' = WalkedTo /\ ~InChunk'
        BY <2>1 DEF WalkedTo, InChunk, ChunkType
    <2> QED
        BY <1>1, <2>1, <2>2, <2>3
           DEF poolVars, IInv, TypeOK, WalkInv, TileInv, Covers, ChunkType
<1>7. CASE ReadChunk
    <2> PICK size \in U32, type \in ChunkType :
            /\ Whole(size) /\ chunkSize' = size /\ at' = type
            /\ issues' = issues \o Flag(Misaligned(size), "axml_chunk_misaligned")
            /\ chunks' = chunks \cup {[at |-> pos, size |-> size, type |-> type]}
        BY <1>7 DEF ReadChunk
    <2> DEFINE new == [at |-> pos, size |-> size, type |-> type]
    <2>1. /\ at = "walk" /\ HeaderLeft
          /\ UNCHANGED <<len, outerSize, pos, poolVars>>
        BY <1>7 DEF ReadChunk
    <2>2. /\ new \in Chunk /\ new.at = pos /\ new.size = size
          /\ size \in Nat /\ ChunkHeaderLen <= size /\ pos + size <= outerSize
          /\ ChunkHeaderLen <= pos
        BY <1>1, <1>2, <2>1, Consts DEF Chunk, Whole, U32, WalkInv
    <2>3. chunks' = chunks \cup {new}
        OBVIOUS
    <2>4. /\ WalkedTo = pos /\ WalkedTo' = pos + size
        <3>1. InChunk' /\ ~InChunk
            BY <2>1 DEF InChunk, ChunkType
        <3> QED
            BY <2>1, <3>1 DEF WalkedTo
    <2>5. TypeOK'
        <3>1. issues' \in Seq(AXMLKind)
            BY <1>1, Kinds, ConcatProperties DEF TypeOK
        <3> QED
            BY <1>1, <2>1, <2>2, <2>3, <3>1 DEF TypeOK, poolVars
    <2>6. WalkInv'
        <3>1. Whole(chunkSize)' /\ HeaderLeft'
            BY <2>1 DEF Whole, HeaderLeft
        <3> QED
            BY <1>1, <2>1, <2>2, <2>4, <3>1 DEF WalkInv, ChunkType, InChunk
    <2> HIDE DEF new
    <2>7. \A c \in chunks : c.at \in Nat /\ c.size \in Nat
        BY <1>2, Consts DEF Chunk, U32
    <2>8. TileInv'
        <3>1. \A c \in chunks' : ChunkHeaderLen <= c.at /\ c.at + c.size <= WalkedTo'
            BY <1>1, <1>2, <2>2, <2>3, <2>4, <2>7, Consts DEF TileInv
        <3>2. \A c, d \in chunks' : c = d \/ c.at + c.size <= d.at \/ d.at + d.size <= c.at
            BY <1>1, <1>2, <2>2, <2>3, <2>4, <2>7, Consts DEF TileInv
        <3>3. \A c \in chunks' : ChunkHeaderLen <= c.size
            BY <1>1, <2>2, <2>3 DEF TileInv
        <3>4. \A p \in ChunkHeaderLen..(WalkedTo' - 1) : \E c \in chunks' : Covers(c, p)
            <4> SUFFICES ASSUME NEW p \in ChunkHeaderLen..(WalkedTo' - 1)
                         PROVE  \E c \in chunks' : Covers(c, p)
                OBVIOUS
            <4>1. CASE p < pos
                BY <1>1, <1>2, <2>3, <2>4, <4>1, Consts DEF TileInv
            <4>2. CASE p >= pos
                <5>1. Covers(new, p)
                    BY <1>2, <2>2, <2>4, <4>2, Consts DEF Covers
                <5> QED
                    BY <2>3, <5>1
            <4> QED
                BY <1>2, <4>1, <4>2, Consts
        <3> QED
            BY <3>1, <3>2, <3>3, <3>4 DEF TileInv, Covers
    <2> QED
        BY <2>5, <2>6, <2>8 DEF IInv
<1>8. CASE NothingToCheck
    <2>1. << >> \in Seq(AXMLKind) /\ InChunk /\ ChunkDone(<< >>)
        BY <1>8 DEF NothingToCheck, InChunk, ChunkType
    <2> QED
        BY <2>1, DoneType
<1>9. CASE ReadPoolHeader
    <2>1. WalkedTo' = WalkedTo /\ InChunk' /\ InChunk
        BY <1>9 DEF ReadPoolHeader, WalkedTo, InChunk, ChunkType
    <2> QED
        BY <1>1, <1>9, <2>1
           DEF ReadPoolHeader, IInv, TypeOK, WalkInv, TileInv, Covers, Whole, HeaderLeft,
               InChunk, ChunkType
<1>10. CASE CountMismatch
    <2>1. <<"axml_string_count_mismatch">> \in Seq(AXMLKind)
        BY Kinds
    <2> QED
        BY <1>10, <2>1, DoneType DEF CountMismatch, InChunk
<1>11. CASE NoStringData
    <2>1. << >> \in Seq(AXMLKind)
        OBVIOUS
    <2> QED
        BY <1>11, <2>1, DoneType DEF NoStringData, InChunk
<1>12. CASE CheckOffset
    <2>1. /\ UNCHANGED <<len, at, outerSize, pos, chunkSize, stringCount, stringsStart,
                         issues, chunks>>
          /\ strings' \in Seq(U32) /\ seen' \in SUBSET U32 /\ found' \in Seq(AXMLKind)
        <3> PICK offset \in U32 :
              /\ strings' = Append(strings, offset)
              /\ IF offset >= StringDataSize
                 THEN /\ found' = Append(found, "axml_offset_out_of_bounds")
                      /\ UNCHANGED seen
                 ELSE /\ found' = found \o Flag(offset \in seen, "axml_string_duplicate_offset")
                      /\ seen' = seen \cup {offset}
            BY <1>12 DEF CheckOffset
        <3>1. strings' \in Seq(U32) /\ seen' \in SUBSET U32
            BY <1>1, AppendProperties DEF TypeOK
        <3>2. found' \in Seq(AXMLKind)
            <4>1. CASE offset >= StringDataSize
                <5>1. found' = Append(found, "axml_offset_out_of_bounds")
                    BY <4>1
                <5>2. "axml_offset_out_of_bounds" \in AXMLKind
                    BY Kinds
                <5> QED
                    BY <1>1, <5>1, <5>2, AppendProperties DEF TypeOK
            <4>2. CASE ~(offset >= StringDataSize)
                <5>1. Flag(offset \in seen, "axml_string_duplicate_offset") \in Seq(AXMLKind)
                    BY Kinds
                <5> QED
                    BY <1>1, <4>2, <5>1, ConcatProperties DEF TypeOK
            <4> QED
                BY <4>1, <4>2
        <3> QED
            BY <1>12, <3>1, <3>2 DEF CheckOffset
    <2> QED
        BY <1>1, <2>1
           DEF IInv, TypeOK, WalkInv, TileInv, Covers, Whole, HeaderLeft, InChunk, WalkedTo
<1>13. CASE PoolChecked
    BY <1>1, <1>13, DoneType DEF PoolChecked, InChunk, TypeOK
<1>14. CASE CheckElement
    <2> PICK startOK, sizeOK \in BOOLEAN :
            ChunkDone(Flag(~startOK, "axml_attribute_start_invalid")
                      \o Flag(~sizeOK, "axml_attribute_size_invalid"))
        BY <1>14 DEF CheckElement
    <2>1. Flag(~startOK, "axml_attribute_start_invalid")
            \o Flag(~sizeOK, "axml_attribute_size_invalid") \in Seq(AXMLKind)
        BY Kinds, ConcatProperties
    <2> QED
        BY <1>14, <2>1, DoneType DEF CheckElement, InChunk, ChunkType
<1>15. CASE UNCHANGED vars
    BY <1>1, <1>15
       DEF vars, poolVars, IInv, TypeOK, WalkInv, TileInv, Covers, Whole, HeaderLeft,
           InChunk, WalkedTo
<1> QED
    BY <1>3, <1>4, <1>5, <1>6, <1>7, <1>8, <1>9, <1>10, <1>11, <1>12, <1>13, <1>14, <1>15
       DEF Next, Returned

LEMMA IInvHolds == Spec => []IInv
BY InitIInv, StepIInv, PTL DEF Spec

\* For every length and every size field the variables of ParseAXML keep their types:
\* neither the walk's place nor the outer chunk's end lies past the data.
THEOREM TypeCorrect == Spec => []TypeOK
BY IInvHolds, PTL DEF IInv

\* For every length and every size field: the chunks that are checked tile the data
\* and stay inside it, and the walk stops only where no whole chunk can be read.
THEOREM ChunksTileHolds == Spec => []ChunksTile
<1>1. ASSUME IInv PROVE ChunksTile
    <2>1. TypeOK /\ WalkInv /\ TileInv
        BY <1>1 DEF IInv
    <2>2. \A c \in chunks : c.at \in Nat /\ c.size \in Nat
        BY <2>1, Consts DEF TypeOK, Chunk, U32
    <2>3. \A c \in chunks : c.at + c.size <= outerSize
        <3>1. chunks # {} => WalkedTo <= outerSize
            BY <2>1 DEF WalkInv
        <3>2. WalkedTo \in Int /\ outerSize \in Int
            BY <2>1, Consts DEF TypeOK, WalkedTo, U32
        <3> QED
            BY <2>1, <2>2, <3>1, <3>2 DEF TileInv
    <2> QED
        BY <2>1, <2>3 DEF TileInv, WalkInv, ChunksTile
<1> QED
    BY <1>1, IInvHolds, PTL DEF IInv

\* No read of ParseAXML falls back on the zero that stands for missing bytes.
THEOREM ReadsInChunkHolds == Spec => []ReadsInChunk
<1>1. ASSUME IInv PROVE ReadsInChunk
    <2>1. TypeOK /\ WalkInv
        BY <1>1 DEF IInv
    <2>2. at = "walk" /\ HeaderLeft => pos + ChunkHeaderLen <= len
        BY <2>1, Consts DEF TypeOK, HeaderLeft
    <2>3. ASSUME OffsetLeft
          PROVE  /\ OffsetAt(Len(strings) + 1) <= chunkSize
                 /\ stringsStart > 0 => OffsetAt(Len(strings) + 1) <= stringsStart
        <3>1. /\ Len(strings) \in Nat /\ stringCount \in Nat /\ chunkSize \in Nat
              /\ stringsStart \in Nat /\ Len(strings) + 1 <= stringCount
            BY <2>1, <2>3, Consts, LenProperties DEF TypeOK, U32, OffsetLeft
        <3>2. (Len(strings) + 1) * OffsetLen <= stringCount * OffsetLen
            <4> DEFINE n == Len(strings) + 1
            <4>1. \A a, b, w \in Nat : a <= b => a * w <= b * w
                OBVIOUS
            <4> QED
                BY <3>1, <4>1, Consts
        <3>3. (Len(strings) + 1) * OffsetLen \in Nat /\ stringCount * OffsetLen \in Nat
            BY <3>1, Consts
        <3>4. OffsetAt(Len(strings) + 1) <= OffsetTableEnd
            BY <3>2, <3>3, Consts DEF OffsetAt, OffsetTableEnd
        <3>5. OffsetAt(Len(strings) + 1) \in Nat /\ OffsetTableEnd \in Nat
            BY <3>3, Consts DEF OffsetAt, OffsetTableEnd
        <3> QED
            BY <2>3, <3>1, <3>4, <3>5 DEF OffsetLeft, CountImpossible
    <2> QED
        BY <2>1, <2>2, <2>3 DEF ReadsInChunk, WalkInv
<1> QED
    BY <1>1, IInvHolds, PTL

----------------------------------------------------------------------------
(* Counting issues.                                                        *)

LEMMA CountAppend ==
    ASSUME NEW s \in Seq(AXMLKind), NEW x \in AXMLKind, NEW kind
    PROVE  /\ Count(Append(s, x), kind) = Count(s, kind) + (IF x = kind THEN 1 ELSE 0)
           /\ Count(s, kind) \in Nat
<1> DEFINE Places(t) == {k \in DOMAIN t : t[k] = kind}
           t == Append(s, x)
<1>1. /\ DOMAIN s = 1..Len(s) /\ DOMAIN t = 1..(Len(s) + 1) /\ Len(s) \in Nat
      /\ \A k \in 1..Len(s) : t[k] = s[k]
      /\ t[Len(s) + 1] = x
    BY AppendProperties, LenProperties
<1>2. IsFiniteSet(Places(s))
    <2>1. IsFiniteSet(1..Len(s))
        BY <1>1, FS_Interval
    <2> QED
        BY <1>1, <2>1, FS_Subset
<1>3. Places(t) = IF x = kind THEN Places(s) \cup {Len(s) + 1} ELSE Places(s)
    <2> HIDE DEF t
    <2>1. \A k \in Int : k \in 1..(Len(s) + 1) <=> k \in 1..Len(s) \/ k = Len(s) + 1
        BY <1>1
    <2> QED
        BY <1>1, <2>1
<1>4. Len(s) + 1 \notin Places(s)
    BY <1>1
<1>5. Cardinality(Places(s)) \in Nat
    BY <1>2, FS_CardinalityType
<1>6. Cardinality(Places(t)) = Cardinality(Places(s)) + (IF x = kind THEN 1 ELSE 0)
    <2>1. Cardinality(Places(s) \cup {Len(s) + 1}) = Cardinality(Places(s)) + 1
        BY <1>2, <1>4, FS_AddElement
    <2> HIDE DEF Places, t
    <2> QED
        BY <1>3, <1>5, <2>1
<1> QED
    BY <1>5, <1>6 DEF Count

LEMMA CountEmpty == \A kind : Count(<< >>, kind) = 0
BY FS_EmptySet DEF Count

\* Issues of other kinds do not change the count.
LEMMA CountConcat ==
    ASSUME NEW s \in Seq(AXMLKind), NEW r \in Seq(AXMLKind), NEW kind,
           \A k \in DOMAIN r : r[k] # kind
    PROVE  Count(s \o r, kind) = Count(s, kind)
<1>1. /\ DOMAIN s = 1..Len(s) /\ DOMAIN r = 1..Len(r) /\ DOMAIN (s \o r) = 1..(Len(s) + Len(r))
      /\ Len(s) \in Nat /\ Len(r) \in Nat
    BY ConcatProperties, LenProperties
<1>2. /\ \A k \in 1..Len(s) : (s \o r)[k] = s[k]
      /\ \A k \in (Len(s) + 1)..(Len(s) + Len(r)) : (s \o r)[k] = r[k - Len(s)]
    BY <1>1, ConcatProperties
<1>3. \A k \in (Len(s) + 1)..(Len(s) + Len(r)) : (s \o r)[k] # kind
    BY <1>1, <1>2
<1>4. {k \in DOMAIN (s \o r) : (s \o r)[k] = kind} = {k \in DOMAIN s : s[k] = kind}
    <2> DEFINE t == s \o r
    <2> HIDE DEF t
    <2> QED
        BY <1>1, <1>2, <1>3 DEF t
<1> QED
    BY <1>4 DEF Count

LEMMA FlagIsAppend ==
    ASSUME NEW s \in Seq(AXMLKind), NEW c, NEW kind \in AXMLKind
    PROVE  s \o Flag(c, kind) = IF c THEN Append(s, kind) ELSE s
<1>1. CASE c
    BY <1>1, AppendIsConcat DEF Flag
<1>2. CASE ~c
    BY <1>2, ConcatEmptySeq DEF Flag
<1> QED
    BY <1>1, <1>2

----------------------------------------------------------------------------
(* The strings of a pool.                                                  *)

JudgedInv ==
    /\ at # "table" => strings = << >> /\ found = << >> /\ seen = {}
    /\ seen = {strings[k] : k \in DOMAIN strings \ OutOfBounds}
    /\ Count(found, "axml_offset_out_of_bounds") = Cardinality(OutOfBounds)
    /\ Count(found, "axml_string_duplicate_offset") = Cardinality(Repeated)
    /\ Len(found) = Cardinality(OutOfBounds) + Cardinality(Repeated)

LEMMA NothingJudged == strings = << >> /\ found = << >> /\ seen = {} => JudgedInv
<1> SUFFICES ASSUME strings = << >>, found = << >>, seen = {}
             PROVE  JudgedInv
    OBVIOUS
<1>1. DOMAIN strings = {}
    OBVIOUS
<1>2. OutOfBounds = {} /\ Repeated = {}
    BY <1>1 DEF OutOfBounds, Repeated
<1>3. {strings[k] : k \in DOMAIN strings \ OutOfBounds} = {}
    BY <1>1
<1>4. Len(found) = 0
    OBVIOUS
<1> QED
    BY <1>2, <1>3, <1>4, CountEmpty, FS_EmptySet DEF JudgedInv

LEMMA StepJudged ==
    ASSUME IInv, JudgedInv, [Next]_vars
    PROVE  JudgedInv'
<1>1. TypeOK /\ WalkInv
    BY DEF IInv
<1>2. CASE CheckOffset
    <2> PICK offset \in U32 :
          /\ strings' = Append(strings, offset)
          /\ IF offset >= StringDataSize
             THEN /\ found' = Append(found, "axml_offset_out_of_bounds")
                  /\ UNCHANGED seen
             ELSE /\ found' = found \o Flag(offset \in seen, "axml_string_duplicate_offset")
                  /\ seen' = seen \cup {offset}
        BY <1>2 DEF CheckOffset
    <2> DEFINE n == Len(strings)
    <2>1. /\ DOMAIN strings = 1..n /\ DOMAIN strings' = 1..(n + 1) /\ n \in Nat
          /\ \A k \in 1..n : strings'[k] = strings[k]
          /\ strings'[n + 1] = offset
          /\ \A k \in 1..n : strings[k] \in Nat
          /\ offset \in Nat /\ found \in Seq(AXMLKind)
        BY <1>1, AppendProperties, LenProperties, ElementOfSeq, Consts DEF TypeOK, U32
    <2>2. at = "table" /\ at' = at /\ StringDataSize' = StringDataSize /\ StringDataSize \in Int
        BY <1>1, <1>2, Consts DEF CheckOffset, OffsetLeft, StringDataSize, TypeOK, U32
    <2> HIDE DEF n
    <2>3. /\ OutOfBounds = {k \in 1..n : strings[k] >= StringDataSize}
          /\ OutOfBounds' = {k \in 1..(n + 1) : strings'[k] >= StringDataSize}
          /\ Repeated = {k \in 1..n \ OutOfBounds : \E j \in 1..(k - 1) : strings[j] = strings[k]}
          /\ Repeated' = {k \in 1..(n + 1) \ OutOfBounds' :
                            \E j \in 1..(k - 1) : strings'[j] = strings'[k]}
        BY <2>1, <2>2 DEF OutOfBounds, Repeated
    <2>4. IsFiniteSet(OutOfBounds) /\ IsFiniteSet(Repeated)
        <3>1. IsFiniteSet(1..n)
            BY <2>1, FS_Interval
        <3> QED
            BY <2>3, <3>1, FS_Subset
    <2>5. n + 1 \notin OutOfBounds /\ n + 1 \notin Repeated
        BY <2>1, <2>3
    <2>6. Cardinality(OutOfBounds) \in Nat /\ Cardinality(Repeated) \in Nat
        BY <2>4, FS_CardinalityType
    <2>7. \A k \in Int : k \in 1..(n + 1) <=> k \in 1..n \/ k = n + 1
        BY <2>1
    <2>8. OutOfBounds' = IF offset >= StringDataSize THEN OutOfBounds \cup {n + 1}
                         ELSE OutOfBounds
        BY <2>1, <2>2, <2>3, <2>7
    <2>9. \A k \in 1..n : k \in Repeated' <=> k \in Repeated
        <3> SUFFICES ASSUME NEW k \in 1..n
                     PROVE  k \in Repeated' <=> k \in Repeated
            OBVIOUS
        <3>1. k \in OutOfBounds' <=> k \in OutOfBounds
            BY <2>1, <2>5, <2>8
        <3>2. \A j \in 1..(k - 1) : j \in 1..n
            BY <2>1
        <3> QED
            BY <2>1, <2>3, <2>7, <3>1, <3>2
    <2>10. n + 1 \in Repeated'
             <=> ~(offset >= StringDataSize) /\ \E j \in 1..n : strings[j] = offset
        <3>1. n + 1 \in OutOfBounds' <=> offset >= StringDataSize
            BY <2>1, <2>5, <2>8
        <3>2. 1..((n + 1) - 1) = 1..n /\ n + 1 \in 1..(n + 1)
            BY <2>1
        <3> QED
            BY <2>1, <2>3, <3>1, <3>2
    <2>11. Repeated' \subseteq 1..(n + 1) /\ Repeated \subseteq 1..n
        BY <2>3
    <2>12. offset \in seen <=> ~(offset >= StringDataSize) /\ \E j \in 1..n : strings[j] = offset
        BY <2>1, <2>3 DEF JudgedInv
    <2>13. CASE offset >= StringDataSize
        <3>1. found' = Append(found, "axml_offset_out_of_bounds") /\ seen' = seen
            BY <2>13
        <3>2. OutOfBounds' = OutOfBounds \cup {n + 1}
            BY <2>8, <2>13
        <3>3. Repeated' = Repeated
            <4>1. n + 1 \notin Repeated'
                BY <2>10, <2>13
            <4>2. \A k \in Repeated' : k \in 1..n
                BY <2>1, <2>11, <4>1
            <4> QED
                BY <2>9, <2>11, <4>2
        <3>4. Cardinality(OutOfBounds') = Cardinality(OutOfBounds) + 1
            BY <2>4, <2>5, <3>2, FS_AddElement
        <3>5. /\ Count(found', "axml_offset_out_of_bounds")
                    = Count(found, "axml_offset_out_of_bounds") + 1
              /\ Count(found', "axml_string_duplicate_offset")
                    = Count(found, "axml_string_duplicate_offset")
            BY <2>1, <3>1, CountAppend, Kinds
        <3>6. Len(found') = Len(found) + 1
            BY <2>1, <3>1, AppendProperties, Kinds
        <3>7. seen' = {strings'[k] : k \in DOMAIN strings' \ OutOfBounds'}
            <4>1. DOMAIN strings' \ OutOfBounds' = DOMAIN strings \ OutOfBounds
                BY <2>1, <2>5, <2>7, <3>2
            <4> QED
                BY <2>1, <3>1, <4>1 DEF JudgedInv
        <3> QED
            BY <2>2, <2>6, <3>3, <3>4, <3>5, <3>6, <3>7 DEF JudgedInv
    <2>14. CASE ~(offset >= StringDataSize)
        <3>1. found' = IF offset \in seen THEN Append(found, "axml_string_duplicate_offset")
                       ELSE found
            <4>1. "axml_string_duplicate_offset" \in AXMLKind
                BY Kinds
            <4>2. found \o Flag(offset \in seen, "axml_string_duplicate_offset")
                    = IF offset \in seen THEN Append(found, "axml_string_duplicate_offset")
                      ELSE found
                BY <2>1, <4>1, FlagIsAppend
            <4> QED
                BY <2>14, <4>2
        <3>2. OutOfBounds' = OutOfBounds /\ seen' = seen \cup {offset}
            BY <2>8, <2>14
        <3>3. Repeated' = IF offset \in seen THEN Repeated \cup {n + 1} ELSE Repeated
            <4>1. n + 1 \in Repeated' <=> offset \in seen
                BY <2>10, <2>12
            <4>2. \A k \in Repeated' : k \in 1..n \/ k = n + 1
                BY <2>1, <2>11
            <4>3. \A k : k \in Repeated => k \in 1..n
                BY <2>11
            <4>4. CASE offset \in seen
                BY <2>9, <4>1, <4>2, <4>3, <4>4
            <4>5. CASE offset \notin seen
                <5>1. \A k : k \in Repeated' <=> k \in Repeated
                    BY <2>9, <4>1, <4>2, <4>3, <4>5
                <5>2. Repeated' = Repeated
                    BY <5>1
                <5> QED
                    BY <4>5, <5>2
            <4> QED
                BY <4>4, <4>5
        <3>4. Cardinality(Repeated')
                = IF offset \in seen THEN Cardinality(Repeated) + 1 ELSE Cardinality(Repeated)
            BY <2>4, <2>5, <3>3, FS_AddElement
        <3>5. /\ Count(found', "axml_offset_out_of_bounds")
                    = Count(found, "axml_offset_out_of_bounds")
              /\ Count(found', "axml_string_duplicate_offset")
                    = IF offset \in seen THEN Count(found, "axml_string_duplicate_offset") + 1
                      ELSE Count(found, "axml_string_duplicate_offset")
            BY <2>1, <3>1, CountAppend, Kinds
        <3>6. Len(found') = IF offset \in seen THEN Len(found) + 1 ELSE Len(found)
            BY <2>1, <3>1, AppendProperties, Kinds
        <3>7. seen' = {strings'[k] : k \in DOMAIN strings' \ OutOfBounds'}
            <4>1. DOMAIN strings' \ OutOfBounds' = (DOMAIN strings \ OutOfBounds) \cup {n + 1}
                BY <2>1, <2>5, <2>7, <3>2
            <4> QED
                BY <2>1, <3>2, <4>1 DEF JudgedInv
        <3>8. /\ Cardinality(OutOfBounds') = Cardinality(OutOfBounds)
              /\ Len(found) = Cardinality(OutOfBounds) + Cardinality(Repeated)
              /\ Count(found, "axml_offset_out_of_bounds") = Cardinality(OutOfBounds)
              /\ Count(found, "axml_string_duplicate_offset") = Cardinality(Repeated)
            BY <3>2 DEF JudgedInv
        <3>9. /\ Count(found', "axml_offset_out_of_bounds") = Cardinality(OutOfBounds')
              /\ Count(found', "axml_string_duplicate_offset") = Cardinality(Repeated')
              /\ Len(found') = Cardinality(OutOfBounds') + Cardinality(Repeated')
            <4>1. CASE offset \in seen
                BY <2>6, <3>4, <3>5, <3>6, <3>8, <4>1
            <4>2. CASE offset \notin seen
                BY <2>6, <3>4, <3>5, <3>6, <3>8, <4>2
            <4> QED
                BY <4>1, <4>2
        <3> QED
            BY <2>2, <3>7, <3>9 DEF JudgedInv
    <2> QED
        BY <2>13, <2>14
<1>3. ASSUME (strings = << >> /\ found = << >> /\ seen = {})' PROVE JudgedInv'
    BY <1>3, NothingJudged, PTL
<1>4. ASSUME NEW returned, ChunkDone(returned) PROVE JudgedInv'
    <2>1. (strings = << >> /\ found = << >> /\ seen = {})'
        BY <1>4 DEF ChunkDone
    <2> QED
        BY <1>3, <2>1
<1>5. ASSUME at # "table", UNCHANGED <<strings, found, seen>> PROVE JudgedInv'
    <2>1. (strings = << >> /\ found = << >> /\ seen = {})'
        BY <1>5 DEF JudgedInv
    <2> QED
        BY <1>3, <2>1
<1>6. CASE TooShort \/ ReadOuter \/ WalkEnds \/ BrokenChunk \/ ReadChunk \/ ReadPoolHeader
    BY <1>5, <1>6
       DEF TooShort, ReadOuter, WalkEnds, BrokenChunk, ReadChunk, ReadPoolHeader, poolVars,
           ChunkType
<1>7. CASE NothingToCheck \/ CountMismatch \/ NoStringData \/ PoolChecked \/ CheckElement
    BY <1>4, <1>7 DEF NothingToCheck, CountMismatch, NoStringData, PoolChecked, CheckElement
<1>8. CASE UNCHANGED vars
    <2>1. OutOfBounds' = OutOfBounds
        BY <1>8 DEF vars, poolVars, OutOfBounds, StringDataSize
    <2>2. Repeated' = Repeated
        BY <1>8, <2>1 DEF vars, poolVars, Repeated
    <2> QED
        BY <1>8, <2>1, <2>2 DEF vars, poolVars, JudgedInv, Count
<1> QED
    BY <1>2, <1>6, <1>7, <1>8 DEF Next, Returned

\* However long the table: one issue for each offset out of bounds and one for each
\* that an earlier string has, no more and no fewer.
THEOREM StringsJudgedHolds == Spec => []StringsJudged
<1>1. Init => JudgedInv
    BY NothingJudged DEF Init
<1>2. JudgedInv => StringsJudged
    BY DEF JudgedInv, StringsJudged
<1> QED
    BY <1>1, <1>2, StepJudged, IInvHolds, PTL DEF Spec

----------------------------------------------------------------------------
(* Alignment.                                                              *)

StringKind == {"axml_offset_out_of_bounds", "axml_string_duplicate_offset"}
Shifting == {c \in chunks : c.size % Alignment # 0}

AlignedInv ==
    /\ found \in Seq(StringKind)
    /\ IsFiniteSet(chunks)
    /\ Count(issues, "axml_chunk_misaligned") = Cardinality(Shifting)
    /\ Shifting = {} => /\ WalkedTo % Alignment = 0
                        /\ \A c \in chunks : c.at % Alignment = 0

LEMMA AlignedSum ==
    ASSUME NEW a \in Nat, NEW b \in Nat, NEW m \in Nat \ {0}, a % m = 0, b % m = 0
    PROVE  (a + b) % m = 0
<1>1. a = m * (a \div m) /\ a \div m \in Nat
    OBVIOUS
<1>2. b = m * (b \div m) /\ b \div m \in Nat
    OBVIOUS
<1>3. a + b = m * ((a \div m) + (b \div m))
    BY <1>1, <1>2
<1>4. \A q \in Nat : (m * q) % m = 0
    OBVIOUS
<1> DEFINE q == (a \div m) + (b \div m)
<1>5. q \in Nat
    BY <1>1, <1>2
<1> HIDE DEF q
<1>6. (m * q) % m = 0
    BY <1>4, <1>5
<1> QED
    BY <1>3, <1>6 DEF q

LEMMA InitAligned == Init => AlignedInv
<1> SUFFICES ASSUME Init PROVE AlignedInv
    OBVIOUS
<1>1. Shifting = {} /\ chunks = {}
    BY DEF Init, Shifting
<1>2. WalkedTo = 0 /\ 0 % Alignment = 0
    BY Consts DEF Init, WalkedTo, InChunk, ChunkType
<1>3. found \in Seq(StringKind)
    BY DEF Init
<1> QED
    BY <1>1, <1>2, <1>3, CountEmpty, FS_EmptySet DEF Init, AlignedInv

LEMMA StepAligned ==
    ASSUME IInv, AlignedInv, [Next]_vars
    PROVE  AlignedInv'
<1>1. TypeOK /\ WalkInv /\ TileInv
    BY DEF IInv
<1>2. /\ pos \in Nat /\ chunkSize \in Nat /\ issues \in Seq(AXMLKind)
      /\ chunks \in SUBSET Chunk
    BY <1>1, Consts DEF TypeOK, U32
<1>3. "axml_chunk_misaligned" \notin StringKind /\ StringKind \subseteq AXMLKind
    BY Kinds DEF StringKind
<1>4. ASSUME UNCHANGED chunks, WalkedTo' = WalkedTo, found' \in Seq(StringKind),
             Count(issues, "axml_chunk_misaligned")' = Count(issues, "axml_chunk_misaligned")
      PROVE  AlignedInv'
    BY <1>4 DEF AlignedInv, Shifting
<1>5. ASSUME NEW returned \in Seq(AXMLKind), ChunkDone(returned), InChunk,
             \A k \in DOMAIN returned : returned[k] # "axml_chunk_misaligned"
      PROVE  AlignedInv'
    <2>1. WalkedTo' = WalkedTo
        BY <1>5 DEF ChunkDone, WalkedTo, InChunk, ChunkType
    <2>2. Count(issues \o returned, "axml_chunk_misaligned")
            = Count(issues, "axml_chunk_misaligned")
        BY <1>2, <1>5, CountConcat
    <2>3. found' \in Seq(StringKind) /\ chunks' = chunks /\ issues' = issues \o returned
        BY <1>5 DEF ChunkDone
    <2>4. Count(issues, "axml_chunk_misaligned")' = Count(issues, "axml_chunk_misaligned")
        BY <2>2, <2>3 DEF Count
    <2> QED
        BY <1>4, <2>1, <2>3, <2>4
<1>6. CASE TooShort \/ WalkEnds \/ BrokenChunk \/ ReadPoolHeader \/ UNCHANGED vars
    <2>1. UNCHANGED <<pos, found, chunks, issues>>
        BY <1>6
           DEF TooShort, WalkEnds, BrokenChunk, ReadPoolHeader, vars, poolVars
    <2>2. WalkedTo' = WalkedTo
        BY <1>6 DEF TooShort, WalkEnds, BrokenChunk, ReadPoolHeader, vars, WalkedTo, InChunk,
                    ChunkType
    <2> QED
        BY <1>4, <2>1, <2>2 DEF AlignedInv, Count
<1>7. CASE ReadOuter
    <2> PICK magicOK \in BOOLEAN : issues' = Flag(~magicOK, "axml_bad_magic")
        BY <1>7 DEF ReadOuter
    <2>1. Count(issues', "axml_chunk_misaligned") = 0
        <3>1. issues' \in Seq(AXMLKind) /\ << >> \in Seq(AXMLKind)
            BY Kinds
        <3>2. \A k \in DOMAIN issues' : issues'[k] # "axml_chunk_misaligned"
            BY DEF Flag
        <3>3. Count(<< >> \o issues', "axml_chunk_misaligned") = 0
            BY <3>1, <3>2, CountConcat, CountEmpty
        <3> QED
            BY <3>1, <3>3, ConcatEmptySeq
    <2>2. WalkedTo' = ChunkHeaderLen /\ chunks' = {} /\ found' = found
        BY <1>1, <1>7 DEF ReadOuter, poolVars, WalkInv, WalkedTo, InChunk, ChunkType
    <2>3. Shifting' = {}
        BY <2>2 DEF Shifting
    <2> QED
        BY <2>1, <2>2, <2>3, Consts, FS_EmptySet DEF AlignedInv, Count
<1>8. CASE ReadChunk
    <2> PICK size \in U32, type \in ChunkType :
            /\ Whole(size) /\ chunkSize' = size /\ at' = type
            /\ issues' = issues \o Flag(Misaligned(size), "axml_chunk_misaligned")
            /\ chunks' = chunks \cup {[at |-> pos, size |-> size, type |-> type]}
        BY <1>8 DEF ReadChunk
    <2> DEFINE new == [at |-> pos, size |-> size, type |-> type]
    <2>1. new.at = pos /\ new.size = size /\ size \in Nat /\ found' = found /\ pos' = pos
        BY <1>8, Consts DEF ReadChunk, poolVars, U32
    <2>2. WalkedTo = pos /\ WalkedTo' = pos + size
        <3>1. InChunk' /\ ~InChunk
            BY <1>8 DEF ReadChunk, InChunk, ChunkType
        <3> QED
            BY <2>1, <3>1 DEF WalkedTo
    <2>3. chunks' = chunks \cup {new}
        OBVIOUS
    <2> HIDE DEF new
    <2>4. new \notin chunks
        <3>1. \A c \in chunks : c.at \in Nat /\ c.size \in Nat
            BY <1>2, Consts DEF Chunk, U32
        <3> QED
            BY <1>1, <1>2, <2>1, <2>2, <3>1, Consts DEF TileInv
    <2>5. Shifting' = IF size % Alignment # 0 THEN Shifting \cup {new} ELSE Shifting
        BY <2>1, <2>3 DEF Shifting
    <2>6. issues' = IF size % Alignment # 0 THEN Append(issues, "axml_chunk_misaligned")
                    ELSE issues
        BY <1>2, Kinds, FlagIsAppend DEF Misaligned
    <2>7. IsFiniteSet(chunks') /\ IsFiniteSet(Shifting)
        BY <2>3, FS_AddElement, FS_Subset DEF AlignedInv, Shifting
    <2>8. Cardinality(Shifting \cup {new}) = Cardinality(Shifting) + 1
        BY <2>4, <2>7, FS_AddElement DEF Shifting
    <2>9. Count(Append(issues, "axml_chunk_misaligned"), "axml_chunk_misaligned")
            = Count(issues, "axml_chunk_misaligned") + 1
        BY <1>2, Kinds, CountAppend
    <2>10. Count(issues', "axml_chunk_misaligned") = Cardinality(Shifting')
        <3>1. CASE size % Alignment # 0
            BY <2>5, <2>6, <2>8, <2>9, <3>1 DEF AlignedInv
        <3>2. CASE size % Alignment = 0
            BY <2>5, <2>6, <3>2 DEF AlignedInv
        <3> QED
            BY <3>1, <3>2
    <2>11. ASSUME Shifting' = {}
           PROVE  WalkedTo' % Alignment = 0 /\ \A c \in chunks' : c.at % Alignment = 0
        <3>1. size % Alignment = 0 /\ Shifting = {}
            BY <2>5, <2>11
        <3>2. pos % Alignment = 0 /\ \A c \in chunks : c.at % Alignment = 0
            BY <2>2, <3>1 DEF AlignedInv
        <3>3. (pos + size) % Alignment = 0
            BY <1>2, <2>1, <3>1, <3>2, AlignedSum, Consts
        <3> QED
            BY <2>1, <2>2, <2>3, <3>2, <3>3
    <2> QED
        BY <2>1, <2>7, <2>10, <2>11 DEF AlignedInv, Count
<1>9. CASE NothingToCheck \/ NoStringData
    <2>1. << >> \in Seq(AXMLKind) /\ DOMAIN << >> = {}
        OBVIOUS
    <2>2. ChunkDone(<< >>) /\ InChunk
        BY <1>9 DEF NothingToCheck, NoStringData, InChunk, ChunkType
    <2> QED
        BY <1>5, <2>1, <2>2
<1>10. CASE CountMismatch
    <2> DEFINE r == <<"axml_string_count_mismatch">>
    <2>1. r \in Seq(AXMLKind) /\ \A k \in DOMAIN r : r[k] # "axml_chunk_misaligned"
        BY Kinds
    <2>2. ChunkDone(r) /\ InChunk
        BY <1>10 DEF CountMismatch, InChunk
    <2> QED
        BY <1>5, <2>1, <2>2
<1>11. CASE CheckOffset
    <2>1. UNCHANGED <<pos, chunkSize, at, chunks, issues>>
        BY <1>11 DEF CheckOffset
    <2>2. found' \in Seq(StringKind)
        <3> PICK offset \in U32 :
                IF offset >= StringDataSize
                THEN found' = Append(found, "axml_offset_out_of_bounds")
                ELSE found' = found \o Flag(offset \in seen, "axml_string_duplicate_offset")
            BY <1>11 DEF CheckOffset
        <3>1. \A c : Flag(c, "axml_string_duplicate_offset") \in Seq(StringKind)
            <4>1. "axml_string_duplicate_offset" \in StringKind
                BY DEF StringKind
            <4> QED
                BY <4>1 DEF Flag
        <3>2. "axml_offset_out_of_bounds" \in StringKind /\ found \in Seq(StringKind)
            BY DEF StringKind, AlignedInv
        <3>3. CASE offset >= StringDataSize
            <4>1. found' = Append(found, "axml_offset_out_of_bounds")
                BY <3>3
            <4> QED
                BY <3>2, <4>1, AppendProperties
        <3>4. CASE ~(offset >= StringDataSize)
            <4>1. found' = found \o Flag(offset \in seen, "axml_string_duplicate_offset")
                BY <3>4
            <4> QED
                BY <3>1, <3>2, <4>1, ConcatProperties
        <3> QED
            BY <3>3, <3>4
    <2>3. WalkedTo' = WalkedTo
        BY <2>1 DEF WalkedTo, InChunk
    <2> QED
        BY <1>4, <2>1, <2>2, <2>3 DEF Count
<1>12. CASE PoolChecked
    <2>1. found \in Seq(AXMLKind)
        BY <1>1 DEF TypeOK
    <2>2. \A k \in DOMAIN found : found[k] # "axml_chunk_misaligned"
        BY <1>3, ElementOfSeq, LenProperties DEF AlignedInv
    <2> QED
        BY <1>5, <1>12, <2>1, <2>2 DEF PoolChecked, InChunk
<1>13. CASE CheckElement
    <2> PICK startOK, sizeOK \in BOOLEAN :
            ChunkDone(Flag(~startOK, "axml_attribute_start_invalid")
                      \o Flag(~sizeOK, "axml_attribute_size_invalid"))
        BY <1>13 DEF CheckElement
    <2> DEFINE r == Flag(~startOK, "axml_attribute_start_invalid")
                    \o Flag(~sizeOK, "axml_attribute_size_invalid")
    <2>1. r \in Seq(AXMLKind)
        BY Kinds, ConcatProperties
    <2>2. \A k \in DOMAIN r : r[k] # "axml_chunk_misaligned"
        BY DEF Flag
    <2>3. InChunk /\ ChunkDone(r)
        BY <1>13 DEF CheckElement, InChunk, ChunkType
    <2> HIDE DEF r
    <2> QED
        BY <1>5, <2>1, <2>2, <2>3
<1> QED
    BY <1>6, <1>7, <1>8, <1>9, <1>10, <1>11, <1>12, <1>13 DEF Next, Returned

\* For every alignment: one issue for each chunk whose size shifts those behind it,
\* and without one every chunk that is checked is aligned.
THEOREM MisalignmentToldHolds == Spec => []MisalignmentTold
<1>1. ASSUME IInv, AlignedInv PROVE MisalignmentTold
    <2>1. Count(issues, "axml_chunk_misaligned") = Cardinality(Shifting)
        BY <1>1 DEF AlignedInv
    <2>2. ASSUME ~Reports(issues, {"axml_chunk_misaligned"})
          PROVE  \A c \in chunks : c.at % Alignment = 0
        <3>1. {k \in DOMAIN issues : issues[k] = "axml_chunk_misaligned"} = {}
            BY <2>2 DEF Reports
        <3>2. Cardinality(Shifting) = 0
            BY <2>1, <3>1, FS_EmptySet DEF Count
        <3>3. IsFiniteSet(Shifting)
            BY <1>1, FS_Subset DEF AlignedInv, Shifting
        <3>4. Shifting = {}
            BY <3>2, <3>3, FS_EmptySet
        <3> QED
            BY <1>1, <3>4 DEF AlignedInv
    <2> QED
        BY <2>1, <2>2 DEF MisalignmentTold, Shifting
<1> QED
    BY <1>1, InitAligned, StepAligned, IInvHolds, PTL DEF Spec
============================================================================
