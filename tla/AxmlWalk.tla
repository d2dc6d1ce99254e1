----------------------------- MODULE AxmlWalk -----------------------------
(***************************************************************************)
(* ParseAXML of zip/axml.go: the walk over the chunks of a binary manifest *)
(* and the checks of a string pool and of a start element.  A value is     *)
(* chosen when the code reads it: no byte of the data is read twice.  One  *)
(* offset of the table is a step of its own.                               *)
(***************************************************************************)
EXTENDS ZipRecords

CONSTANTS
    Alignment,          \* 4
    PoolHeaderLen,      \* 28
    OffsetLen,          \* 4, the size of one offset of the table
    ElementLen,         \* 36
    DataLens            \* the lengths of the data

\* The data must hold one chunk header, and every chunk has one.
ChunkHeaderLen == AxmlMinLen

ASSUME ChunkAssumption ==
    /\ Alignment \in Nat \ {0}
    /\ OffsetLen \in Nat \ {0}
    /\ PoolHeaderLen \in Nat
    /\ ElementLen \in Nat
    /\ ChunkHeaderLen <= PoolHeaderLen
    /\ ChunkHeaderLen <= ElementLen
    /\ ChunkHeaderLen % Alignment = 0
    /\ DataLens \subseteq Nat

ChunkType == {"pool", "element", "other"}
Chunk == [at : Nat, size : U32, type : ChunkType]

VARIABLES
    len,                        \* len(data)
    at,                         \* the function the call is in, or the type of the chunk
    outerSize, pos, chunkSize,
    stringCount, stringsStart,  \* parseAXMLStringPool
    strings,                    \* the offsets of the table read so far
    seen,
    found,                      \* the issues parseAXMLStringPool is to return
    issues,
    chunks                      \* the chunks that were entered

poolVars == <<stringCount, stringsStart, strings, seen, found>>
vars == <<len, at, outerSize, pos, chunkSize, poolVars, issues, chunks>>

TypeOK ==
    /\ len \in DataLens
    /\ at \in {"begin", "walk", "table", "done"} \cup ChunkType
    /\ outerSize \in 0..len
    /\ pos \in 0..len
    /\ chunkSize \in U32
    /\ stringCount \in U32
    /\ stringsStart \in U32
    /\ strings \in Seq(U32)
    /\ seen \in SUBSET U32
    /\ found \in Seq(AXMLKind)
    /\ issues \in Seq(AXMLKind)
    /\ chunks \in SUBSET Chunk

Init ==
    /\ len \in DataLens
    /\ at = "begin"
    /\ outerSize = 0
    /\ pos = 0
    /\ chunkSize = 0
    /\ stringCount = 0
    /\ stringsStart = 0
    /\ strings = << >>
    /\ seen = {}
    /\ found = << >>
    /\ issues = << >>
    /\ chunks = {}

----------------------------------------------------------------------------
(* The outer header and the walk.                                          *)

TooShort ==
    /\ at = "begin"
    /\ len < AxmlMinLen
    /\ at' = "done"
    /\ UNCHANGED <<len, outerSize, pos, chunkSize, poolVars, issues, chunks>>

\* Mutant: the declared size is believed.
ReadOuter_Unclamped ==
    /\ at = "begin"
    /\ len >= AxmlMinLen
    /\ \E magicOK \in BOOLEAN : issues' = Flag(~magicOK, "axml_bad_magic")
    /\ \E declared \in U32 : outerSize' = declared
    /\ pos' = ChunkHeaderLen
    /\ at' = "walk"
    /\ UNCHANGED <<len, chunkSize, poolVars, chunks>>

\* A bad magic is an issue and the walk goes on; the declared size is cut off.
ReadOuter ==
    /\ at = "begin"
    /\ len >= AxmlMinLen
    /\ \E magicOK \in BOOLEAN : issues' = Flag(~magicOK, "axml_bad_magic")
    /\ \E declared \in U32 : outerSize' = IF declared > len THEN len ELSE declared
    /\ pos' = ChunkHeaderLen
    /\ at' = "walk"
    /\ UNCHANGED <<len, chunkSize, poolVars, chunks>>

HeaderLeft == pos + ChunkHeaderLen <= outerSize

WalkEnds ==
    /\ at = "walk"
    /\ ~HeaderLeft
    /\ at' = "done"
    /\ UNCHANGED <<len, outerSize, pos, chunkSize, poolVars, issues, chunks>>

\* Mutant: a chunk may have no size at all.
Whole_AnySize(size) == pos + size <= outerSize

\* Mutant: the chunk need only begin in the data.
Whole_Overrun(size) == size >= ChunkHeaderLen /\ pos <= outerSize

Whole(size) == size >= ChunkHeaderLen /\ pos + size <= outerSize

\* A chunk too small or cut off ends the walk, and nothing is said of it.
BrokenChunk ==
    /\ at = "walk"
    /\ HeaderLeft
    /\ \E size \in U32 :
          /\ ~Whole(size)
          /\ chunkSize' = size
    /\ at' = "done"
    /\ UNCHANGED <<len, outerSize, pos, poolVars, issues, chunks>>

\* Mutant: the place of the chunk is tested, not its size.
Misaligned_ByPlace(size) == pos % Alignment # 0

Misaligned(size) == size % Alignment # 0

ReadChunk ==
    /\ at = "walk"
    /\ HeaderLeft
    /\ \E size \in U32, type \in ChunkType :
          /\ Whole(size)
          /\ chunkSize' = size
          /\ issues' = issues \o Flag(Misaligned(size), "axml_chunk_misaligned")
          /\ chunks' = chunks \cup {[at |-> pos, size |-> size, type |-> type]}
          /\ at' = type
    /\ UNCHANGED <<len, outerSize, pos, poolVars>>

\* The chunk's check returns these issues, and the walk goes on behind the chunk.
ChunkDone(returned) ==
    /\ issues' = issues \o returned
    /\ pos' = pos + chunkSize
    /\ at' = "walk"
    /\ stringCount' = 0
    /\ stringsStart' = 0
    /\ strings' = << >>
    /\ seen' = {}
    /\ found' = << >>
    /\ UNCHANGED <<len, outerSize, chunkSize, chunks>>

\* A chunk of another type, or one too short for the fields to be checked.
NothingToCheck ==
    /\ \/ at = "other"
       \/ at = "pool" /\ chunkSize < PoolHeaderLen
       \/ at = "element" /\ chunkSize < ElementLen
    /\ ChunkDone(<< >>)

----------------------------------------------------------------------------
(* parseAXMLStringPool and parseAXMLStartElement.                          *)

ReadPoolHeader ==
    /\ at = "pool"
    /\ chunkSize >= PoolHeaderLen
    /\ stringCount' \in U32
    /\ stringsStart' \in U32
    /\ at' = "table"
    /\ UNCHANGED <<len, outerSize, pos, chunkSize, strings, seen, found, issues, chunks>>

OffsetAt(i) == PoolHeaderLen + i * OffsetLen
OffsetTableEnd == OffsetAt(stringCount)

\* Mutant: without string data the table is not measured against the chunk.
CountImpossible_StartOnly == stringsStart > 0 /\ OffsetTableEnd > stringsStart

CountImpossible ==
    \/ stringsStart > 0 /\ OffsetTableEnd > stringsStart
    \/ OffsetTableEnd > chunkSize

CountMismatch ==
    /\ at = "table"
    /\ CountImpossible
    /\ ChunkDone(<<"axml_string_count_mismatch">>)

\* The string data would begin at the end of the chunk or behind it.
NoStringData ==
    /\ at = "table"
    /\ ~CountImpossible
    /\ stringsStart >= chunkSize
    /\ ChunkDone(<< >>)

StringDataSize == chunkSize - stringsStart

\* The loop over the table is entered, and there is an offset left.
OffsetLeft ==
    /\ at = "table"
    /\ ~CountImpossible
    /\ stringsStart < chunkSize
    /\ Len(strings) < stringCount

\* Mutant: an offset out of bounds is recorded like any other.
CheckOffset_NoContinue ==
    /\ OffsetLeft
    /\ \E offset \in U32 :
          /\ strings' = Append(strings, offset)
          /\ seen' = seen \cup {offset}
          /\ found' = found
               \o Flag(offset >= StringDataSize, "axml_offset_out_of_bounds")
               \o Flag(offset \in seen, "axml_string_duplicate_offset")
    /\ UNCHANGED <<len, at, outerSize, pos, chunkSize, stringCount, stringsStart,
                   issues, chunks>>

CheckOffset ==
    /\ OffsetLeft
    /\ \E offset \in U32 :
          /\ strings' = Append(strings, offset)
          /\ IF offset >= StringDataSize
             THEN /\ found' = Append(found, "axml_offset_out_of_bounds")
                  /\ UNCHANGED seen
             ELSE /\ found' = found \o Flag(offset \in seen, "axml_string_duplicate_offset")
                  /\ seen' = seen \cup {offset}
    /\ UNCHANGED <<len, at, outerSize, pos, chunkSize, stringCount, stringsStart,
                   issues, chunks>>

PoolChecked ==
    /\ at = "table"
    /\ ~CountImpossible
    /\ stringsStart < chunkSize
    /\ Len(strings) >= stringCount
    /\ ChunkDone(found)

CheckElement ==
    /\ at = "element"
    /\ chunkSize >= ElementLen
    /\ \E startOK, sizeOK \in BOOLEAN :
          ChunkDone(Flag(~startOK, "axml_attribute_start_invalid")
                    \o Flag(~sizeOK, "axml_attribute_size_invalid"))

Returned == at = "done" /\ UNCHANGED vars

Next ==
    \/ TooShort \/ ReadOuter \/ WalkEnds \/ BrokenChunk \/ ReadChunk \/ NothingToCheck
    \/ ReadPoolHeader \/ CountMismatch \/ NoStringData \/ CheckOffset \/ PoolChecked
    \/ CheckElement \/ Returned

Spec == Init /\ [][Next]_vars

\* A pure function without a call that could block.
FairSpec == Spec /\ WF_vars(Next)

----------------------------------------------------------------------------
(* Properties.                                                             *)

InChunk == at \in ChunkType \cup {"table"}

\* Behind the last chunk that was entered.
WalkedTo == IF InChunk THEN pos + chunkSize ELSE pos

Covers(c, p) == c.at <= p /\ p < c.at + c.size

\* The chunks that are checked tile the data from behind the outer header: no byte
\* is in two of them, none is skipped, no slice reaches past the data; and the walk
\* stops only where no whole chunk can be read (axml.go:67, 71, 84).
ChunksTile ==
    /\ \A c \in chunks : ChunkHeaderLen <= c.at /\ c.at + c.size <= outerSize
    /\ \A c, d \in chunks : c = d \/ c.at + c.size <= d.at \/ d.at + d.size <= c.at
    /\ at # "begin" => \A p \in ChunkHeaderLen..(WalkedTo - 1) : \E c \in chunks : Covers(c, p)
    /\ at = "done" /\ HeaderLeft => ~Whole(chunkSize)

\* ru16 and ru32 answer 0 for bytes they do not have; no check ever relies on that:
\* each field and each offset is read from inside the chunk, and with string data
\* declared the table ends in front of it (axml.go:136, 155, 232).
ReadsInChunk ==
    /\ at = "walk" /\ HeaderLeft => pos + ChunkHeaderLen <= len
    /\ at = "table" => PoolHeaderLen <= chunkSize
    /\ OffsetLeft =>
        /\ OffsetAt(Len(strings) + 1) <= chunkSize
        /\ stringsStart > 0 => OffsetAt(Len(strings) + 1) <= stringsStart

Count(seq, kind) == Cardinality({k \in DOMAIN seq : seq[k] = kind})

OutOfBounds == {k \in DOMAIN strings : strings[k] >= StringDataSize}
Repeated == {k \in DOMAIN strings \ OutOfBounds : \E j \in 1..(k - 1) : strings[j] = strings[k]}

\* One issue for each offset outside the string data and one for each offset inside
\* it that an earlier string has, no more and no fewer (axml.go:156, 163).
StringsJudged ==
    at = "table" =>
        /\ Count(found, "axml_offset_out_of_bounds") = Cardinality(OutOfBounds)
        /\ Count(found, "axml_string_duplicate_offset") = Cardinality(Repeated)
        /\ Len(found) = Cardinality(OutOfBounds) + Cardinality(Repeated)

\* One issue for each chunk of a size that shifts the chunks behind it; without one
\* every chunk that was checked begins where Android would look for it (axml.go:77).
MisalignmentTold ==
    /\ Count(issues, "axml_chunk_misaligned")
         = Cardinality({c \in chunks : c.size % Alignment # 0})
    /\ ~Reports(issues, {"axml_chunk_misaligned"}) =>
         \A c \in chunks : c.at % Alignment = 0

\* ParseAXML returns, whatever sizes the data declares.
Returns == <>(at = "done")

\* What the comment at axml.go:146 says: a pool that is left without an issue had
\* each of its offsets found inside the string data, and no two equal.
OffsetsValidated ==
    [][at = "table" /\ at' = "walk" /\ issues' = issues =>
         /\ Len(strings) = stringCount
         /\ OutOfBounds \cup Repeated = {}]_vars
============================================================================
