------------------------ MODULE SigningBlockReader ------------------------
(***************************************************************************)
(* FindSigningBlock and parseSigningBlockPairs of zip/sigblock.go: the     *)
(* call OpenReader makes with the offset of the Central Directory, whose   *)
(* outcome ZipRecords keeps in sigAt.  Each read of the file is a step,    *)
(* and what it yields is chosen when it is made.  Offsets are int64 and    *)
(* sizes uint64, so that sums wrap at 2^63, here Half.                     *)
(***************************************************************************)
EXTENDS ZipRecords

CONSTANTS
    SigBlockMagicLen, SigBlockSizeLen, BlockIDLen,  \* 16, 8 and 4 bytes
    FileSizes                                       \* the sizes of file considered

SigBlockFooterLen == SigBlockMagicLen + SigBlockSizeLen

ASSUME LengthAssumption ==
    /\ SigBlockMagicLen \in Nat \ {0}
    /\ SigBlockSizeLen \in Nat \ {0}
    /\ BlockIDLen \in 1..SigBlockMagicLen
    /\ SigBlockMinSize = SigBlockFooterLen + SigBlockSizeLen

\* A file and a slice that can be allocated are together shorter than 2^63 bytes.
ASSUME SizeAssumption ==
    /\ FileSizes \subseteq Nat
    /\ \A n \in FileSizes : n + MaxByteLen + SigBlockMinSize < Half

VARIABLES
    size, cdOffset,             \* of the file; the offset OpenReader looks in front of
    at,                         \* the next read: "magic", "trailing", "leading",
                                \* "pairs", or "done"
    trailingSize, leadingSize,
    pos,                        \* of the next pair
    pairs,                      \* where each pair begins, its size, its ID known or not
    status, issues              \* what the call returns; "running" until it does

vars == <<size, cdOffset, at, trailingSize, leadingSize, pos, pairs, status, issues>>

\* The sum of two int64 values: it wraps.
Wrap(n) == IF n >= Half THEN n - 2 * Half ELSE IF n < -Half THEN n + 2 * Half ELSE n

Pair == [at : Nat, size : U64, known : BOOLEAN]

TypeOK ==
    /\ size \in FileSizes
    /\ cdOffset \in (-Half)..(Half - 1)
    /\ at \in {"magic", "trailing", "leading", "pairs", "done"}
    /\ trailingSize \in U64
    /\ leadingSize \in U64
    /\ pos \in Nat
    /\ pairs \in Seq(Pair)
    /\ status \in {"running", "absent", "found", "error", "panic"}
    /\ issues \in Seq(ArchiveKind)

\* OpenReader converts a 32-bit or a 64-bit field to the offset.
Init ==
    /\ size \in FileSizes
    /\ cdOffset \in {Int64(u) : u \in U64}
    /\ at = "magic"
    /\ trailingSize = 0
    /\ leadingSize = 0
    /\ pos = 0
    /\ pairs = << >>
    /\ status = "running"
    /\ issues = << >>

----------------------------------------------------------------------------
\* The call returns; OpenReader drops the issues that come with an error.
Return(outcome) ==
    /\ at' = "done"
    /\ status' = outcome
    /\ issues' = IF outcome = "found" THEN issues ELSE << >>
    /\ UNCHANGED <<size, cdOffset, trailingSize, leadingSize, pos, pairs>>

BlockStart == Wrap(cdOffset - Int64(trailingSize) - SigBlockSizeLen)
PairsStart == BlockStart + SigBlockSizeLen
PairsEnd == cdOffset - SigBlockFooterLen

(* The footer.                                                             *)

\* The Central Directory is too near the start, or what precedes it ends in
\* something other than the magic.
NoBlock ==
    /\ at = "magic"
    /\ cdOffset < SigBlockMinSize \/ cdOffset <= size
    /\ Return("absent")

\* With the offset past the end, the magic cannot be read.
MagicUnreadable ==
    /\ at = "magic"
    /\ cdOffset >= SigBlockMinSize
    /\ cdOffset > size
    /\ Return("error")

\* Mutant: an offset near the start of the file is not ruled out.
MagicFound_NoMinimum ==
    /\ at = "magic"
    /\ cdOffset <= size
    /\ at' = "trailing"
    /\ UNCHANGED <<size, cdOffset, trailingSize, leadingSize, pos, pairs, status, issues>>

\* Mutant: the end of the file is not reached.
MagicFound_PastEnd ==
    /\ at = "magic"
    /\ cdOffset >= SigBlockMinSize
    /\ at' = "trailing"
    /\ UNCHANGED <<size, cdOffset, trailingSize, leadingSize, pos, pairs, status, issues>>

MagicFound ==
    /\ at = "magic"
    /\ cdOffset >= SigBlockMinSize
    /\ cdOffset <= size
    /\ at' = "trailing"
    /\ UNCHANGED <<size, cdOffset, trailingSize, leadingSize, pos, pairs, status, issues>>

ReadTrailingSize ==
    /\ at = "trailing"
    /\ trailingSize' \in U64
    /\ at' = "leading"
    /\ UNCHANGED <<size, cdOffset, leadingSize, pos, pairs, status, issues>>

(* The leading size.                                                       *)

\* The start comes out negative.
StartBeforeFile == at = "leading" /\ BlockStart < 0 /\ Return("error")

\* The start may lie behind the Central Directory, and past the end.
LeadingUnreadable ==
    /\ at = "leading"
    /\ BlockStart >= 0
    /\ BlockStart + SigBlockSizeLen > size
    /\ Return("error")

\* What the leading size reads as.  At the place of the trailing size it is that
\* one; where it overlaps the footer otherwise, it contains bytes of the magic or
\* is shifted against the trailing size, and cannot equal it.
Leading ==
    LET footer == cdOffset - SigBlockFooterLen
    IN  IF BlockStart = footer THEN {trailingSize}
        ELSE IF BlockStart \in (footer - SigBlockSizeLen + 1)..(cdOffset - 1)
             THEN U64 \ {trailingSize}
        ELSE U64

\* Mutant: a size that differs is not reported.
ReadLeadingSize_Trusted ==
    /\ at = "leading"
    /\ BlockStart >= 0
    /\ BlockStart + SigBlockSizeLen <= size
    /\ leadingSize' \in Leading
    /\ pos' = PairsStart
    /\ at' = "pairs"
    /\ UNCHANGED <<size, cdOffset, trailingSize, pairs, status, issues>>

\* Mutant: a negative start is not ruled out.
ReadLeadingSize_AnyStart ==
    /\ at = "leading"
    /\ BlockStart + SigBlockSizeLen <= size
    /\ leadingSize' \in Leading
    /\ issues' = Flag(leadingSize' # trailingSize, "signing_block_size_mismatch")
    /\ pos' = PairsStart
    /\ at' = "pairs"
    /\ UNCHANGED <<size, cdOffset, trailingSize, pairs, status>>

ReadLeadingSize ==
    /\ at = "leading"
    /\ BlockStart >= 0
    /\ BlockStart + SigBlockSizeLen <= size
    /\ leadingSize' \in Leading
    /\ issues' = Flag(leadingSize' # trailingSize, "signing_block_size_mismatch")
    /\ pos' = PairsStart
    /\ at' = "pairs"
    /\ UNCHANGED <<size, cdOffset, trailingSize, pairs, status>>

----------------------------------------------------------------------------
(* The ID-value pairs.                                                     *)

ValuePos == pos + SigBlockSizeLen
TooSmall(n) == n < BlockIDLen

\* Mutant: the pair is allowed to reach into the footer.
PastBoundary_Footer(n) == Wrap(ValuePos + Int64(n)) > cdOffset

PastBoundary(n) == Wrap(ValuePos + Int64(n)) > PairsEnd
ValueLen(n) == Wrap(Int64(n) - BlockIDLen)
Allocatable(n) == ValueLen(n) \in 0..MaxByteLen

BadPair ==
    /\ at = "pairs"
    /\ pos < PairsEnd
    /\ \E n \in U64 : TooSmall(n) \/ PastBoundary(n)
    /\ Return("error")

\* The sum has wrapped, and make([]byte, valueLen) cannot succeed.
PairPanic ==
    /\ at = "pairs"
    /\ pos < PairsEnd
    /\ \E n \in U64 : ~TooSmall(n) /\ ~PastBoundary(n) /\ ~Allocatable(n)
    /\ Return("panic")

ReadPair ==
    /\ at = "pairs"
    /\ pos < PairsEnd
    /\ \E n \in U64, known \in BOOLEAN :
          /\ ~TooSmall(n) /\ ~PastBoundary(n) /\ Allocatable(n)
          /\ pairs' = Append(pairs, [at |-> pos, size |-> n, known |-> known])
          /\ pos' = ValuePos + BlockIDLen + ValueLen(n)
          /\ issues' = issues \o Flag(~known, "signing_block_unknown_id")
    /\ UNCHANGED <<size, cdOffset, at, trailingSize, leadingSize, status>>

\* Mutant: the loop ends only right at the footer.
PairsRead_Exact == at = "pairs" /\ pos = PairsEnd /\ Return("found")

PairsRead == at = "pairs" /\ pos >= PairsEnd /\ Return("found")

Returned == at = "done" /\ UNCHANGED vars

Next ==
    \/ NoBlock \/ MagicUnreadable \/ MagicFound \/ ReadTrailingSize
    \/ StartBeforeFile \/ LeadingUnreadable \/ ReadLeadingSize
    \/ BadPair \/ PairPanic \/ ReadPair \/ PairsRead
    \/ Returned

Spec == Init /\ [][Next]_vars

\* The loop is sequential and its reads return.
FairSpec == Spec /\ WF_vars(Next)

----------------------------------------------------------------------------
(* Properties.                                                             *)

PairEnd(p) == p.at + SigBlockSizeLen + p.size

\* The pairs read so far tile the block from its start to the next pair without
\* a gap or an overlap, and when the call finds a block that starts in front of
\* its footer they fill it exactly: no byte of it escapes parsing.
PairsTile ==
    /\ \A i \in 1..Len(pairs) :
          /\ pairs[i].at = IF i = 1 THEN PairsStart ELSE PairEnd(pairs[i - 1])
          /\ pairs[i].size >= BlockIDLen
          /\ PairEnd(pairs[i]) <= PairsEnd
    /\ pairs # << >> => pos = PairEnd(pairs[Len(pairs)])
    /\ status = "found" /\ PairsStart <= PairsEnd => pos = PairsEnd

\* The reads whose errors the model leaves out lie in the part of the file that
\* the magic was read behind: the size field of a pair, even one that begins
\* right before the footer, and its ID.
PairReadsInside ==
    at = "pairs" /\ pos < PairsEnd => pos >= 0 /\ ValuePos + BlockIDLen <= size

\* A block that is found has an issue for its two sizes exactly when they differ,
\* and one for each pair of unknown ID: a clean block is one whose every pair is
\* known.
IssuesTold ==
    status = "found" =>
        LET unknown == {i \in 1..Len(pairs) : ~pairs[i].known}
            told(kind) == {k \in 1..Len(issues) : issues[k] = kind}
        IN  /\ told("signing_block_size_mismatch") = {} <=> leadingSize = trailingSize
            /\ Cardinality(told("signing_block_unknown_id")) = Cardinality(unknown)

\* OpenReader relies on the call through SigningBlockOf alone: any outcome of the
\* call is the one SigningBlockOf gives for a file whose sigAt holds it.
KeepsContract ==
    LET outcome == [status |-> status, issues |-> issues]
    IN  status # "running" =>
            /\ outcome \in SigningBlock
            /\ SigningBlockOf([size |-> size, sigAt |-> [o \in {cdOffset} |-> outcome]],
                              cdOffset) = outcome

\* Stated by the repository, and refuted: a block found with nothing wrong stands
\* immediately before the Central Directory, from cdOffset - trailingSize - 8 on
\* (sigblock.go:51 and 102).
BlockEndsAtDirectory ==
    status = "found" /\ issues = << >>
        => BlockStart = cdOffset - trailingSize - SigBlockSizeLen

\* The call returns.
Returns == <>(at = "done")
============================================================================
