---------------------------- MODULE EndRecords ----------------------------
(***************************************************************************)
(* findEOCD and findZIP64EOCD of zip/reader.go: the scan backward from the *)
(* end of the file, and the reads at the ZIP64 locator's place in front of *)
(* the record it finds.  OpenReader takes the result for given (file.eocd, *)
(* file.zip64); this module is shown to implement that part of it.         *)
(***************************************************************************)
EXTENDS ZipRecords

CONSTANTS
    EOCDFixedSize,      \* 22, of which the first EOCDSigLen hold the signature
    EOCDSigLen,         \* 4
    LocatorSize,        \* zip64EOCDLocatorSize, 20
    Tails               \* the files that are searched

EOCDMaxCommentLen == Sentinel16

\* Mutant: the longest comment is one byte short.
EOCDSearchSize_Short == EOCDFixedSize + EOCDMaxCommentLen - 1

EOCDSearchSize == EOCDFixedSize + EOCDMaxCommentLen

\* A record that stands somewhere: its comment length and what OpenReader reads.
EOCDRecord == [commentLen : U16, cdOffset : U32, entries : U16]
ZIP64Record == [cdOffset : U64, entries : U64]

\* What each offset of a file reads as.  Two signatures of one kind cannot overlap;
\* beyond that, records may stand anywhere and share bytes.
TailOfSize(n) ==
    [size : {n},
     eocdAt : [0..n -> Ptr(EOCDRecord)],
     locatorAt : [0..n -> Ptr(U64)],
     zip64At : [0..n -> Ptr(ZIP64Record)]]
IsTail(f) ==
    /\ f.size \in Nat
    /\ f \in TailOfSize(f.size)
    /\ \A o1, o2 \in 0..f.size :
          f.eocdAt[o1] # << >> /\ f.eocdAt[o2] # << >> /\ o1 < o2 => o2 - o1 >= EOCDSigLen

ASSUME LayoutAssumption ==
    /\ EOCDFixedSize \in Nat
    /\ EOCDSigLen \in 1..EOCDFixedSize
    /\ LocatorSize \in Nat \ {0}

ASSUME TailsAssumption == \A f \in Tails : IsTail(f)

VARIABLES
    tail,               \* the file
    at,                 \* where the calls are
    i,                  \* findEOCD's index into the bytes it has read
    eocd,               \* the record found, << >> before
    eocdOffset,
    z64,                \* the ZIP64 record, << >> for nil
    archiveIssues,
    status              \* "running", then "found" or "error"

vars == <<tail, at, i, eocd, eocdOffset, z64, archiveIssues, status>>

TypeOK ==
    /\ IsTail(tail)
    /\ at \in {"open", "scan", "locator", "zip64", "done"}
    /\ i \in (-EOCDFixedSize)..tail.size
    /\ eocd \in Ptr(EOCDRecord)
    /\ eocdOffset \in 0..tail.size
    /\ z64 \in Ptr(ZIP64Record)
    /\ archiveIssues \in Seq(ArchiveKind)
    /\ status \in {"running", "found", "error"}

Init ==
    /\ tail \in Tails
    /\ at = "open"
    /\ i = 0
    /\ eocd = << >>
    /\ eocdOffset = 0
    /\ z64 = << >>
    /\ archiveIssues = << >>
    /\ status = "running"

----------------------------------------------------------------------------
(* findEOCD.  buf holds the last BufLen bytes; index k of it is the offset *)
(* BufStart + k of the file.                                               *)

BufLen == IF EOCDSearchSize > tail.size THEN tail.size ELSE EOCDSearchSize
BufStart == tail.size - BufLen

\* Mutant: the scan begins where a signature still fits.
ReadTail_SigOnly ==
    /\ at = "open"
    /\ i' = BufLen - EOCDSigLen
    /\ at' = "scan"
    /\ UNCHANGED <<tail, eocd, eocdOffset, z64, archiveIssues, status>>

\* Mutant: a file shorter than the search area is not thought of.
ReadTail_Unclamped ==
    /\ at = "open"
    /\ i' = EOCDSearchSize - EOCDFixedSize
    /\ at' = "scan"
    /\ UNCHANGED <<tail, eocd, eocdOffset, z64, archiveIssues, status>>

\* The last bytes of the file are read; a whole record must fit behind i.
ReadTail ==
    /\ at = "open"
    /\ i' = BufLen - EOCDFixedSize
    /\ at' = "scan"
    /\ UNCHANGED <<tail, eocd, eocdOffset, z64, archiveIssues, status>>

Candidate == tail.eocdAt[BufStart + i]
CommentEnd == i + EOCDFixedSize + Candidate[1].commentLen

\* Mutant: a comment that reaches the end of the file is taken to run past it.
Acceptable_Strict == Candidate # << >> /\ CommentEnd < BufLen

Acceptable == Candidate # << >> /\ CommentEnd <= BufLen

\* No signature, or a comment that runs past the end: try one byte earlier.
SkipPosition ==
    /\ at = "scan"
    /\ i >= 0
    /\ ~Acceptable
    /\ i' = i - 1
    /\ UNCHANGED <<tail, at, eocd, eocdOffset, z64, archiveIssues, status>>

TakeRecord ==
    /\ at = "scan"
    /\ i >= 0
    /\ Acceptable
    /\ eocd' = Candidate
    /\ eocdOffset' = BufStart + i
    /\ at' = "locator"
    /\ UNCHANGED <<tail, i, z64, archiveIssues, status>>

\* Mutant: the loop is left only by a record that is taken.
EOCDNotFound_Never ==
    /\ at = "scan"
    /\ i < 0
    /\ UNCHANGED vars

EOCDNotFound ==
    /\ at = "scan"
    /\ i < 0
    /\ at' = "done"
    /\ status' = "error"
    /\ UNCHANGED <<tail, i, eocd, eocdOffset, z64, archiveIssues>>

(* findZIP64EOCD.                                                          *)

LocatorOffset == eocdOffset - LocatorSize

\* Mutant: a locator right at the start of the file is not looked for.
HasLocator_Positive == LocatorOffset > 0 /\ tail.locatorAt[LocatorOffset] # << >>

HasLocator == LocatorOffset >= 0 /\ tail.locatorAt[LocatorOffset] # << >>

\* The locator would begin in front of the file, or its signature is not there.
NotZIP64 ==
    /\ at = "locator"
    /\ ~HasLocator
    /\ at' = "done"
    /\ status' = "found"
    /\ UNCHANGED <<tail, i, eocd, eocdOffset, z64, archiveIssues>>

FollowLocator ==
    /\ at = "locator"
    /\ HasLocator
    /\ at' = "zip64"
    /\ UNCHANGED <<tail, i, eocd, eocdOffset, z64, archiveIssues, status>>

\* The locator's 64-bit target is converted to a signed offset; Seek rejects a
\* negative one, and past the end nothing can be read.
Target == Int64(tail.locatorAt[LocatorOffset][1])
TargetReadable == Target \in 0..tail.size /\ tail.zip64At[Target] # << >>

BadZIP64EOCD ==
    /\ at = "zip64"
    /\ ~TargetReadable
    /\ at' = "done"
    /\ status' = "error"
    /\ UNCHANGED <<tail, i, eocd, eocdOffset, z64, archiveIssues>>

ReadZIP64EOCD ==
    /\ at = "zip64"
    /\ TargetReadable
    /\ z64' = tail.zip64At[Target]
    /\ archiveIssues' =
         Flag(eocd[1].cdOffset # Sentinel32 /\ eocd[1].cdOffset # z64'[1].cdOffset,
              "zip64_eocd_mismatch")
         \o Flag(eocd[1].entries # Sentinel16 /\ eocd[1].entries # z64'[1].entries,
                 "zip64_eocd_mismatch")
    /\ at' = "done"
    /\ status' = "found"
    /\ UNCHANGED <<tail, i, eocd, eocdOffset>>

Returned == at = "done" /\ UNCHANGED vars

Next ==
    \/ ReadTail \/ SkipPosition \/ TakeRecord \/ EOCDNotFound
    \/ NotZIP64 \/ FollowLocator \/ BadZIP64EOCD \/ ReadZIP64EOCD
    \/ Returned

Spec == Init /\ [][Next]_vars

\* The scan is sequential and its reads return.
FairSpec == Spec /\ WF_vars(Next)

----------------------------------------------------------------------------
(* Properties.                                                             *)

\* A record at this offset of the file, whole and with its comment in the file.
Fits(f, o) ==
    /\ f.eocdAt[o] # << >>
    /\ o + EOCDFixedSize + f.eocdAt[o][1].commentLen <= f.size

\* The record that is taken is the last of the whole file whose comment fits, and
\* when none is taken none stands in the bytes that were searched (reader.go:100).
LastFittingTaken ==
    /\ at \in {"locator", "zip64"} \/ status = "found" =>
        /\ Fits(tail, eocdOffset)
        /\ eocd = tail.eocdAt[eocdOffset]
        /\ \A o \in (eocdOffset + 1)..tail.size : ~Fits(tail, o)
    /\ status = "error" /\ eocd = << >> =>
        \A o \in BufStart..tail.size : ~Fits(tail, o)

\* However long the comment of an archive, its record is found: a file that ends
\* where the comment of some record ends is not refused for want of a record, and
\* a record taken instead stands inside that comment (reader.go:84).
WellFormedFound ==
    \A o \in 0..tail.size :
        Fits(tail, o) /\ o + EOCDFixedSize + tail.eocdAt[o][1].commentLen = tail.size =>
            /\ status = "error" => eocd # << >>
            /\ eocd # << >> /\ eocdOffset # o => eocdOffset \in (o + EOCDSigLen)..tail.size

\* No slice that findEOCD takes of its buffer leaves it, which in Go is a panic: from
\* i on the buffer holds a whole record, so that its read cannot fail either
\* (reader.go:101, 105), and the comment of the record taken begins and ends in it
\* (reader.go:114), however short the file is.
ReadsInside ==
    /\ at = "scan" /\ i >= 0 => i + EOCDFixedSize <= BufLen
    /\ at = "locator" =>
        LET commentStart == (eocdOffset - BufStart) + EOCDFixedSize
        IN  /\ commentStart >= EOCDFixedSize
            /\ commentStart + eocd[1].commentLen <= BufLen

\* The calls return.
Returns == <>(at = "done")

(***************************************************************************)
(* OpenReader's view of the end of a file: one record and what its ZIP64   *)
(* locator leads to, with no scan.                                         *)
(***************************************************************************)
InReach(f) == {o \in 0..f.size : o + EOCDSearchSize >= f.size /\ Fits(f, o)}

ReaderEOCD(f) ==
    IF InReach(f) = {} THEN << >>
    ELSE LET last == CHOOSE o \in InReach(f) : \A p \in InReach(f) : p <= o
             rec == f.eocdAt[last][1]
         IN  <<[offset |-> last, cdOffset |-> rec.cdOffset, entries |-> rec.entries]>>

\* The ZIP64 record a locator at offset o points to.
PointedTo(f, o) ==
    LET target == Int64(f.locatorAt[o][1])
    IN  IF target \in 0..f.size THEN f.zip64At[target] ELSE << >>

ReaderZIP64(f) ==
    IF ReaderEOCD(f) = << >> THEN << >>
    ELSE LET o == ReaderEOCD(f)[1].offset - LocatorSize
             z == PointedTo(f, o)
         IN  IF o < 0 \/ f.locatorAt[o] = << >> THEN << >>
             ELSE <<[at |-> f.locatorAt[o][1], readable |-> z # << >>,
                     cdOffset |-> IF z = << >> THEN 0 ELSE z[1].cdOffset,
                     entries |-> IF z = << >> THEN 0 ELSE z[1].entries]>>

\* Such a file in full, with nothing else in it.
NoHeader == [sigOK |-> FALSE, name |-> ManifestName, gpbf |-> {}, compression |-> "stored",
             crc32 |-> 0, comp |-> 0, uncomp |-> 0, extra |-> << >>, len |-> 1]

EndOf(f) ==
    LET everywhere(answer) == [o \in 0..f.size |-> answer]
    IN  [size |-> f.size,
         eocd |-> IF ReaderEOCD(f) = << >> THEN << >>
                  ELSE <<[cdOffset |-> ReaderEOCD(f)[1].cdOffset,
                          entries |-> ReaderEOCD(f)[1].entries]>>,
         zip64 |-> ReaderZIP64(f),
         sigAt |-> everywhere([status |-> "absent", issues |-> << >>]),
         cdAt |-> everywhere(<< >>),
         lfhAt |-> everywhere(NoHeader),
         axmlAt |-> everywhere([inflates |-> FALSE, raw |-> << >>, inflated |-> << >>])]

EndFiles == {EndOf(f) : f \in Tails}

\* Where OpenReader is, what it has read and how it may have ended.
ReaderPC == CASE at = "open" -> "main"
              [] at = "scan" -> "findEOCD"
              [] at \in {"locator", "zip64"} -> "findZIP64EOCD"
              [] at = "done" /\ status = "found" -> "FindSigningBlock"
              [] OTHER -> "exit"
ReaderCDOffset == IF z64 # << >> THEN Int64(z64[1].cdOffset)
                  ELSE IF eocd # << >> THEN eocd[1].cdOffset ELSE 0
ReaderEntryCount == IF z64 # << >> THEN Int64(z64[1].entries)
                    ELSE IF eocd # << >> THEN eocd[1].entries ELSE 0
ReaderExitCode == IF status = "error" THEN 1 ELSE -1

Reader == INSTANCE OpenReader WITH
    Files <- EndFiles, file <- EndOf(tail), pc <- ReaderPC,
    cdOffset <- ReaderCDOffset, entryCount <- ReaderEntryCount, exitCode <- ReaderExitCode,
    entries <- << >>, cur <- 1, seen <- [n \in Name |-> 0], fileNames <- {}, dirNames <- {},
    manifest <- 0, issueCount <- 0, reported <- {}

\* Every step of the two calls is a step of OpenReader on the file reduced to its
\* end records, or none: what OpenReader assumes of them is what they deliver.
ImplementsReader == Reader!Spec
============================================================================
