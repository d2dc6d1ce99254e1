------------------------- MODULE EndRecordsProofs -------------------------
(***************************************************************************)
(* Proofs about EndRecords: which record the scan takes, for every layout  *)
(* of the file and every length of a comment.                              *)
(***************************************************************************)
EXTENDS EndRecords, SequenceTheorems, TLAPS

\* What the scan has ruled out so far, and what holds of the record it took.
ScanInv ==
    /\ at # "done" <=> status = "running"
    /\ at \in {"open", "scan"} => eocd = << >>
    /\ at \in {"locator", "zip64"} \/ status = "found" => eocd # << >>
    /\ at = "scan" =>
        /\ i <= BufLen - EOCDFixedSize
        /\ \A o \in 0..tail.size : o > BufStart + i => ~Fits(tail, o)
    /\ eocd # << >> =>
        /\ Fits(tail, eocdOffset)
        /\ eocd = tail.eocdAt[eocdOffset]
        /\ eocdOffset >= BufStart
        /\ \A o \in (eocdOffset + 1)..tail.size : ~Fits(tail, o)
    /\ status = "error" /\ eocd = << >> =>
        \A o \in BufStart..tail.size : ~Fits(tail, o)
    /\ at \in {"open", "scan", "locator", "zip64"} => z64 = << >> /\ archiveIssues = << >>
    /\ at = "zip64" => HasLocator
    /\ status = "error" => z64 = << >> /\ archiveIssues = << >>

IInv == TypeOK /\ ScanInv

LEMMA Layout ==
    /\ EOCDFixedSize \in Nat \ {0} /\ EOCDSigLen \in Nat \ {0}
    /\ LocatorSize \in Nat \ {0}
    /\ EOCDMaxCommentLen \in Nat
    /\ Sentinel16 \in Nat /\ Sentinel32 \in Nat /\ Half \in Nat
    /\ EOCDSearchSize = EOCDFixedSize + Sentinel16
BY LayoutAssumption, WidthAssumption DEF EOCDMaxCommentLen, EOCDSearchSize

LEMMA PtrValue ==
    ASSUME NEW S, NEW p \in Ptr(S), p # << >>
    PROVE  p[1] \in S
BY ElementOfSeq, EmptySeq DEF Ptr

LEMMA NilPtr == ASSUME NEW S PROVE << >> \in Ptr(S)
BY DEF Ptr

LEMMA TailTypes ==
    ASSUME IsTail(tail)
    PROVE  /\ tail.size \in Nat
           /\ BufLen \in Nat /\ BufStart \in Nat /\ BufStart + BufLen = tail.size
           /\ BufLen <= EOCDSearchSize
           /\ BufStart = 0 \/ BufStart + EOCDSearchSize = tail.size
           /\ \A o \in 0..tail.size : tail.eocdAt[o] \in Ptr(EOCDRecord)
           /\ \A o \in 0..tail.size : tail.locatorAt[o] \in Ptr(U64)
           /\ \A o \in 0..tail.size : tail.zip64At[o] \in Ptr(ZIP64Record)
<1>1. tail.size \in Nat /\ tail \in TailOfSize(tail.size)
    BY DEF IsTail
<1>2. /\ tail.eocdAt \in [0..tail.size -> Ptr(EOCDRecord)]
      /\ tail.locatorAt \in [0..tail.size -> Ptr(U64)]
      /\ tail.zip64At \in [0..tail.size -> Ptr(ZIP64Record)]
    BY <1>1 DEF TailOfSize
<1> QED
    BY <1>1, <1>2, Layout DEF BufLen, BufStart

\* The length of the comment of a record that stands somewhere.
LEMMA CommentLength ==
    ASSUME IsTail(tail), NEW o \in 0..tail.size, tail.eocdAt[o] # << >>
    PROVE  tail.eocdAt[o][1].commentLen \in 0..Sentinel16
<1>1. tail.eocdAt[o] \in Ptr(EOCDRecord)
    BY TailTypes
<1>2. tail.eocdAt[o][1] \in EOCDRecord
    BY <1>1, PtrValue
<1> QED
    BY <1>2 DEF EOCDRecord, U16

LEMMA FitsBound ==
    ASSUME IsTail(tail), NEW o \in 0..tail.size, Fits(tail, o)
    PROVE  o + EOCDFixedSize <= tail.size
BY CommentLength, TailTypes, Layout DEF Fits

\* The test of the code, made in the buffer, is that of the file.
LEMMA AcceptableFits ==
    ASSUME IsTail(tail), i \in Nat, i + EOCDFixedSize <= BufLen
    PROVE  BufStart + i \in 0..tail.size /\ (Acceptable <=> Fits(tail, BufStart + i))
<1>1. BufStart + i \in 0..tail.size
    BY TailTypes, Layout
<1>2. CASE Candidate = << >>
    BY <1>1, <1>2 DEF Acceptable, Fits, Candidate
<1>3. CASE Candidate # << >>
    <2>1. Candidate[1].commentLen \in Nat
        BY <1>1, <1>3, CommentLength, Layout DEF Candidate
    <2> QED
        BY <1>1, <1>3, <2>1, TailTypes, Layout DEF Acceptable, Fits, Candidate, CommentEnd
<1> QED
    BY <1>1, <1>2, <1>3

LEMMA InitIInv ==
    ASSUME Init
    PROVE  IInv
<1>1. IsTail(tail)
    BY TailsAssumption DEF Init
<1>2. << >> \in Seq(ArchiveKind)
    OBVIOUS
<1> QED
    BY <1>1, <1>2, TailTypes, NilPtr, Layout DEF Init, IInv, TypeOK, ScanInv

LEMMA StepIInv ==
    ASSUME IInv, [Next]_vars
    PROVE  IInv'
<1>1. IsTail(tail) /\ TypeOK /\ ScanInv
    BY DEF IInv, TypeOK
<1>2. tail' = tail
    BY DEF Next, vars, ReadTail, SkipPosition, TakeRecord, EOCDNotFound, NotZIP64,
           FollowLocator, BadZIP64EOCD, ReadZIP64EOCD, Returned
<1>3. BufLen' = BufLen /\ BufStart' = BufStart
    BY <1>2 DEF BufLen, BufStart
<1>4. CASE ReadTail
    <2>1. TypeOK'
        <3>1. /\ i' = BufLen - EOCDFixedSize /\ at' = "scan"
              /\ UNCHANGED <<tail, eocd, eocdOffset, z64, archiveIssues, status>>
            BY <1>4 DEF ReadTail
        <3>2. i' \in (-EOCDFixedSize)..tail.size
            BY <1>1, <3>1, TailTypes, Layout
        <3> QED
            BY <1>1, <3>1, <3>2 DEF TypeOK
    <2>2. \A o \in 0..tail.size : o > BufStart + i' => ~Fits(tail, o)
        <3>1. i' = BufLen - EOCDFixedSize
            BY <1>4 DEF ReadTail
        <3> QED
            BY <1>1, <3>1, FitsBound, TailTypes, Layout
    <2> QED
        BY <1>1, <1>2, <1>3, <1>4, <2>1, <2>2 DEF ReadTail, IInv, ScanInv
<1>5. CASE SkipPosition
    <2>1. i \in Nat /\ i' = i - 1 /\ i + EOCDFixedSize <= BufLen
        BY <1>1, <1>5, TailTypes, Layout DEF SkipPosition, TypeOK, ScanInv
    <2>2. ~Fits(tail, BufStart + i)
        BY <1>1, <1>5, <2>1, AcceptableFits DEF SkipPosition
    <2>3. \A o \in 0..tail.size : o > BufStart + i' => ~Fits(tail, o)
        BY <1>1, <1>5, <2>1, <2>2, TailTypes DEF SkipPosition, ScanInv
    <2>4. TypeOK'
        BY <1>1, <1>2, <1>5, <2>1, TailTypes, Layout DEF SkipPosition, TypeOK
    <2> QED
        BY <1>1, <1>2, <1>3, <1>5, <2>1, <2>3, <2>4, TailTypes, Layout
           DEF SkipPosition, IInv, ScanInv
<1>6. CASE TakeRecord
    <2>1. i \in Nat /\ i + EOCDFixedSize <= BufLen
        BY <1>1, <1>6, TailTypes, Layout DEF TakeRecord, TypeOK, ScanInv
    <2>2. /\ BufStart + i \in 0..tail.size /\ Fits(tail, BufStart + i)
          /\ eocd' = tail.eocdAt[BufStart + i] /\ eocd' # << >>
          /\ eocdOffset' = BufStart + i /\ eocdOffset' >= BufStart
        BY <1>1, <1>6, <2>1, AcceptableFits, TailTypes DEF TakeRecord, Acceptable, Candidate
    <2>3. \A o \in (eocdOffset' + 1)..tail.size : ~Fits(tail, o)
        BY <1>1, <1>6, <2>2 DEF TakeRecord, ScanInv
    <2>4. TypeOK'
        BY <1>1, <1>2, <1>6, <2>2, TailTypes DEF TakeRecord, TypeOK
    <2> QED
        BY <1>1, <1>2, <1>3, <1>6, <2>2, <2>3, <2>4 DEF TakeRecord, IInv, ScanInv
<1>7. CASE EOCDNotFound
    <2>1. \A o \in BufStart..tail.size : ~Fits(tail, o)
        BY <1>1, <1>7, TailTypes DEF EOCDNotFound, ScanInv, TypeOK
    <2> QED
        BY <1>1, <1>2, <1>3, <1>7, <2>1 DEF EOCDNotFound, IInv, ScanInv, TypeOK
<1>8. CASE NotZIP64
    BY <1>1, <1>2, <1>3, <1>8 DEF NotZIP64, IInv, ScanInv, TypeOK
<1>9. CASE FollowLocator
    BY <1>1, <1>2, <1>3, <1>9
       DEF FollowLocator, IInv, ScanInv, TypeOK, HasLocator, LocatorOffset
<1>10. CASE BadZIP64EOCD
    BY <1>1, <1>2, <1>3, <1>10 DEF BadZIP64EOCD, IInv, ScanInv, TypeOK
<1>11. CASE ReadZIP64EOCD
    <2>1. z64' \in Ptr(ZIP64Record)
        BY <1>1, <1>11, TailTypes DEF ReadZIP64EOCD, TargetReadable
    <2>2. \A c : Flag(c, "zip64_eocd_mismatch") \in Seq(ArchiveKind)
        <3>1. "zip64_eocd_mismatch" \in ArchiveKind
            BY DEF ArchiveKind
        <3> QED
            BY <3>1 DEF Flag
    <2>3. archiveIssues' \in Seq(ArchiveKind)
        BY <1>11, <2>2, ConcatProperties DEF ReadZIP64EOCD
    <2>4. TypeOK'
        BY <1>1, <1>2, <1>11, <2>1, <2>3 DEF ReadZIP64EOCD, TypeOK
    <2> QED
        BY <1>1, <1>2, <1>3, <1>11, <2>4 DEF ReadZIP64EOCD, IInv, ScanInv
<1>12. CASE UNCHANGED vars
    BY <1>1, <1>2, <1>3, <1>12
       DEF vars, IInv, ScanInv, TypeOK, HasLocator, LocatorOffset
<1> QED
    BY <1>4, <1>5, <1>6, <1>7, <1>8, <1>9, <1>10, <1>11, <1>12 DEF Next, Returned

LEMMA IInvHolds == Spec => []IInv
BY InitIInv, StepIInv, PTL DEF Spec

\* On every file the variables of the two searches keep their types: the scan's index
\* neither passes the end of the file nor runs more than a record below zero.
THEOREM TypeCorrect == Spec => []TypeOK
BY IInvHolds, PTL DEF IInv

\* For every file and every width of the comment length: findEOCD takes the last
\* record whose comment ends within the file, and fails only when none stands in
\* the bytes it searches.
THEOREM LastFittingTakenHolds == Spec => []LastFittingTaken
<1>1. IInv => LastFittingTaken
    BY DEF IInv, ScanInv, LastFittingTaken
<1> QED
    BY <1>1, IInvHolds, PTL

\* An archive whose last record's comment ends with the file is never refused for
\* want of a record: the longest comment lies within the bytes searched.
THEOREM WellFormedFoundHolds == Spec => []WellFormedFound
<1>1. ASSUME IInv PROVE WellFormedFound
    <2> SUFFICES ASSUME NEW o \in 0..tail.size, Fits(tail, o),
                        o + EOCDFixedSize + tail.eocdAt[o][1].commentLen = tail.size
                 PROVE  /\ status = "error" => eocd # << >>
                        /\ eocd # << >> /\ eocdOffset # o
                             => eocdOffset \in (o + EOCDSigLen)..tail.size
        BY DEF WellFormedFound
    <2>1. IsTail(tail) /\ TypeOK /\ ScanInv
        BY <1>1 DEF IInv, TypeOK
    <2>2. tail.eocdAt[o] # << >> /\ tail.eocdAt[o][1].commentLen \in 0..Sentinel16
        BY <2>1, CommentLength DEF Fits
    <2>3. o >= BufStart
        BY <2>1, <2>2, TailTypes, Layout
    <2>4. status = "error" => eocd # << >>
        BY <2>1, <2>3 DEF ScanInv
    <2>5. ASSUME eocd # << >>, eocdOffset # o PROVE eocdOffset \in (o + EOCDSigLen)..tail.size
        <3>1. eocdOffset \in 0..tail.size /\ tail.eocdAt[eocdOffset] # << >>
            BY <2>1, <2>5 DEF TypeOK, ScanInv
        <3>2. o < eocdOffset
            BY <2>1, <2>5, <3>1 DEF ScanInv
        <3> QED
            BY <2>1, <2>2, <3>1, <3>2, Layout DEF IsTail
    <2> QED
        BY <2>4, <2>5
<1> QED
    BY <1>1, IInvHolds, PTL

\* On every file, however short, the slices that findEOCD takes of its buffer, for a
\* record and for the comment of the one it returns, stay inside the buffer.
THEOREM ReadsInsideHolds == Spec => []ReadsInside
<1>1. ASSUME IInv PROVE ReadsInside
    <2>1. IsTail(tail) /\ TypeOK /\ ScanInv
        BY <1>1 DEF IInv, TypeOK
    <2>2. at = "scan" /\ i >= 0 => i + EOCDFixedSize <= BufLen
        BY <2>1, TailTypes, Layout DEF ScanInv, TypeOK
    <2>3. ASSUME at = "locator"
          PROVE  /\ eocdOffset >= BufStart
                 /\ eocdOffset + EOCDFixedSize + eocd[1].commentLen <= tail.size
                 /\ eocdOffset \in Nat /\ eocd[1].commentLen \in Nat
        <3>1. /\ eocdOffset \in 0..tail.size /\ eocdOffset >= BufStart
              /\ Fits(tail, eocdOffset) /\ eocd = tail.eocdAt[eocdOffset]
            BY <2>1, <2>3 DEF TypeOK, ScanInv
        <3>2. tail.eocdAt[eocdOffset][1].commentLen \in 0..Sentinel16
            BY <2>1, <3>1, CommentLength DEF Fits
        <3> QED
            BY <3>1, <3>2, Layout DEF Fits
    <2> QED
        BY <2>1, <2>2, <2>3, TailTypes, Layout DEF ReadsInside, BufStart
<1> QED
    BY <1>1, IInvHolds, PTL

----------------------------------------------------------------------------
(* OpenReader's view of the end of the file.                               *)

\* The record that is taken is the one OpenReader's file has.
LEMMA TakenIsReaders ==
    ASSUME IsTail(tail), NEW o \in 0..tail.size, Fits(tail, o), o >= BufStart,
           \A p \in (o + 1)..tail.size : ~Fits(tail, p)
    PROVE  /\ InReach(tail) # {}
           /\ ReaderEOCD(tail) = <<[offset |-> o, cdOffset |-> tail.eocdAt[o][1].cdOffset,
                                    entries |-> tail.eocdAt[o][1].entries]>>
<1>1. o \in InReach(tail)
    BY TailTypes, Layout DEF InReach
<1>2. \A p \in InReach(tail) : p \in Nat /\ p <= o
    BY TailTypes DEF InReach
<1> DEFINE last == CHOOSE p \in InReach(tail) : \A q \in InReach(tail) : q <= p
<1>3. last \in InReach(tail) /\ o <= last
    BY <1>1, <1>2
<1>4. last = o
    BY <1>2, <1>3
<1> QED
    BY <1>1, <1>4 DEF ReaderEOCD

LEMMA NoneIsReaders ==
    ASSUME IsTail(tail), \A o \in BufStart..tail.size : ~Fits(tail, o)
    PROVE  ReaderEOCD(tail) = << >> /\ ReaderZIP64(tail) = << >>
<1>1. InReach(tail) = {}
    BY TailTypes, Layout DEF InReach
<1> QED
    BY <1>1 DEF ReaderEOCD, ReaderZIP64

\* What stands at the locator's place is what OpenReader's file has there.
LEMMA LocatorIsReaders ==
    ASSUME IInv, at \in {"locator", "zip64"}
    PROVE  /\ ReaderZIP64(tail) # << >> <=> HasLocator
           /\ HasLocator =>
                /\ ReaderZIP64(tail)[1].at = tail.locatorAt[LocatorOffset][1]
                /\ ReaderZIP64(tail)[1].readable <=> TargetReadable
                /\ TargetReadable =>
                     /\ ReaderZIP64(tail)[1].cdOffset = tail.zip64At[Target][1].cdOffset
                     /\ ReaderZIP64(tail)[1].entries = tail.zip64At[Target][1].entries
<1>1. IsTail(tail) /\ eocdOffset \in 0..tail.size
    BY DEF IInv, TypeOK
<1>2. ReaderEOCD(tail) # << >> /\ ReaderEOCD(tail)[1].offset = eocdOffset
    BY <1>1, TakenIsReaders DEF IInv, ScanInv
<1> DEFINE z == PointedTo(tail, LocatorOffset)
           place == tail.locatorAt[LocatorOffset]
<1>3. z = IF Target \in 0..tail.size THEN tail.zip64At[Target] ELSE << >>
    BY DEF PointedTo, Target
<1> HIDE DEF z
<1>4. ReaderZIP64(tail) =
        IF LocatorOffset < 0 \/ place = << >> THEN << >>
        ELSE <<[at |-> place[1], readable |-> z # << >>,
                cdOffset |-> IF z = << >> THEN 0 ELSE z[1].cdOffset,
                entries |-> IF z = << >> THEN 0 ELSE z[1].entries]>>
    BY <1>2 DEF ReaderZIP64, LocatorOffset, z
<1>5. LocatorOffset \in Int
    BY <1>1, Layout DEF LocatorOffset
<1>6. HasLocator <=> ~(LocatorOffset < 0 \/ place = << >>)
    BY <1>5 DEF HasLocator
<1>7. TargetReadable <=> z # << >>
    BY <1>3 DEF TargetReadable
<1>8. TargetReadable => z = tail.zip64At[Target]
    BY <1>3 DEF TargetReadable
<1> DEFINE r == [at |-> place[1], readable |-> z # << >>,
                 cdOffset |-> IF z = << >> THEN 0 ELSE z[1].cdOffset,
                 entries |-> IF z = << >> THEN 0 ELSE z[1].entries]
<1>9. HasLocator => ReaderZIP64(tail) = <<r>>
    BY <1>4, <1>6
<1>10. ~HasLocator => ReaderZIP64(tail) = << >>
    BY <1>4, <1>6
<1>11. /\ r.at = place[1] /\ r.readable = (z # << >>)
       /\ z # << >> => r.cdOffset = z[1].cdOffset /\ r.entries = z[1].entries
    OBVIOUS
<1> HIDE DEF r, place
<1>12. <<r>> # << >> /\ <<r>>[1] = r
    OBVIOUS
<1> QED
    BY <1>7, <1>8, <1>9, <1>10, <1>11, <1>12 DEF place

\* The file OpenReader is run on has the end records found, and does not change.
LEMMA EndOfFields ==
    /\ EndOf(tail).eocd = IF ReaderEOCD(tail) = << >> THEN << >>
                          ELSE <<[cdOffset |-> ReaderEOCD(tail)[1].cdOffset,
                                  entries |-> ReaderEOCD(tail)[1].entries]>>
    /\ EndOf(tail).zip64 = ReaderZIP64(tail)
BY DEF EndOf

LEMMA EndOfTaken ==
    ASSUME IsTail(tail), NEW o \in 0..tail.size, Fits(tail, o), o >= BufStart,
           \A p \in (o + 1)..tail.size : ~Fits(tail, p)
    PROVE  /\ EndOf(tail).eocd # << >>
           /\ EndOf(tail).eocd[1].cdOffset = tail.eocdAt[o][1].cdOffset
           /\ EndOf(tail).eocd[1].entries = tail.eocdAt[o][1].entries
<1> DEFINE v == [offset |-> o, cdOffset |-> tail.eocdAt[o][1].cdOffset,
                 entries |-> tail.eocdAt[o][1].entries]
           w == [cdOffset |-> v.cdOffset, entries |-> v.entries]
<1>1. ReaderEOCD(tail) = <<v>>
    BY TakenIsReaders
<1>2. v.cdOffset = tail.eocdAt[o][1].cdOffset /\ v.entries = tail.eocdAt[o][1].entries
    OBVIOUS
<1> HIDE DEF v
<1>3. <<v>> # << >> /\ <<v>>[1] = v
    OBVIOUS
<1>4. EndOf(tail).eocd = <<w>>
    BY <1>1, <1>3, EndOfFields
<1>5. w.cdOffset = v.cdOffset /\ w.entries = v.entries
    OBVIOUS
<1> HIDE DEF w
<1>6. <<w>> # << >> /\ <<w>>[1] = w
    OBVIOUS
<1> QED
    BY <1>2, <1>4, <1>5, <1>6

LEMMA InitMaps ==
    ASSUME Init
    PROVE  Reader!Init
<1>1. EndOf(tail) \in EndFiles
    BY DEF Init, EndFiles
<1> QED
    BY <1>1 DEF Init, Reader!Init, ReaderPC, ReaderCDOffset, ReaderEntryCount, ReaderExitCode

LEMMA StepMaps ==
    ASSUME IInv, IInv', [Next]_vars
    PROVE  [Reader!Next]_Reader!vars
<1>1. tail' = tail
    BY DEF Next, vars, ReadTail, SkipPosition, TakeRecord, EOCDNotFound, NotZIP64,
           FollowLocator, BadZIP64EOCD, ReadZIP64EOCD, Returned
<1>2. EndOf(tail)' = EndOf(tail)
    BY <1>1
<1>3. IsTail(tail) /\ TypeOK /\ ScanInv
    BY DEF IInv, TypeOK
<1> DEFINE Kept == UNCHANGED <<ReaderCDOffset, ReaderEntryCount, archiveIssues>>
           Stays == Kept /\ UNCHANGED <<EndOf(tail), ReaderExitCode>>
<1>4. ASSUME UNCHANGED <<eocd, z64, archiveIssues>> PROVE Kept
    BY <1>4 DEF ReaderCDOffset, ReaderEntryCount
<1>5. ASSUME UNCHANGED <<eocd, z64, archiveIssues, status>> PROVE Stays
    BY <1>2, <1>4, <1>5 DEF ReaderExitCode
<1>6. ASSUME ReaderPC' = ReaderPC, Stays PROVE UNCHANGED Reader!vars
    BY <1>6 DEF Reader!vars, Reader!headVars, Reader!nameVars, Reader!reportVars
<1>7. ASSUME ReaderPC' = "exit", ReaderExitCode' = 1, Kept PROVE Reader!Stop(1)
    BY <1>2, <1>7 DEF Reader!Stop, Reader!headVars, Reader!nameVars, Reader!reportVars
<1>8. CASE ReadTail
    <2>1. ReaderPC = "main" /\ ReaderPC' = "findEOCD"
        BY <1>8 DEF ReadTail, ReaderPC
    <2>2. Stays
        BY <1>5, <1>8 DEF ReadTail
    <2>3. Reader!OpenFile
        BY <2>1, <2>2 DEF Reader!OpenFile, Reader!headVars, Reader!nameVars, Reader!reportVars
    <2> QED
        BY <2>3 DEF Reader!Next, Reader!Heads
<1>9. CASE SkipPosition
    <2>1. ReaderPC' = ReaderPC
        BY <1>9 DEF SkipPosition, ReaderPC
    <2> QED
        BY <1>5, <1>6, <1>9, <2>1 DEF SkipPosition
<1>10. CASE TakeRecord
    <2>1. ReaderPC = "findEOCD" /\ ReaderPC' = "findZIP64EOCD"
        BY <1>10 DEF TakeRecord, ReaderPC
    <2>2. eocd' # << >> /\ z64' = << >> /\ archiveIssues' = archiveIssues /\ status' = status
        BY <1>10, <1>3 DEF TakeRecord, Acceptable, ScanInv
    <2>3. /\ EndOf(tail).eocd # << >>
          /\ EndOf(tail).eocd[1].cdOffset = eocd'[1].cdOffset
          /\ EndOf(tail).eocd[1].entries = eocd'[1].entries
        <3>1. i \in Nat /\ i + EOCDFixedSize <= BufLen
            BY <1>3, <1>10, TailTypes, Layout DEF TakeRecord, TypeOK, ScanInv
        <3>2. /\ BufStart + i \in 0..tail.size /\ BufStart + i >= BufStart
              /\ Fits(tail, BufStart + i) /\ eocd' = tail.eocdAt[BufStart + i]
            BY <1>3, <1>10, <3>1, AcceptableFits, TailTypes DEF TakeRecord, Candidate
        <3>3. \A p \in (BufStart + i + 1)..tail.size : ~Fits(tail, p)
            BY <1>3, <1>10, <3>2 DEF TakeRecord, ScanInv
        <3> QED
            BY <1>3, <3>2, <3>3, EndOfTaken
    <2>4. ReaderCDOffset' = eocd'[1].cdOffset /\ ReaderEntryCount' = eocd'[1].entries
        BY <2>2 DEF ReaderCDOffset, ReaderEntryCount
    <2>5. ReaderExitCode' = ReaderExitCode
        BY <2>2 DEF ReaderExitCode
    <2>6. Reader!FindEOCD
        BY <1>2, <2>1, <2>2, <2>3, <2>4, <2>5
           DEF Reader!FindEOCD, Reader!nameVars, Reader!reportVars
    <2> QED
        BY <2>6 DEF Reader!Next, Reader!Heads
<1>11. CASE EOCDNotFound
    <2>1. ReaderPC = "findEOCD" /\ ReaderPC' = "exit" /\ ReaderExitCode' = 1
        BY <1>11 DEF EOCDNotFound, ReaderPC, ReaderExitCode
    <2>2. Reader!Stop(1)
        BY <1>4, <1>7, <1>11, <2>1 DEF EOCDNotFound
    <2>3. \A o \in BufStart..tail.size : ~Fits(tail, o)
        BY <1>3, <1>11, TailTypes DEF EOCDNotFound, ScanInv, TypeOK
    <2>4. EndOf(tail).eocd = << >>
        BY <1>3, <2>3, NoneIsReaders, EndOfFields
    <2> QED
        BY <2>1, <2>2, <2>4 DEF Reader!Next, Reader!Stops, Reader!NoEOCD
<1>12. CASE NotZIP64
    <2>1. ReaderPC = "findZIP64EOCD" /\ ReaderPC' = "FindSigningBlock"
        BY <1>12 DEF NotZIP64, ReaderPC
    <2>2. EndOf(tail).zip64 = << >>
        BY <1>12, LocatorIsReaders, EndOfFields DEF NotZIP64
    <2>3. ReaderExitCode' = ReaderExitCode
        BY <1>3, <1>12 DEF NotZIP64, ReaderExitCode, ScanInv
    <2>4. Kept
        BY <1>4, <1>12 DEF NotZIP64
    <2>5. Reader!NotZIP64
        BY <1>2, <2>1, <2>2, <2>3, <2>4
           DEF Reader!NotZIP64, Reader!headVars, Reader!nameVars, Reader!reportVars
    <2> QED
        BY <2>5 DEF Reader!Next, Reader!Heads
<1>13. CASE FollowLocator
    <2>1. ReaderPC' = ReaderPC
        BY <1>13 DEF FollowLocator, ReaderPC
    <2> QED
        BY <1>5, <1>6, <1>13, <2>1 DEF FollowLocator
<1>14. CASE BadZIP64EOCD
    <2>1. ReaderPC = "findZIP64EOCD" /\ ReaderPC' = "exit" /\ ReaderExitCode' = 1
        BY <1>14 DEF BadZIP64EOCD, ReaderPC, ReaderExitCode
    <2>2. Reader!Stop(1)
        BY <1>4, <1>7, <1>14, <2>1 DEF BadZIP64EOCD
    <2>3. EndOf(tail).zip64 # << >> /\ ~Reader!ZIP64Readable(EndOf(tail).zip64[1])
        BY <1>3, <1>14, LocatorIsReaders, EndOfFields
           DEF BadZIP64EOCD, ScanInv, Reader!ZIP64Readable
    <2> QED
        BY <2>1, <2>2, <2>3 DEF Reader!Next, Reader!Stops, Reader!BadZIP64EOCD
<1>15. CASE ReadZIP64EOCD
    <2>1. ReaderPC = "findZIP64EOCD" /\ ReaderPC' = "FindSigningBlock"
        BY <1>15 DEF ReadZIP64EOCD, ReaderPC
    <2>2. /\ z64' = tail.zip64At[Target] /\ z64' # << >> /\ eocd' = eocd
          /\ TargetReadable /\ HasLocator /\ archiveIssues = << >> /\ at = "zip64"
        BY <1>3, <1>15 DEF ReadZIP64EOCD, TargetReadable, ScanInv
    <2>3. /\ EndOf(tail).zip64 # << >> /\ Reader!ZIP64Readable(EndOf(tail).zip64[1])
          /\ EndOf(tail).zip64[1].cdOffset = z64'[1].cdOffset
          /\ EndOf(tail).zip64[1].entries = z64'[1].entries
        <3>1. /\ EndOf(tail).zip64[1].readable
              /\ EndOf(tail).zip64[1].at = tail.locatorAt[LocatorOffset][1]
            BY <2>2, LocatorIsReaders, EndOfFields
        <3>2. Int64(tail.locatorAt[LocatorOffset][1]) >= 0
            BY <1>3, <2>2, TailTypes DEF TargetReadable, Target
        <3> QED
            BY <2>2, <3>1, <3>2, LocatorIsReaders, EndOfFields
               DEF Reader!ZIP64Readable, Reader!Int64, Int64
    <2>4. /\ EndOf(tail).eocd[1].cdOffset = eocd[1].cdOffset
          /\ EndOf(tail).eocd[1].entries = eocd[1].entries
        BY <1>3, <2>2, EndOfTaken DEF TypeOK, ScanInv
    <2>5. /\ ReaderCDOffset' = Int64(EndOf(tail).zip64[1].cdOffset)
          /\ ReaderEntryCount' = Int64(EndOf(tail).zip64[1].entries)
        BY <2>2, <2>3 DEF ReaderCDOffset, ReaderEntryCount
    <2>6. ReaderExitCode' = ReaderExitCode
        BY <1>3, <1>15 DEF ReadZIP64EOCD, ReaderExitCode, ScanInv
    <2> DEFINE off == Flag(eocd[1].cdOffset # Sentinel32 /\ eocd[1].cdOffset # z64'[1].cdOffset,
                           "zip64_eocd_mismatch")
               cnt == Flag(eocd[1].entries # Sentinel16 /\ eocd[1].entries # z64'[1].entries,
                           "zip64_eocd_mismatch")
    <2>7. archiveIssues' = archiveIssues \o off \o cnt
        <3>1. archiveIssues' = off \o cnt
            BY <1>15 DEF ReadZIP64EOCD
        <3>2. \A c : Flag(c, "zip64_eocd_mismatch") \in Seq(ArchiveKind)
            <4>1. "zip64_eocd_mismatch" \in ArchiveKind
                BY DEF ArchiveKind
            <4> QED
                BY <4>1 DEF Flag
        <3>3. << >> \o off = off
            <4>1. off \in Seq(ArchiveKind)
                BY <3>2
            <4> QED
                BY <4>1, ConcatEmptySeq
        <3> QED
            BY <2>2, <3>1, <3>3
    <2>8. Reader!FindZIP64EOCD
        BY <1>2, <2>1, <2>3, <2>4, <2>5, <2>6, <2>7
           DEF Reader!FindZIP64EOCD, Reader!Flag, Flag, Reader!Int64, Int64,
               Reader!nameVars, Reader!reportVars
    <2> QED
        BY <2>8 DEF Reader!Next, Reader!Heads
<1>16. CASE UNCHANGED vars
    <2>1. ReaderPC' = ReaderPC
        BY <1>16 DEF vars, ReaderPC
    <2> QED
        BY <1>5, <1>6, <1>16, <2>1 DEF vars
<1> QED
    BY <1>8, <1>9, <1>10, <1>11, <1>12, <1>13, <1>14, <1>15, <1>16 DEF Next, Returned

\* What OpenReader assumes of the end records is what the two calls deliver, for
\* every file and every width of the fields.
THEOREM ImplementsReaderHolds == Spec => ImplementsReader
BY InitMaps, StepMaps, IInvHolds, PTL DEF Spec, ImplementsReader, Reader!Spec
============================================================================
