--------------------------- MODULE VerdictProofs ---------------------------
(***************************************************************************)
(* Proofs about a whole run of OpenReader: it implements ArchiveVerdict,   *)
(* what a clean exit says of headers and end records, and, with the        *)
(* meaning that FilenameAudit gives the names, what it says of these.      *)
(* NameFormAssumption is used by the last of them alone.                   *)
(***************************************************************************)
EXTENDS PassProofs, FilenameAudit, FiniteSetTheorems

----------------------------------------------------------------------------
(* ArchiveVerdict's copies of the operators of ZipRecords are the same.    *)

LEMMA SameFlag == \A c, k : Verdict!Flag(c, k) = Flag(c, k)
BY DEF Verdict!Flag, Flag

LEMMA SameInt64 == \A u : Verdict!Int64(u) = Int64(u)
BY DEF Verdict!Int64, Int64

LEMMA SameKindsOf == \A s : Verdict!KindsOf(s) = KindsOf(s)
BY DEF Verdict!KindsOf, KindsOf

LEMMA SameZIP64Block ==
    \A w, u, c, o : Verdict!parseZIP64Block(w, u, c, o) = parseZIP64Block(w, u, c, o)
BY DEF Verdict!parseZIP64Block, parseZIP64Block

LEMMA SameZIP64Extra ==
    \A x, u, c, o : Verdict!parseZIP64Extra(x, u, c, o) = parseZIP64Extra(x, u, c, o)
BY SameZIP64Block DEF Verdict!parseZIP64Extra, parseZIP64Extra

LEMMA SameSizes ==
    \A reg, z : /\ Verdict!effectiveCompressedSize(reg, z) = effectiveCompressedSize(reg, z)
                /\ Verdict!effectiveUncompressedSize(reg, z) = effectiveUncompressedSize(reg, z)
BY DEF Verdict!effectiveCompressedSize, effectiveCompressedSize,
       Verdict!effectiveUncompressedSize, effectiveUncompressedSize

LEMMA SameDiff ==
    \A cd, cz, l, lz : Verdict!diffEntries(cd, cz, l, lz) = diffEntries(cd, cz, l, lz)
<1>1. \A cd, cz, l, lz : Verdict!diffSizes(cd, cz, l, lz) = diffSizes(cd, cz, l, lz)
    BY SameFlag, SameSizes, Zenon DEF Verdict!diffSizes, diffSizes
<1> QED
    BY <1>1, SameFlag, Zenon DEF Verdict!diffEntries, diffEntries

LEMMA SameNewEntry == \A rec : Verdict!NewEntry(rec) = NewEntry(rec)
BY SameZIP64Extra, SameInt64 DEF Verdict!NewEntry, NewEntry

LEMMA SameAttach == \A e, l : Verdict!AttachLFH(e, l) = AttachLFH(e, l)
<1>1. \A l : Verdict!LocalZIP64(l) = LocalZIP64(l)
    BY SameZIP64Extra DEF Verdict!LocalZIP64, LocalZIP64
<1> QED
    BY <1>1, SameFlag, SameDiff, Zenon DEF Verdict!AttachLFH, AttachLFH

LEMMA SameReads ==
    /\ \A z : Verdict!ZIP64Readable(z) = ZIP64Readable(z)
    /\ \A f, o : Verdict!SigningBlockOf(f, o) = SigningBlockOf(f, o)
    /\ \A f, o : Verdict!CDRecords(f, o) = CDRecords(f, o)
    /\ \A f, o : Verdict!LFHReadable(f, o) = LFHReadable(f, o)
    /\ \A n : Verdict!IsDir(n) = IsDir(n)
BY SameInt64 DEF Verdict!ZIP64Readable, ZIP64Readable, Verdict!SigningBlockOf, SigningBlockOf,
       Verdict!CDRecords, CDRecords, Verdict!LFHReadable, LFHReadable, Verdict!IsDir, IsDir

LEMMA SameManifestIssues ==
    /\ \A e : Verdict!CompSize(e) = CompSize(e)
    /\ \A f, e : Verdict!ManifestIssues(f, e) = ManifestIssues(f, e)
<1>1. \A e : Verdict!CompSize(e) = CompSize(e) /\ Verdict!UncompSize(e) = UncompSize(e)
    BY SameSizes DEF Verdict!CompSize, CompSize, Verdict!UncompSize, UncompSize
<1>2. \A e : Verdict!InflateLimit(e) = InflateLimit(e)
    BY <1>1, SameInt64 DEF Verdict!InflateLimit, InflateLimit
<1>3. \A f, e : Verdict!DataUnreadable(f, e) = DataUnreadable(f, e)
    BY <1>1, <1>2 DEF Verdict!DataUnreadable, DataUnreadable
<1> QED
    BY <1>1, <1>2, <1>3 DEF Verdict!ManifestIssues, ManifestIssues

LEMMA SameIsFile == \A f : Verdict!IsFile(f) = IsFile(f)
BY DEF Verdict!IsFile, IsFile, Verdict!FileOfSize, FileOfSize, Verdict!Ptr, Ptr,
       Verdict!EndOfCentralDirectory, EndOfCentralDirectory, Verdict!ZIP64EOCD, ZIP64EOCD,
       Verdict!SigningBlock, SigningBlock, Verdict!CentralDirectoryRecord, CentralDirectoryRecord,
       Verdict!LocalFileHeader, LocalFileHeader, Verdict!Content, Content,
       Verdict!U16, U16, Verdict!U32, U32, Verdict!U64, U64, Verdict!GPBF, GPBF,
       Verdict!Compression, Compression, Verdict!ExtraBlock, ExtraBlock,
       Verdict!ArchiveKind, ArchiveKind, Verdict!AXMLKind, AXMLKind

----------------------------------------------------------------------------
(* The kinds of issue in a sequence.                                       *)

LEMMA KindsType ==
    ASSUME NEW S, NEW s \in Seq(S)
    PROVE  /\ KindsOf(s) \subseteq S
           /\ KindsOf(s) = {} <=> s = << >>
<1>1. DOMAIN s = 1..Len(s) /\ Len(s) \in Nat /\ (Len(s) = 0 <=> s = << >>)
    BY LenProperties, EmptySeq
<1>2. s # << >> => 1 \in DOMAIN s
    BY <1>1
<1>3. KindsOf(s) \subseteq S
    BY <1>1, ElementOfSeq DEF KindsOf
<1>4. KindsOf(s) = {} => s = << >>
    BY <1>2 DEF KindsOf
<1>5. s = << >> => KindsOf(s) = {}
    BY DEF KindsOf
<1> QED
    BY <1>3, <1>4, <1>5

LEMMA KindsConcat ==
    ASSUME NEW S, NEW s \in Seq(S), NEW t \in Seq(S)
    PROVE  KindsOf(s \o t) = KindsOf(s) \cup KindsOf(t)
<1>1. ASSUME NEW k PROVE k \in KindsOf(s \o t) <=> k \in KindsOf(s) \cup KindsOf(t)
    <2>1. Reports(s \o t, {k}) <=> Reports(s, {k}) \/ Reports(t, {k})
        BY ReportsConcat
    <2> QED
        BY <2>1 DEF Reports, KindsOf
<1> QED
    BY <1>1

LEMMA KindsReported ==
    ASSUME NEW s, NEW K
    PROVE  Reports(s, K) <=> KindsOf(s) \cap K # {}
BY DEF Reports, KindsOf

----------------------------------------------------------------------------
(* The invariants of a whole run.                                          *)

AfterManifest == {"BuildReport", "reportEntries", "output"}
AfterAudit == {"pickManifest", "analyzeManifest"} \cup AfterManifest
AfterTable == {"readLocalHeaders"} \cup AfterHeaders
AfterAlloc == {"readCentralDirectory"} \cup AfterTable
AfterBlock == {"seekCD"} \cup AfterAlloc
AfterEnds == {"FindSigningBlock"} \cup AfterBlock

\* What the end records have settled, and the archive's own issues so far.
HeadInv ==
    /\ pc # "exit" => exitCode = -1
    /\ pc \notin {"reportEntries", "output", "exit"} => issueCount = 0
    /\ pc \in {"main", "findEOCD", "findZIP64EOCD"} => archiveIssues = << >>
    /\ pc = "findZIP64EOCD" => /\ file.eocd # << >>
                               /\ cdOffset = file.eocd[1].cdOffset
                               /\ entryCount = file.eocd[1].entries
    /\ pc \in AfterEnds => /\ file.eocd # << >>
                           /\ file.zip64 # << >> => ZIP64Readable(file.zip64[1])
                           /\ cdOffset = Verdict!DirectoryOffset(file)
                           /\ entryCount = Verdict!DirectoryCount(file)
    /\ pc = "FindSigningBlock" =>
          KindsOf(archiveIssues) = IF Verdict!Split(file) THEN {"zip64_eocd_mismatch"} ELSE {}
    /\ pc \in AfterBlock => /\ SigningBlockOf(file, cdOffset).status \in {"absent", "found"}
                            /\ KindsOf(archiveIssues) = Verdict!HeadVerdict(file)
    /\ pc \in AfterAlloc => cdOffset >= 0 /\ entryCount \in 0..MaxEntryCap

\* The entry that readCDRecord builds from the record of this number.
Row(i) == NewEntry(CDRecords(file, cdOffset)[i])
SameRow(e, r) == e.cd = r.cd /\ e.zip64 = r.zip64 /\ e.lfhOffset = r.lfhOffset

\* The entry table is that of the file, as far as it has been read.
TableInv ==
    pc # "exit" =>
        /\ pc \notin AfterAlloc => N = 0
        /\ pc \in AfterAlloc => N <= entryCount /\ N <= Len(CDRecords(file, cdOffset))
        /\ pc \in AfterTable => N = entryCount
        /\ \A i \in 1..N : SameRow(entries[i], Row(i))

\* What readLocalHeaders has made of the entry e that was r.
HeaderDone(f, r, e) ==
    /\ KindsOf(e.issues) \cap HeaderKind = Verdict!HeaderKinds(f, r)
    /\ r.lfhOffset < f.size => /\ LFHReadable(f, r.lfhOffset)
                               /\ e.dataOffset = r.lfhOffset + f.lfhAt[r.lfhOffset].len

HeaderInv ==
    pc # "exit" =>
        \A i \in 1..N : IF i <= HeaderScanned THEN HeaderDone(file, Row(i), entries[i])
                        ELSE KindsOf(entries[i].issues) \cap HeaderKind = {}

AuditScanned == Scanned("auditFilenames", AfterAudit)

AuditInv ==
    pc # "exit" =>
        \A i \in 1..N : KindsOf(entries[i].issues) \cap FilenameKind
                          = IF i <= AuditScanned THEN KindsOf(AuditOf[NameOf(i)]) ELSE {}

\* analyzeManifest has chosen, allocated and analysed what it had to.
AnalysisInv ==
    pc # "exit" =>
        /\ pc \in AfterManifest /\ manifest # 0 => CompSize(entries[manifest]) <= MaxByteLen
        /\ \A i \in 1..N : KindsOf(entries[i].issues) \cap AXMLKind
                             = IF pc \in AfterManifest /\ i = manifest
                               THEN KindsOf(ManifestIssues(file, entries[i])) ELSE {}

\* The archive's own issues are never an entry's.
KindInv == \A i \in 1..N : KindsOf(entries[i].issues) \cap ArchiveKind = {}

----------------------------------------------------------------------------
(* The end records and the archive's own issues.                           *)

LEMMA KindsFlag ==
    ASSUME NEW c, NEW k
    PROVE  KindsOf(Flag(c, k)) = IF c THEN {k} ELSE {}
BY DEF KindsOf, Flag

LEMMA FlagsConcat ==
    ASSUME NEW c \in BOOLEAN, NEW d \in BOOLEAN, NEW k
    PROVE  KindsOf(<< >> \o Flag(c, k) \o Flag(d, k)) = IF c \/ d THEN {k} ELSE {}
<1> DEFINE x == Flag(c, k)
           y == Flag(d, k)
<1>1. x \in Seq({k}) /\ y \in Seq({k})
    BY FlagType
<1>2. KindsOf(x) = (IF c THEN {k} ELSE {}) /\ KindsOf(y) = IF d THEN {k} ELSE {}
    BY KindsFlag
<1> HIDE DEF x, y
<1>3. << >> \o x = x
    BY <1>1, ConcatEmptySeq
<1>4. KindsOf(x \o y) = KindsOf(x) \cup KindsOf(y)
    BY <1>1, KindsConcat
<1>5. KindsOf((<< >> \o x) \o y) = IF c \/ d THEN {k} ELSE {}
    BY <1>2, <1>3, <1>4
<1> QED
    BY <1>5 DEF x, y

LEMMA HeadPassed ==
    ASSUME TypeOK, HeadInv, Passes
    PROVE  HeadInv'
<1> USE DEF headVars, nameVars, reportVars
<1>1. /\ file' = file /\ cdOffset' = cdOffset /\ entryCount' = entryCount
      /\ archiveIssues' = archiveIssues /\ exitCode' = exitCode
      /\ pc \in AfterTable /\ pc' \in AfterTable
      /\ pc' \notin {"reportEntries", "output"} =>
            issueCount' = issueCount /\ pc \notin {"reportEntries", "output"}
    BY DEF Passes, FlagOffsetOutOfRange, ReadLocalHeader, LoopDone, RecordName, FlagDuplicate,
       GatherName, FlagConflict, AuditFilename, PickManifest, NoManifest, AnalyzeManifest,
       CountArchiveIssues, ReportEntry, InLoop, AfterTable, AfterHeaders, AfterDuplicates,
       AfterConflicts, AfterPick
<1>2. \A q \in AfterTable : /\ q \in AfterEnds /\ q \in AfterBlock /\ q \in AfterAlloc
                            /\ q \notin {"main", "findEOCD", "findZIP64EOCD",
                                         "FindSigningBlock", "exit"}
    BY DEF AfterTable, AfterEnds, AfterBlock, AfterAlloc, AfterHeaders, AfterDuplicates,
       AfterConflicts, AfterPick
<1> QED
    BY <1>1, <1>2 DEF HeadInv

LEMMA HeadHeads ==
    ASSUME TypeOK, HeadInv, Heads
    PROVE  HeadInv'
<1> USE DEF headVars, nameVars, reportVars
<1> DEFINE Early == {"main", "findEOCD", "findZIP64EOCD", "FindSigningBlock", "seekCD",
                     "readCentralDirectory", "readLocalHeaders"}
<1>1. /\ \A q \in Early : /\ q \in AfterEnds <=> q \notin {"main", "findEOCD", "findZIP64EOCD"}
                          /\ q \in AfterBlock <=> q \in {"seekCD", "readCentralDirectory",
                                                         "readLocalHeaders"}
                          /\ q \in AfterAlloc <=> q \in {"readCentralDirectory",
                                                         "readLocalHeaders"}
    BY DEF AfterTable, AfterEnds, AfterBlock, AfterAlloc, AfterHeaders, AfterDuplicates,
       AfterConflicts, AfterPick
<1>2. /\ file' = file /\ exitCode' = exitCode /\ issueCount' = issueCount
      /\ pc \in Early /\ pc' \in Early
      /\ pc # "readLocalHeaders" /\ pc' # "main"
    BY DEF Heads, OpenFile, FindEOCD, NotZIP64, FindZIP64EOCD, FindSigningBlock,
           AllocateEntries, ReadCDRecord, CentralDirectoryRead
<1>3. /\ exitCode = -1 /\ issueCount = 0
      /\ pc' \notin {"reportEntries", "output", "exit"}
    BY <1>2 DEF HeadInv
<1>4. CASE OpenFile
    BY <1>1, <1>2, <1>3, <1>4 DEF OpenFile, HeadInv
<1>5. CASE FindEOCD
    BY <1>1, <1>2, <1>3, <1>5 DEF FindEOCD, HeadInv
<1>6. CASE NotZIP64
    <2>1. ~Verdict!Split(file)
        BY <1>6 DEF NotZIP64, Verdict!Split
    <2>2. KindsOf(archiveIssues') = {}
        BY <1>6 DEF NotZIP64, HeadInv, KindsOf
    <2>3. /\ Verdict!DirectoryOffset(file) = file.eocd[1].cdOffset
          /\ Verdict!DirectoryCount(file) = file.eocd[1].entries
        BY <1>6 DEF NotZIP64, Verdict!DirectoryOffset, Verdict!DirectoryCount
    <2> QED
        BY <1>1, <1>2, <1>3, <1>6, <2>1, <2>2, <2>3 DEF NotZIP64, HeadInv
<1>7. CASE FindZIP64EOCD
    <2> DEFINE z == file.zip64[1]
               e == file.eocd[1]
               c == e.cdOffset # Sentinel32 /\ e.cdOffset # z.cdOffset
               d == e.entries # Sentinel16 /\ e.entries # z.entries
    <2>1. /\ pc = "findZIP64EOCD" /\ pc' = "FindSigningBlock"
          /\ file.zip64 # << >> /\ ZIP64Readable(z)
          /\ archiveIssues' = archiveIssues \o Flag(c, "zip64_eocd_mismatch")
                                            \o Flag(d, "zip64_eocd_mismatch")
          /\ cdOffset' = Int64(z.cdOffset) /\ entryCount' = Int64(z.entries)
        BY <1>7 DEF FindZIP64EOCD
    <2>2. archiveIssues = << >> /\ file.eocd # << >>
        BY <2>1 DEF HeadInv
    <2>3. Verdict!Split(file) <=> c \/ d
        BY <2>1 DEF Verdict!Split
    <2>4. KindsOf(archiveIssues') = IF c \/ d THEN {"zip64_eocd_mismatch"} ELSE {}
        BY <2>1, <2>2, FlagsConcat
    <2>5. /\ Verdict!DirectoryOffset(file) = Int64(z.cdOffset)
          /\ Verdict!DirectoryCount(file) = Int64(z.entries)
        BY <2>1, SameInt64 DEF Verdict!DirectoryOffset, Verdict!DirectoryCount
    <2> HIDE DEF c, d
    <2>6. KindsOf(archiveIssues') = IF Verdict!Split(file) THEN {"zip64_eocd_mismatch"} ELSE {}
        BY <2>3, <2>4
    <2> QED
        BY <1>1, <1>2, <1>3, <2>1, <2>2, <2>5, <2>6 DEF HeadInv
<1>8. CASE FindSigningBlock
    <2> DEFINE s == SigningBlockOf(file, cdOffset)
    <2>1. /\ pc = "FindSigningBlock" /\ pc' = "seekCD"
          /\ s.status \in {"absent", "found"}
          /\ archiveIssues' = IF s.status = "found" THEN archiveIssues \o s.issues
                              ELSE archiveIssues
          /\ cdOffset' = cdOffset /\ entryCount' = entryCount
        BY <1>8 DEF FindSigningBlock
    <2>2. s.issues \in Seq(ArchiveKind) /\ archiveIssues \in Seq(ArchiveKind)
        BY FileTypes DEF TypeOK
    <2>3. /\ cdOffset = Verdict!DirectoryOffset(file)
          /\ KindsOf(archiveIssues)
               = IF Verdict!Split(file) THEN {"zip64_eocd_mismatch"} ELSE {}
        BY <2>1 DEF HeadInv, AfterEnds
    <2>4. Verdict!SigningBlockOf(file, Verdict!DirectoryOffset(file)) = s
        BY <2>3, SameReads
    <2> HIDE DEF s
    <2>5. KindsOf(archiveIssues')
            = KindsOf(archiveIssues) \cup (IF s.status = "found" THEN KindsOf(s.issues) ELSE {})
        BY <2>1, <2>2, KindsConcat
    <2>6. KindsOf(archiveIssues') = Verdict!HeadVerdict(file)
        BY <2>3, <2>4, <2>5, SameKindsOf DEF Verdict!HeadVerdict
    <2> QED
        BY <1>1, <1>2, <1>3, <2>1, <2>6 DEF HeadInv, s
<1>9. CASE AllocateEntries
    BY <1>1, <1>2, <1>3, <1>9 DEF AllocateEntries, HeadInv
<1>10. CASE ReadCDRecord \/ CentralDirectoryRead
    BY <1>1, <1>2, <1>3, <1>10 DEF ReadCDRecord, CentralDirectoryRead, HeadInv
<1> QED
    BY <1>4, <1>5, <1>6, <1>7, <1>8, <1>9, <1>10 DEF Heads

LEMMA HeadStep ==
    ASSUME TypeOK, HeadInv, [Next]_vars
    PROVE  HeadInv'
<1>1. CASE Stops
    BY <1>1, StopsStop DEF Stop, HeadInv, AfterEnds, AfterBlock, AfterAlloc, AfterTable,
       AfterHeaders, AfterDuplicates, AfterConflicts, AfterPick
<1>2. CASE UNCHANGED vars
    BY <1>2 DEF vars, headVars, nameVars, reportVars, HeadInv
<1> QED
    BY <1>1, <1>2, HeadHeads, HeadPassed DEF Next, Terminated

LEMMA HeadInit == Init => HeadInv
BY DEF Init, HeadInv, AfterEnds, AfterBlock, AfterAlloc, AfterTable, AfterHeaders,
   AfterDuplicates, AfterConflicts, AfterPick

----------------------------------------------------------------------------
(* The entry table.                                                        *)

\* What a pass leaves alone.
LEMMA PassFrame ==
    ASSUME TypeOK, Passes
    PROVE  /\ file' = file /\ cdOffset' = cdOffset /\ entryCount' = entryCount
           /\ pc \in AfterTable /\ pc' \in AfterTable
           /\ N \in Nat /\ N' = N
           /\ \A i \in 1..N : /\ NameOf(i)' = NameOf(i)
                              /\ Row(i)' = Row(i)
<1>1. /\ file' = file /\ cdOffset' = cdOffset /\ entryCount' = entryCount
      /\ pc \in AfterTable /\ pc' \in AfterTable
    BY DEF Passes, FlagOffsetOutOfRange, ReadLocalHeader, LoopDone, RecordName, FlagDuplicate,
       GatherName, FlagConflict, AuditFilename, PickManifest, NoManifest, AnalyzeManifest,
       CountArchiveIssues, ReportEntry, InLoop, AfterTable, AfterHeaders, AfterDuplicates,
       AfterConflicts, AfterPick, headVars
<1>2. \A i \in 1..N : Row(i)' = Row(i)
    BY <1>1 DEF Row
<1> QED
    BY <1>1, <1>2, PassNames, EntryTypes

LEMMA TablePasses ==
    ASSUME TypeOK, TableInv, Passes
    PROVE  TableInv'
<1>1. \A q \in AfterTable : q \in AfterAlloc /\ q # "exit"
    BY DEF AfterTable, AfterAlloc, AfterHeaders, AfterDuplicates, AfterConflicts, AfterPick
<1>2. /\ N' = N /\ N <= entryCount /\ N <= Len(CDRecords(file, cdOffset))
      /\ N = entryCount
      /\ \A i \in 1..N : SameRow(entries[i], Row(i))
    BY <1>1, PassFrame DEF TableInv
<1>3. ASSUME NEW i \in 1..N PROVE SameRow(entries'[i], Row(i))
    BY <1>2, PassIssues DEF SameRow
<1>4. \A i \in 1..N' : SameRow(entries'[i], Row(i)')
    BY <1>2, <1>3, PassFrame
<1> QED
    BY <1>1, <1>2, <1>4, PassFrame DEF TableInv

LEMMA TableHeads ==
    ASSUME TypeOK, HeadInv, TableInv, Heads
    PROVE  TableInv'
<1> USE DEF headVars, nameVars, reportVars
<1> DEFINE Early == {"main", "findEOCD", "findZIP64EOCD", "FindSigningBlock", "seekCD",
                     "readCentralDirectory", "readLocalHeaders"}
<1>1. \A q \in Early : /\ q \in AfterAlloc <=> q \in {"readCentralDirectory", "readLocalHeaders"}
                       /\ q \in AfterTable <=> q = "readLocalHeaders"
                       /\ q # "exit"
    BY DEF AfterTable, AfterAlloc, AfterHeaders, AfterDuplicates, AfterConflicts, AfterPick
<1>2. N \in Nat /\ entryCount \in Int /\ entries \in Seq(Entry)
    BY EntryTypes DEF TypeOK
<1>3. CDRecords(file, cdOffset) \in Seq(CentralDirectoryRecord)
    BY FileTypes DEF TypeOK
<1>4. CASE ReadCDRecord
    <2> DEFINE R == CDRecords(file, cdOffset)
               e == NewEntry(R[N + 1])
    <2>1. /\ pc = "readCentralDirectory" /\ pc' = pc
          /\ N < entryCount /\ N < Len(R)
          /\ entries' = Append(entries, e)
          /\ file' = file /\ cdOffset' = cdOffset /\ entryCount' = entryCount
        BY <1>4 DEF ReadCDRecord
    <2>2. \A i \in 1..N : SameRow(entries[i], Row(i))
        BY <1>1, <2>1 DEF TableInv
    <2>3. R[N + 1] \in CentralDirectoryRecord /\ Len(R) \in Nat
        <3>1. Len(R) \in Nat /\ N + 1 \in 1..Len(R)
            BY <1>2, <1>3, <2>1, LenProperties
        <3> HIDE DEF R
        <3> QED
            BY <1>3, <3>1, ElementOfSeq DEF R
    <2>4. e \in Entry
        BY <2>3, NewEntryType
    <2>5. e = Row(N + 1)
        BY DEF Row
    <2> HIDE DEF R, e
    <2>6. /\ N' = N + 1
          /\ \A i \in 1..(N + 1) : entries'[i] = IF i = N + 1 THEN e ELSE entries[i]
        BY <1>2, <2>1, <2>4, AppendProperties DEF N
    <2>7. \A i \in 1..N' : SameRow(entries'[i], Row(i)')
        <3>1. \A i \in 1..N' : Row(i)' = Row(i)
            BY <2>1 DEF Row
        <3>2. \A i \in 1..(N + 1) : i \in 1..N \/ i = N + 1
            BY <1>2
        <3>3. \A i \in 1..(N + 1) : SameRow(entries'[i], Row(i))
            BY <2>2, <2>5, <2>6, <3>2 DEF SameRow
        <3> QED
            BY <2>6, <3>1, <3>3
    <2>8. N' <= entryCount' /\ N' <= Len(CDRecords(file, cdOffset)')
        BY <1>2, <2>1, <2>3, <2>6 DEF R
    <2> QED
        BY <1>1, <2>1, <2>7, <2>8 DEF TableInv
<1>5. CASE CentralDirectoryRead
    <2>1. /\ pc = "readCentralDirectory" /\ pc' = "readLocalHeaders" /\ N >= entryCount
          /\ entries' = entries /\ N' = N
          /\ file' = file /\ cdOffset' = cdOffset /\ entryCount' = entryCount
          /\ \A i \in 1..N : Row(i)' = Row(i)
        BY <1>5 DEF CentralDirectoryRead, N, Row
    <2>2. /\ N <= entryCount /\ N <= Len(CDRecords(file, cdOffset))
          /\ \A i \in 1..N : SameRow(entries[i], Row(i))
        BY <1>1, <2>1 DEF TableInv
    <2>3. \A i \in 1..N' : SameRow(entries'[i], Row(i)')
        BY <2>1, <2>2
    <2>4. N = entryCount
        BY <1>2, <2>1, <2>2
    <2> QED
        BY <1>1, <2>1, <2>2, <2>3, <2>4 DEF TableInv
<1>6. CASE AllocateEntries
    <2>1. /\ pc = "seekCD" /\ pc' = "readCentralDirectory" /\ entryCount >= 0
          /\ entries' = entries /\ N' = N
          /\ file' = file /\ cdOffset' = cdOffset /\ entryCount' = entryCount
        BY <1>6 DEF AllocateEntries, N
    <2>2. N = 0
        BY <1>1, <2>1 DEF TableInv
    <2>3. Len(CDRecords(file, cdOffset)) >= 0
        BY <1>3, LenProperties
    <2> QED
        BY <1>1, <1>2, <2>1, <2>2, <2>3 DEF TableInv
<1>7. CASE OpenFile \/ FindEOCD \/ NotZIP64 \/ FindZIP64EOCD \/ FindSigningBlock
    <2>1. /\ pc \in Early /\ pc' \in Early
          /\ pc \notin {"readCentralDirectory", "readLocalHeaders"}
          /\ pc' \notin {"readCentralDirectory", "readLocalHeaders"}
          /\ N' = N
        BY <1>7 DEF OpenFile, FindEOCD, NotZIP64, FindZIP64EOCD, FindSigningBlock, N
    <2>2. N = 0
        BY <1>1, <2>1 DEF TableInv
    <2> QED
        BY <1>1, <2>1, <2>2 DEF TableInv
<1> QED
    BY <1>4, <1>5, <1>6, <1>7 DEF Heads

LEMMA TableStep ==
    ASSUME TypeOK, HeadInv, TableInv, [Next]_vars
    PROVE  TableInv'
<1>1. CASE Stops
    BY <1>1, StopsStop DEF Stop, TableInv
<1>2. CASE UNCHANGED vars
    BY <1>2 DEF vars, headVars, TableInv, N, Row
<1> QED
    BY <1>1, <1>2, TableHeads, TablePasses DEF Next, Terminated

LEMMA TableInit == Init => TableInv
BY DEF Init, TableInv, AfterAlloc, AfterTable, AfterHeaders, AfterDuplicates, AfterConflicts,
   AfterPick, N

\* A pass adds kinds of its own and leaves the others.
LEMMA PassKinds ==
    ASSUME TypeOK, Passes, NEW i \in 1..N, NEW K, PassKind(pc) \cap K = {}
    PROVE  KindsOf(entries'[i].issues) \cap K = KindsOf(entries[i].issues) \cap K
<1>1. PICK t \in Seq(PassKind(pc)) : entries'[i].issues = entries[i].issues \o t
    BY PassIssues
<1>2. PassKind(pc) \subseteq IssueKind
    BY DEF PassKind, HeaderKind, IssueKind, EntryKind, TypeOK, Label
<1>3. t \in Seq(IssueKind) /\ entries[i].issues \in Seq(IssueKind)
    BY <1>2, EntryTypes, SeqMonotonic
<1>4. KindsOf(t) \subseteq PassKind(pc)
    BY KindsType
<1>5. KindsOf(entries'[i].issues) = KindsOf(entries[i].issues) \cup KindsOf(t)
    BY <1>1, <1>3, KindsConcat
<1> QED
    BY <1>4, <1>5

\* Before the passes no entry has an issue.
LEMMA HeadsFresh ==
    ASSUME TypeOK, LoopInv, Heads
    PROVE  /\ pc' \in HeadLabel \cup {"readLocalHeaders"} /\ cur' = 1
           /\ \A i \in 1..N' : entries'[i].issues = << >>
<1>1. LoopInv' /\ TypeOK'
    BY LoopHeads, TypeHeads
<1>2. /\ pc \in HeadLabel /\ pc' \in HeadLabel \cup {"readLocalHeaders"} /\ cur' = cur
    BY DEF Heads, OpenFile, FindEOCD, NotZIP64, FindZIP64EOCD, FindSigningBlock,
           AllocateEntries, ReadCDRecord, CentralDirectoryRead, HeadLabel
<1>3. cur = 1 /\ pc' # "exit"
    BY <1>2 DEF LoopInv, HeadLabel
<1>4. \A i \in 1..N' : i >= cur' /\ i \in Int
    BY <1>2, <1>3
<1>5. \A i \in 1..N' : Fresh(entries'[i])
    BY <1>1, <1>2, <1>3, <1>4 DEF LoopInv
<1> QED
    BY <1>2, <1>3, <1>5 DEF Fresh

LEMMA KindStep ==
    ASSUME TypeOK, LoopInv, KindInv, [Next]_vars
    PROVE  KindInv'
<1>1. CASE Passes
    <2>1. PassKind(pc) \cap ArchiveKind = {}
        BY DEF PassKind, ArchiveKind, HeaderKind, EntryKind, FilenameKind, AXMLKind
    <2> QED
        BY <1>1, <2>1, PassKinds, PassFrame DEF KindInv
<1>2. CASE Heads
    BY <1>2, HeadsFresh DEF KindInv, KindsOf
<1>3. CASE Stops \/ UNCHANGED vars
    <2>1. entries' = entries
        BY <1>3, StopsStop DEF Stop, vars
    <2> QED
        BY <2>1 DEF KindInv, N
<1> QED
    BY <1>1, <1>2, <1>3 DEF Next, Terminated

----------------------------------------------------------------------------
(* readLocalHeaders: the issues that come from comparing two headers.      *)

\* The rows of the table are entries without issues.
LEMMA RowType ==
    ASSUME TypeOK, TableInv, pc \in AfterTable, NEW i \in 1..N
    PROVE  /\ Row(i) \in Entry
           /\ Row(i).issues = << >> /\ Row(i).lfh = << >> /\ Row(i).dataOffset = 0
           /\ SameRow(entries[i], Row(i))
           /\ Fresh(entries[i]) => entries[i] = Row(i)
<1> DEFINE R == CDRecords(file, cdOffset)
<1>1. pc # "exit" /\ pc \in AfterAlloc
    BY DEF AfterAlloc, AfterTable, AfterHeaders, AfterDuplicates, AfterConflicts, AfterPick
<1>2. N <= Len(R) /\ SameRow(entries[i], Row(i)) /\ N \in Nat
    BY <1>1, EntryTypes DEF TableInv
<1>3. R \in Seq(CentralDirectoryRecord)
    BY FileTypes DEF TypeOK
<1>4. R[i] \in CentralDirectoryRecord
    <2>1. i \in 1..Len(R)
        <3> HIDE DEF R
        <3> QED
            BY <1>2, <1>3, LenProperties
    <2> HIDE DEF R
    <2> QED
        BY <1>3, <2>1, ElementOfSeq
<1>5. /\ Row(i) \in Entry
      /\ Row(i).issues = << >> /\ Row(i).lfh = << >> /\ Row(i).dataOffset = 0
    BY <1>4, NewEntryType DEF Row
<1>6. entries[i] \in Entry
    BY EntryTypes
<1>7. ASSUME Fresh(entries[i]) PROVE entries[i] = Row(i)
    <2>1. ASSUME NEW e \in Entry, NEW r \in Entry, SameRow(e, r), Fresh(e), Fresh(r)
          PROVE  e = r
        BY <2>1 DEF Entry, SameRow, Fresh
    <2>2. Fresh(Row(i))
        BY <1>5 DEF Fresh
    <2> QED
        BY <1>2, <1>5, <1>6, <1>7, <2>1, <2>2
<1> QED
    BY <1>2, <1>5, <1>7

LEMMA FlaggedDone ==
    ASSUME TypeOK, LoopInv, TableInv, FlagOffsetOutOfRange
    PROVE  HeaderDone(file, Row(cur), entries'[cur])
<1> DEFINE t == <<"lfh_offset_out_of_range">>
<1>1. /\ cur \in 1..N /\ pc \in AfterTable
      /\ entries' = AppendIssues(entries, cur, t)
      /\ entries[cur].lfhOffset >= file.size
      /\ Fresh(entries[cur])
    BY InLoopRange DEF FlagOffsetOutOfRange, InLoop, LoopInv, TypeOK, AfterTable
<1>2. t \in Seq(IssueKind) /\ KindsOf(t) = {"lfh_offset_out_of_range"}
    BY DEF IssueKind, EntryKind, KindsOf
<1>3. "lfh_offset_out_of_range" \in HeaderKind
    BY DEF HeaderKind, EntryKind
<1> HIDE DEF t
<1>4. entries'[cur].issues = entries[cur].issues \o t
    BY <1>1, <1>2, IssuesAdded
<1>5. KindsOf(entries'[cur].issues) = {"lfh_offset_out_of_range"}
    BY <1>1, <1>2, <1>4, ConcatEmptySeq DEF Fresh
<1>6. file.size \in Nat /\ Row(cur).lfhOffset \in Int /\ Row(cur).lfhOffset >= file.size
    BY <1>1, RowType DEF SameRow, TypeOK, IsFile, Entry
<1>7. ~(Row(cur).lfhOffset < file.size)
    BY <1>6
<1>8. Verdict!HeaderKinds(file, Row(cur)) = {"lfh_offset_out_of_range"}
    BY <1>7 DEF Verdict!HeaderKinds, Verdict!InRange
<1> QED
    BY <1>3, <1>5, <1>7, <1>8 DEF HeaderDone

LEMMA AttachedDone ==
    ASSUME TypeOK, LoopInv, TableInv, ReadLocalHeader
    PROVE  HeaderDone(file, Row(cur), entries'[cur])
<1> DEFINE r == Row(cur)
           l == file.lfhAt[r.lfhOffset]
<1>1. cur \in 1..N /\ pc \in AfterTable /\ Fresh(entries[cur])
    BY InLoopRange DEF ReadLocalHeader, InLoop, LoopInv, TypeOK, AfterTable
<1>2. entries[cur] = r /\ r \in Entry /\ r.issues = << >>
    BY <1>1, RowType
<1>3. /\ r.lfhOffset \in 0..(file.size - 1)
      /\ l \in LocalFileHeader
      /\ entries'[cur] = AttachLFH(r, l)
    BY <1>2, HeaderAttached
<1>4. file.size \in Nat /\ r.lfhOffset < file.size /\ r.lfhOffset >= 0
    BY <1>3 DEF TypeOK, IsFile
<1>5. LFHReadable(file, r.lfhOffset)
    BY <1>2 DEF ReadLocalHeader
<1>6. Verdict!HeaderKinds(file, r) = KindsOf(AttachLFH(r, l).issues)
    BY <1>4, SameKindsOf, SameAttach DEF Verdict!HeaderKinds, Verdict!InRange
<1> HIDE DEF r, l
<1>7. /\ AttachLFH(r, l).dataOffset = r.lfhOffset + l.len
      /\ \E s \in Seq(HeaderKind) : AttachLFH(r, l).issues = r.issues \o s
    BY <1>2, <1>3, <1>4, AttachType
<1>8. KindsOf(AttachLFH(r, l).issues) \subseteq HeaderKind
    BY <1>2, <1>7, ConcatEmptySeq, KindsType
<1> QED
    BY <1>3, <1>5, <1>6, <1>7, <1>8 DEF HeaderDone, r, l

LEMMA HeaderInvPasses ==
    ASSUME TypeOK, LoopInv, TableInv, HeaderInv, Passes
    PROVE  HeaderInv'
<1> DEFINE None(e) == KindsOf(e.issues) \cap HeaderKind = {}
           Part(i, m, e) == IF i <= m THEN HeaderDone(file, Row(i), e) ELSE None(e)
<1>1. /\ N \in Nat /\ N' = N /\ file' = file /\ cur \in Nat \ {0}
      /\ \A i \in 1..N : Row(i)' = Row(i)
    BY PassFrame DEF TypeOK
<1>2. \A i \in 1..N : Part(i, HeaderScanned, entries[i])
    <2>1. pc # "exit"
        BY PassFrame DEF AfterTable, AfterHeaders, AfterDuplicates, AfterConflicts, AfterPick
    <2> QED
        BY <2>1 DEF HeaderInv
<1>3. SUFFICES \A i \in 1..N : Part(i, HeaderScanned', entries'[i])
    BY <1>1 DEF HeaderInv
<1>4. CASE FlagOffsetOutOfRange \/ ReadLocalHeader
    <2>1. /\ cur \in 1..N /\ pc = "readLocalHeaders" /\ pc' = pc /\ cur' = cur + 1
          /\ HeaderDone(file, Row(cur), entries'[cur])
          /\ \A i \in 1..N : i # cur => /\ entries'[i].issues = entries[i].issues
                                        /\ entries'[i].dataOffset = entries[i].dataOffset
        BY <1>4, FlaggedAccounted, FlaggedDone, AttachedAccounted, AttachedDone
           DEF FlagOffsetOutOfRange, ReadLocalHeader, InLoop
    <2>2. HeaderScanned = cur - 1 /\ HeaderScanned' = cur
        BY <1>1, <2>1 DEF HeaderScanned, Scanned
    <2>3. ASSUME NEW i \in 1..N, i # cur PROVE Part(i, cur, entries'[i])
        <3>1. i <= cur - 1 <=> i <= cur
            BY <1>1, <2>3
        <3>2. Part(i, cur - 1, entries[i])
            BY <1>2, <2>2
        <3> QED
            BY <2>1, <2>3, <3>1, <3>2 DEF HeaderDone
    <2>4. Part(cur, cur, entries'[cur])
        BY <1>1, <2>1
    <2> HIDE DEF Part
    <2> QED
        BY <2>2, <2>3, <2>4
<1>5. CASE LoopDone("readLocalHeaders", "detectDuplicates")
    <2>1. /\ entries' = entries /\ pc = "readLocalHeaders" /\ pc' = "detectDuplicates"
          /\ cur = N + 1
        BY <1>1, <1>5 DEF LoopDone, LoopInv
    <2>2. HeaderScanned = N /\ HeaderScanned' = N
        BY <1>1, <2>1 DEF HeaderScanned, Scanned, AfterHeaders, AfterDuplicates,
           AfterConflicts, AfterPick
    <2> QED
        BY <1>2, <2>1, <2>2
<1>6. CASE pc \in AfterHeaders /\ pc' \in AfterHeaders
    <2>1. HeaderScanned = N /\ HeaderScanned' = N /\ pc # "readLocalHeaders"
        BY <1>1, <1>6 DEF HeaderScanned, Scanned, AfterHeaders, AfterDuplicates,
           AfterConflicts, AfterPick
    <2>2. PassKind(pc) \cap HeaderKind = {}
        BY <2>1 DEF PassKind, HeaderKind, EntryKind, FilenameKind, AXMLKind, TypeOK, Label
    <2>3. ASSUME NEW i \in 1..N
          PROVE  /\ KindsOf(entries'[i].issues) \cap HeaderKind
                      = KindsOf(entries[i].issues) \cap HeaderKind
                 /\ entries'[i].dataOffset = entries[i].dataOffset
        BY <2>1, <2>2, PassKinds, PassIssues
    <2> QED
        BY <1>2, <2>1, <2>3 DEF HeaderDone
<1>7. \/ FlagOffsetOutOfRange \/ ReadLocalHeader
      \/ LoopDone("readLocalHeaders", "detectDuplicates")
      \/ pc \in AfterHeaders /\ pc' \in AfterHeaders
    BY DEF Passes, LoopDone, RecordName, FlagDuplicate, GatherName, FlagConflict, AuditFilename,
       PickManifest, NoManifest, AnalyzeManifest, CountArchiveIssues, ReportEntry, InLoop,
       AfterHeaders, AfterDuplicates, AfterConflicts, AfterPick
<1> QED
    BY <1>4, <1>5, <1>6, <1>7

LEMMA HeaderInvStep ==
    ASSUME TypeOK, LoopInv, TableInv, HeaderInv, [Next]_vars
    PROVE  HeaderInv'
<1>1. CASE Heads
    <2>1. HeaderScanned' = 0
        BY <1>1, HeadsFresh
           DEF HeaderScanned, Scanned, HeadLabel, AfterHeaders, AfterDuplicates,
              AfterConflicts, AfterPick
    <2>2. \A i \in 1..N' : ~(i <= 0) /\ KindsOf(entries'[i].issues) = {}
        BY <1>1, HeadsFresh DEF KindsOf
    <2> QED
        BY <2>1, <2>2 DEF HeaderInv
<1>2. CASE Stops
    BY <1>2, StopsStop DEF Stop, HeaderInv
<1>3. CASE UNCHANGED vars
    BY <1>3 DEF vars, headVars, HeaderInv, HeaderScanned, Scanned, N, Row
<1> QED
    BY <1>1, <1>2, <1>3, HeaderInvPasses DEF Next, Terminated

----------------------------------------------------------------------------
(* auditFilenames: what it says of a name, and no more.                    *)

LEMMA AuditInvPasses ==
    ASSUME TypeOK, LoopInv, AuditInv, Passes
    PROVE  AuditInv'
<1> DEFINE Before == {"readLocalHeaders", "detectDuplicates", "gatherNames",
                      "detectDirectoryConflicts"}
           Told(i, m) == IF i <= m THEN KindsOf(AuditOf[NameOf(i)]) ELSE {}
<1>1. /\ N \in Nat /\ N' = N /\ cur \in Nat \ {0}
      /\ \A i \in 1..N : NameOf(i) \in Name /\ NameOf(i)' = NameOf(i)
    BY PassFrame, EntryTypes DEF TypeOK
<1>2. \A i \in 1..N : KindsOf(entries[i].issues) \cap FilenameKind = Told(i, AuditScanned)
    <2>1. pc # "exit"
        BY PassFrame DEF AfterTable, AfterHeaders, AfterDuplicates, AfterConflicts, AfterPick
    <2> QED
        BY <2>1 DEF AuditInv
<1>3. SUFFICES \A i \in 1..N : KindsOf(entries'[i].issues) \cap FilenameKind
                                 = Told(i, AuditScanned')
    BY <1>1 DEF AuditInv
<1>4. CASE AuditFilename
    <2> DEFINE t == AuditOf[NameOf(cur)]
    <2>1. /\ cur \in 1..N /\ pc = "auditFilenames" /\ pc' = pc /\ cur' = cur + 1
          /\ entries' = AppendIssues(entries, cur, t)
        BY <1>4, InLoopRange DEF AuditFilename, InLoop
    <2>2. AuditScanned = cur - 1 /\ AuditScanned' = cur
        BY <1>1, <2>1 DEF AuditScanned, Scanned
    <2>3. t \in Seq(FilenameKind) /\ FilenameKind \subseteq IssueKind
        BY <1>1, <2>1, NameAssumption DEF IssueKind
    <2>4. KindsOf(t) = Told(cur, cur) /\ Told(cur, cur - 1) = {}
        BY <1>1, <2>1
    <2>5. ASSUME NEW i \in 1..N, i # cur PROVE Told(i, cur - 1) = Told(i, cur)
        BY <1>1, <2>5
    <2> HIDE DEF t, Told
    <2>6. t \in Seq(IssueKind)
        BY <2>3, SeqMonotonic
    <2>7. entries'[cur].issues = entries[cur].issues \o t
        BY <2>1, <2>6, IssuesAdded
    <2>8. \A i \in 1..N : i # cur => entries'[i].issues = entries[i].issues
        BY <2>1, <2>3, OneIssueAdded
    <2>9. KindsOf(entries'[cur].issues) = KindsOf(entries[cur].issues) \cup KindsOf(t)
        BY <2>1, <2>6, <2>7, EntryTypes, KindsConcat
    <2>10. KindsOf(t) \subseteq FilenameKind
        BY <2>3, KindsType
    <2>11. KindsOf(entries'[cur].issues) \cap FilenameKind = Told(cur, cur)
        BY <1>2, <2>1, <2>2, <2>4, <2>9, <2>10
    <2> QED
        BY <1>2, <2>2, <2>5, <2>8, <2>11
<1>5. CASE LoopDone("auditFilenames", "pickManifest")
    <2>1. /\ entries' = entries /\ pc = "auditFilenames" /\ pc' = "pickManifest"
          /\ cur = N + 1
        BY <1>1, <1>5 DEF LoopDone, LoopInv
    <2>2. AuditScanned = N /\ AuditScanned' = N
        BY <1>1, <2>1 DEF AuditScanned, Scanned, AfterAudit
    <2> QED
        BY <1>2, <2>1, <2>2
<1>6. CASE pc # "auditFilenames" /\ AuditScanned' = AuditScanned
    <2>1. PassKind(pc) \cap FilenameKind = {}
        BY <1>6 DEF PassKind, HeaderKind, EntryKind, FilenameKind, AXMLKind, TypeOK, Label
    <2> QED
        BY <1>2, <1>6, <2>1, PassKinds
<1>7. CASE pc \in Before /\ pc' \in Before
    <2>1. AuditScanned = 0 /\ AuditScanned' = 0
        BY <1>7 DEF AuditScanned, Scanned, AfterAudit, AfterManifest
    <2> QED
        BY <1>6, <1>7, <2>1
<1>8. CASE LoopDone("detectDirectoryConflicts", "auditFilenames")
    <2>1. pc = "detectDirectoryConflicts" /\ pc' = "auditFilenames" /\ cur' = 1
        BY <1>8 DEF LoopDone
    <2>2. AuditScanned = 0 /\ AuditScanned' = 0
        BY <2>1 DEF AuditScanned, Scanned, AfterAudit, AfterManifest
    <2> QED
        BY <1>6, <2>1, <2>2
<1>9. CASE pc \in AfterAudit /\ pc' \in AfterAudit
    <2>1. pc # "auditFilenames" /\ AuditScanned = N /\ AuditScanned' = N
        BY <1>1, <1>9 DEF AuditScanned, Scanned, AfterAudit, AfterManifest
    <2> QED
        BY <1>6, <2>1
<1>10. \/ AuditFilename
       \/ LoopDone("auditFilenames", "pickManifest")
       \/ pc \in Before /\ pc' \in Before
       \/ LoopDone("detectDirectoryConflicts", "auditFilenames")
       \/ pc \in AfterAudit /\ pc' \in AfterAudit
    BY DEF Passes, FlagOffsetOutOfRange, ReadLocalHeader, LoopDone, RecordName, FlagDuplicate,
       GatherName, FlagConflict, PickManifest, NoManifest, AnalyzeManifest, CountArchiveIssues,
       ReportEntry, InLoop, AfterAudit, AfterManifest
<1> QED
    BY <1>4, <1>5, <1>7, <1>8, <1>9, <1>10

LEMMA AuditInvStep ==
    ASSUME TypeOK, LoopInv, AuditInv, [Next]_vars
    PROVE  AuditInv'
<1>1. CASE Heads
    <2>1. AuditScanned' = 0
        BY <1>1, HeadsFresh DEF AuditScanned, Scanned, HeadLabel, AfterAudit, AfterManifest
    <2>2. \A i \in 1..N' : ~(i <= 0) /\ KindsOf(entries'[i].issues) = {}
        BY <1>1, HeadsFresh DEF KindsOf
    <2> QED
        BY <2>1, <2>2 DEF AuditInv
<1>2. CASE Stops
    BY <1>2, StopsStop DEF Stop, AuditInv
<1>3. CASE UNCHANGED vars
    BY <1>3 DEF vars, AuditInv, AuditScanned, Scanned, N, NameOf
<1> QED
    BY <1>1, <1>2, <1>3, AuditInvPasses DEF Next, Terminated

----------------------------------------------------------------------------
(* analyzeManifest: its findings are those of the data of one entry.       *)

\* They depend on the record and on where the data begins.
LEMMA IssuesOfData ==
    ASSUME NEW f, NEW e, NEW g, e.cd = g.cd, e.zip64 = g.zip64, e.dataOffset = g.dataOffset
    PROVE  /\ ManifestIssues(f, e) = ManifestIssues(f, g)
           /\ CompSize(e) = CompSize(g)
BY DEF ManifestIssues, DataUnreadable, InflateLimit, CompSize, UncompSize

LEMMA AnalysisPasses ==
    ASSUME TypeOK, LoopInv, AnalysisInv, Passes
    PROVE  AnalysisInv'
<1> DEFINE Told(e) == KindsOf(e.issues) \cap AXMLKind
           Found(e) == KindsOf(ManifestIssues(file, e))
<1>1. N \in Nat /\ N' = N /\ file' = file /\ manifest \in 0..N
    BY PassFrame DEF TypeOK, N
<1>2. /\ pc \in AfterManifest /\ manifest # 0 => CompSize(entries[manifest]) <= MaxByteLen
      /\ \A i \in 1..N : Told(entries[i]) = IF pc \in AfterManifest /\ i = manifest
                                            THEN Found(entries[i]) ELSE {}
    <2>1. pc # "exit"
        BY PassFrame DEF AfterTable, AfterHeaders, AfterDuplicates, AfterConflicts, AfterPick
    <2> QED
        BY <2>1 DEF AnalysisInv
<1>3. SUFFICES /\ pc' \in AfterManifest /\ manifest' # 0
                     => CompSize(entries'[manifest']) <= MaxByteLen
               /\ \A i \in 1..N : Told(entries'[i])
                                    = IF pc' \in AfterManifest /\ i = manifest'
                                      THEN Found(entries'[i]) ELSE {}
    BY <1>1 DEF AnalysisInv
<1>4. CASE pc \notin AfterManifest \cup {"analyzeManifest"}
    <2>1. pc' \notin AfterManifest
        BY <1>4 DEF Passes, FlagOffsetOutOfRange, ReadLocalHeader, LoopDone, RecordName,
           FlagDuplicate, GatherName, FlagConflict, AuditFilename, PickManifest, NoManifest,
           AnalyzeManifest, CountArchiveIssues, ReportEntry, InLoop, AfterManifest
    <2>2. PassKind(pc) \cap AXMLKind = {}
        BY <1>4 DEF PassKind, HeaderKind, EntryKind, FilenameKind, AXMLKind, TypeOK, Label
    <2> QED
        BY <1>2, <1>4, <2>1, <2>2, PassKinds
<1>5. CASE pc \in AfterManifest
    <2>1. pc' \in AfterManifest /\ entries' = entries /\ manifest' = manifest
        BY <1>5 DEF Passes, FlagOffsetOutOfRange, ReadLocalHeader, LoopDone, RecordName,
           FlagDuplicate, GatherName, FlagConflict, AuditFilename, PickManifest, NoManifest,
           AnalyzeManifest, CountArchiveIssues, ReportEntry, InLoop, AfterManifest
    <2> QED
        BY <1>2, <1>5, <2>1
<1>6. CASE NoManifest
    <2>1. entries' = entries /\ manifest' = manifest /\ manifest = 0 /\ pc = "analyzeManifest"
        BY <1>6 DEF NoManifest
    <2> QED
        BY <1>1, <1>2, <2>1 DEF AfterManifest
<1>7. CASE AnalyzeManifest
    <2> DEFINE t == ManifestIssues(file, entries[manifest])
    <2>1. /\ manifest \in 1..N /\ manifest' = manifest
          /\ pc = "analyzeManifest" /\ pc' = "BuildReport"
          /\ CompSize(entries[manifest]) <= MaxByteLen
          /\ entries' = AppendIssues(entries, manifest, t)
        BY <1>1, <1>7 DEF AnalyzeManifest
    <2>2. t \in Seq(AXMLKind) /\ AXMLKind \subseteq IssueKind
        BY <2>1, EntryTypes, ManifestIssuesType DEF IssueKind, TypeOK
    <2>3. /\ ManifestIssues(file, entries'[manifest]) = t
          /\ CompSize(entries'[manifest]) = CompSize(entries[manifest])
        <3>1. /\ entries'[manifest].cd = entries[manifest].cd
              /\ entries'[manifest].zip64 = entries[manifest].zip64
              /\ entries'[manifest].dataOffset = entries[manifest].dataOffset
            BY <2>1, PassIssues
        <3> QED
            BY <3>1, IssuesOfData, Zenon
    <2>4. \A i \in 1..N : Told(entries[i]) = {}
        BY <1>2, <2>1 DEF AfterManifest
    <2>5. Found(entries'[manifest]) = KindsOf(t)
        BY <2>3
    <2> HIDE DEF t
    <2>6. t \in Seq(IssueKind)
        BY <2>2, SeqMonotonic
    <2>7. entries'[manifest].issues = entries[manifest].issues \o t
        BY <2>1, <2>6, IssuesAdded
    <2>8. \A i \in 1..N : i # manifest => entries'[i].issues = entries[i].issues
        BY <2>1, <2>2, OneIssueAdded
    <2>9. KindsOf(entries'[manifest].issues) = KindsOf(entries[manifest].issues) \cup KindsOf(t)
        BY <2>1, <2>6, <2>7, EntryTypes, KindsConcat
    <2>10. KindsOf(t) \subseteq AXMLKind
        BY <2>2, KindsType
    <2>11. Told(entries'[manifest]) = KindsOf(t)
        BY <2>1, <2>4, <2>9, <2>10
    <2> HIDE DEF Found
    <2> QED
        BY <1>1, <2>1, <2>3, <2>4, <2>5, <2>8, <2>11 DEF AfterManifest
<1>8. CASE pc = "analyzeManifest" /\ ~NoManifest /\ ~AnalyzeManifest
    BY <1>8 DEF Passes, FlagOffsetOutOfRange, ReadLocalHeader, LoopDone, RecordName,
       FlagDuplicate, GatherName, FlagConflict, AuditFilename, PickManifest, CountArchiveIssues,
       ReportEntry, InLoop
<1> QED
    BY <1>4, <1>5, <1>6, <1>7, <1>8

LEMMA AnalysisStep ==
    ASSUME TypeOK, LoopInv, AnalysisInv, [Next]_vars
    PROVE  AnalysisInv'
<1>1. CASE Heads
    <2>1. pc' \notin AfterManifest
        BY <1>1, HeadsFresh DEF HeadLabel, AfterManifest
    <2>2. \A i \in 1..N' : KindsOf(entries'[i].issues) = {}
        BY <1>1, HeadsFresh DEF KindsOf
    <2> QED
        BY <2>1, <2>2 DEF AnalysisInv
<1>2. CASE Stops
    BY <1>2, StopsStop DEF Stop, AnalysisInv
<1>3. CASE UNCHANGED vars
    BY <1>3 DEF vars, AnalysisInv, N
<1> QED
    BY <1>1, <1>2, <1>3, AnalysisPasses DEF Next, Terminated

----------------------------------------------------------------------------
(* The invariants together.                                                *)

\* What is true of a run wherever it stands: the end records, the table, the headers,
\* the names and the manifest are, as far as they have been dealt with, what the
\* file makes them.
RunInv ==
    /\ TypeOK /\ LoopInv /\ HeadersAccounted /\ DuplicatesFlagged /\ ConflictsFlagged
    /\ ManifestInv /\ ReportInv
    /\ HeadInv /\ TableInv /\ KindInv /\ HeaderInv /\ AuditInv /\ AnalysisInv

\* At every moment of every run, what the passes have established so far is what
\* the file determines; nothing a later pass relies on is lost in between.
THEOREM RunCorrect == Spec => []RunInv
<1>1. Init => /\ ManifestInv /\ ReportInv /\ HeadInv /\ TableInv /\ KindInv
              /\ HeaderInv /\ AuditInv /\ AnalysisInv
    BY HeadInit, TableInit DEF Init, ManifestInv, FindingsInv, ManifestIsLastReadable, Located,
       ReportInv, Counted, Scanned, KindInv, HeaderInv, AuditInv, AnalysisInv, AfterManifest,
       AfterPick, N
<1>2. /\ TypeOK /\ LoopInv /\ HeadersAccounted
      /\ ManifestInv /\ ReportInv /\ HeadInv /\ TableInv /\ KindInv
      /\ HeaderInv /\ AuditInv /\ AnalysisInv
      /\ [Next]_vars
      => /\ ManifestInv' /\ ReportInv' /\ HeadInv' /\ TableInv' /\ KindInv'
         /\ HeaderInv' /\ AuditInv' /\ AnalysisInv'
    BY ManifestStep, ReportStep, HeadStep, TableStep, KindStep, HeaderInvStep, AuditInvStep,
       AnalysisStep
<1> QED
    BY <1>1, <1>2, TypeCorrect, LoopCorrect, HeadersAccountedHolds, DuplicatesFlaggedHolds,
       ConflictsFlaggedHolds, PTL DEF Spec, RunInv

----------------------------------------------------------------------------
(* What the invariants say of the file.                                    *)

FileTable == Verdict!Table(file)

LEMMA HeadRead ==
    ASSUME HeadInv, pc \in AfterBlock, cdOffset >= 0
    PROVE  Verdict!HeadReadable(file)
<1>1. /\ file.eocd # << >>
      /\ file.zip64 # << >> => ZIP64Readable(file.zip64[1])
      /\ cdOffset = Verdict!DirectoryOffset(file)
      /\ SigningBlockOf(file, cdOffset).status \in {"absent", "found"}
    BY DEF HeadInv, AfterEnds
<1> QED
    BY <1>1, SameReads DEF Verdict!HeadReadable

LEMMA CountRead ==
    ASSUME HeadInv, pc \in AfterAlloc
    PROVE  Verdict!HeadReadable(file) /\ Verdict!CountSane(file)
<1>1. /\ pc \in AfterBlock /\ pc \in AfterEnds
      /\ cdOffset >= 0 /\ entryCount \in 0..MaxEntryCap
      /\ entryCount = Verdict!DirectoryCount(file)
    BY DEF HeadInv, AfterEnds, AfterBlock
<1> QED
    BY <1>1, HeadRead DEF Verdict!CountSane

\* A row that has been read is one of the table.
LEMMA RowsOfTable ==
    ASSUME TypeOK, HeadInv, TableInv, pc \in AfterAlloc
    PROVE  /\ N \in Nat /\ entryCount \in Nat /\ N <= entryCount
           /\ DOMAIN FileTable = 1..entryCount
           /\ Verdict!DirectoryCount(file) = entryCount
           /\ Verdict!CDRecords(file, Verdict!DirectoryOffset(file)) = CDRecords(file, cdOffset)
           /\ \A i \in 1..entryCount : FileTable[i] = Row(i)
<1>1. /\ pc \in AfterBlock /\ pc \in AfterEnds /\ pc # "exit"
      /\ entryCount \in 0..MaxEntryCap
      /\ entryCount = Verdict!DirectoryCount(file)
      /\ cdOffset = Verdict!DirectoryOffset(file)
    BY DEF HeadInv, AfterEnds, AfterBlock, AfterAlloc, AfterTable, AfterHeaders,
       AfterDuplicates, AfterConflicts, AfterPick
<1>2. N \in Nat /\ entryCount \in Nat /\ N <= entryCount
    BY <1>1, EntryTypes DEF TableInv
<1>3. Verdict!CDRecords(file, Verdict!DirectoryOffset(file)) = CDRecords(file, cdOffset)
    BY <1>1, SameReads
<1> HIDE DEF Verdict!Table
<1>4. FileTable = [i \in 1..entryCount |-> Row(i)]
    <2>1. FileTable = [i \in 1..entryCount |-> Verdict!NewEntry(CDRecords(file, cdOffset)[i])]
        BY <1>1, <1>3 DEF FileTable, Verdict!Table
    <2> QED
        BY <2>1, SameNewEntry DEF Row
<1> QED
    BY <1>1, <1>2, <1>3, <1>4

\* Once readCentralDirectory is done the two tables have the same entries.
LEMMA TableRead ==
    ASSUME TypeOK, HeadInv, TableInv, pc \in AfterTable
    PROVE  /\ N \in Nat
           /\ DOMAIN FileTable = 1..N
           /\ Verdict!DirectoryCount(file) = N
           /\ N <= Len(Verdict!CDRecords(file, Verdict!DirectoryOffset(file)))
           /\ \A i \in 1..N : /\ FileTable[i] = Row(i)
                              /\ FileTable[i].cd.name = NameOf(i)
                              /\ FileTable[i].lfhOffset = entries[i].lfhOffset
                              /\ SameRow(entries[i], FileTable[i])
<1>1. pc \in AfterAlloc /\ pc # "exit"
    BY DEF AfterAlloc, AfterTable, AfterHeaders, AfterDuplicates, AfterConflicts, AfterPick
<1>2. N = entryCount /\ N <= Len(CDRecords(file, cdOffset))
    BY <1>1 DEF TableInv
<1>3. \A i \in 1..N : SameRow(entries[i], Row(i))
    BY <1>1 DEF TableInv
<1> QED
    BY <1>1, <1>2, <1>3, RowsOfTable DEF SameRow, NameOf

LEMMA HeadersRead ==
    ASSUME RunInv, pc \in AfterHeaders
    PROVE  /\ Verdict!TableReadable(file)
           /\ \A i \in 1..N : HeaderDone(file, Row(i), entries[i])
<1>1. pc \in AfterTable /\ pc # "exit" /\ pc # "readLocalHeaders"
    BY DEF AfterTable, AfterHeaders, AfterDuplicates, AfterConflicts, AfterPick
<1>2. HeaderScanned = N
    BY <1>1 DEF HeaderScanned, Scanned
<1>3. TypeOK /\ HeadInv /\ TableInv /\ HeaderInv
    BY DEF RunInv
<1>4. /\ N \in Nat /\ Verdict!DirectoryCount(file) = N
      /\ N <= Len(Verdict!CDRecords(file, Verdict!DirectoryOffset(file)))
      /\ \A i \in 1..N : FileTable[i] = Row(i)
    BY <1>1, <1>3, TableRead
<1>5. \A i \in 1..N : HeaderDone(file, Row(i), entries[i])
    BY <1>1, <1>2, <1>3, <1>4 DEF HeaderInv
<1>6. \A i \in 1..N : FileTable[i].lfhOffset < file.size
                        => Verdict!LFHReadable(file, FileTable[i].lfhOffset)
    BY <1>4, <1>5, SameReads DEF HeaderDone
<1> QED
    BY <1>4, <1>5, <1>6 DEF Verdict!TableReadable, FileTable

LEMMA HeadersFound ==
    ASSUME RunInv, pc \in AfterHeaders, NEW i \in 1..N
    PROVE  /\ Accounted(file, entries[i])
           /\ file.size \in Nat /\ entries[i].lfhOffset \in Int /\ entries[i].dataOffset \in Nat
<1>1. pc # "readLocalHeaders"
    BY DEF AfterHeaders, AfterDuplicates, AfterConflicts, AfterPick
<1>2. HeaderScanned = N
    BY <1>1 DEF HeaderScanned, Scanned
<1>3. Accounted(file, entries[i])
    BY <1>2 DEF RunInv, HeadersAccounted, Accounted, HeaderScanned, OutOfRange, BadSignature
<1>4. file.size \in Nat /\ entries[i] \in Entry
    BY EntryTypes DEF RunInv, TypeOK, IsFile
<1> QED
    BY <1>3, <1>4 DEF Entry

LEMMA ManifestsFound ==
    ASSUME RunInv, pc \in AfterHeaders
    PROVE  Verdict!Loadable(file, FileTable) = Located(N)
<1>1. pc \in AfterTable
    BY DEF AfterTable
<1>2. /\ DOMAIN FileTable = 1..N
      /\ \A i \in 1..N : /\ FileTable[i].cd.name = NameOf(i)
                         /\ FileTable[i].lfhOffset = entries[i].lfhOffset
    BY <1>1, TableRead DEF RunInv
<1>3. \A i \in 1..N : entries[i].lfhOffset < file.size
                        <=> entries[i].lfhOffset \in 0..(file.size - 1)
    BY HeadersFound DEF Accounted
<1> QED
    BY <1>2, <1>3 DEF Verdict!Loadable, Verdict!InRange, Located

\* What the loop of analyzeManifest has found once it is done.
LEMMA ManifestChosen ==
    ASSUME RunInv, pc \in AfterPick
    PROVE  IF Located(N) = {} THEN manifest = 0
           ELSE /\ manifest \in Located(N) /\ manifest \in 1..N
                /\ \A j \in Located(N) : j <= manifest
<1>1. pc # "exit" /\ Picked = N
    BY DEF Picked, Scanned, AfterPick
<1> QED
    BY <1>1 DEF RunInv, ManifestInv, ManifestIsLastReadable, IsLastLocated, Located, Picked

\* The manifest that is analysed is the one the file determines.
LEMMA ManifestFound ==
    ASSUME RunInv, pc \in AfterPick, NEW i
    PROVE  Verdict!IsManifest(file, FileTable, i) <=> manifest # 0 /\ i = manifest
<1>1. pc \in AfterHeaders
    BY DEF AfterPick, AfterHeaders, AfterDuplicates, AfterConflicts
<1>2. Verdict!IsManifest(file, FileTable, i)
        <=> i \in Located(N) /\ \A j \in Located(N) : j <= i
    BY <1>1, ManifestsFound DEF Verdict!IsManifest
<1>3. Located(N) \subseteq Int
    BY DEF Located
<1>4. CASE Located(N) = {}
    BY <1>2, <1>4, ManifestChosen
<1>5. CASE Located(N) # {}
    <2>1. /\ manifest \in Located(N) /\ manifest \in Nat \ {0}
          /\ \A j \in Located(N) : j <= manifest
        BY <1>5, ManifestChosen
    <2>2. ASSUME i \in Located(N), \A j \in Located(N) : j <= i PROVE i = manifest
        <3>1. manifest <= i /\ i <= manifest /\ i \in Int
            BY <1>3, <2>1, <2>2
        <3> QED
            BY <2>1, <3>1
    <2> QED
        BY <1>2, <2>1, <2>2
<1> QED
    BY <1>4, <1>5

LEMMA RowCompSize ==
    ASSUME RunInv, pc \in AfterTable, NEW i \in 1..N
    PROVE  Verdict!CompSize(FileTable[i]) = CompSize(entries[i])
<1>1. SameRow(entries[i], FileTable[i])
    BY TableRead DEF RunInv
<1>2. CompSize(FileTable[i]) = CompSize(entries[i])
    BY <1>1 DEF SameRow, CompSize
<1> QED
    BY <1>2, SameManifestIssues

LEMMA ManifestFits ==
    ASSUME RunInv, pc \in AfterManifest
    PROVE  ~Verdict!ManifestOversized(file)
<1>1. pc \in AfterPick /\ pc \in AfterHeaders /\ pc \in AfterTable /\ pc # "exit"
    BY DEF AfterManifest, AfterTable, AfterHeaders, AfterDuplicates, AfterConflicts, AfterPick
<1>2. manifest # 0 => CompSize(entries[manifest]) <= MaxByteLen
    BY <1>1 DEF RunInv, AnalysisInv
<1>3. DOMAIN FileTable = 1..N
    BY <1>1, TableRead DEF RunInv
<1>4. ASSUME NEW i \in 1..N, Verdict!IsManifest(file, FileTable, i)
      PROVE  ~(Verdict!CompSize(FileTable[i]) > MaxByteLen)
    <2>1. manifest # 0 /\ i = manifest
        BY <1>1, <1>4, ManifestFound
    <2>2. CompSize(entries[i]) <= MaxByteLen /\ CompSize(entries[i]) \in Int
        <3>1. CompSize(entries[i]) \in U64
            BY EntryTypes, EffectiveSizeType DEF RunInv, CompSize, Entry, CentralDirectoryRecord
        <3> QED
            BY <1>2, <2>1, <3>1, WidthAssumption DEF U64
    <2>3. ~(CompSize(entries[i]) > MaxByteLen)
        BY <2>2, WidthAssumption
    <2> QED
        BY <1>1, <2>3, RowCompSize
<1> QED
    BY <1>3, <1>4 DEF Verdict!ManifestOversized, FileTable

----------------------------------------------------------------------------
(* The issues of an entry are exactly those the file gives it.             *)

LEMMA ManifestData ==
    ASSUME RunInv, pc \in AfterManifest, manifest # 0
    PROVE  LET r == FileTable[manifest]
           IN  Verdict!ManifestIssues(file, Verdict!AttachLFH(r, file.lfhAt[r.lfhOffset]))
                 = ManifestIssues(file, entries[manifest])
<1> DEFINE r == Row(manifest)
           l == file.lfhAt[r.lfhOffset]
           e == entries[manifest]
<1>1. pc \in AfterPick /\ pc \in AfterHeaders /\ pc \in AfterTable
    BY DEF AfterManifest, AfterTable, AfterHeaders, AfterDuplicates, AfterConflicts, AfterPick
<1>2. manifest \in Located(N) /\ manifest \in 1..N
    BY <1>1, ManifestChosen
<1>3. r \in Entry /\ SameRow(e, r) /\ FileTable[manifest] = r
    BY <1>1, <1>2, RowType, TableRead DEF RunInv
<1>4. r.lfhOffset < file.size /\ file.size \in Nat
    <2>1. e.lfhOffset \in 0..(file.size - 1)
        BY <1>2 DEF Located
    <2> QED
        BY <1>1, <1>2, <1>3, <2>1, HeadersFound DEF SameRow
<1>5. LFHReadable(file, r.lfhOffset) /\ e.dataOffset = r.lfhOffset + l.len
    BY <1>1, <1>2, <1>4, HeadersRead DEF HeaderDone
<1>6. r.lfhOffset >= 0 /\ r.lfhOffset \in 0..file.size
    BY <1>3, <1>4, <1>5 DEF LFHReadable, Entry
<1>7. l \in LocalFileHeader
    BY <1>6, FileTypes DEF RunInv, TypeOK
<1> HIDE DEF r, l, e
<1>8. /\ AttachLFH(r, l).cd = e.cd
      /\ AttachLFH(r, l).zip64 = e.zip64
      /\ AttachLFH(r, l).dataOffset = e.dataOffset
    BY <1>3, <1>5, <1>6, <1>7, AttachType DEF SameRow
<1>9. ManifestIssues(file, AttachLFH(r, l)) = ManifestIssues(file, e)
    BY <1>8, IssuesOfData, Zenon
<1> QED
    BY <1>3, <1>9, SameAttach, SameManifestIssues DEF r, l, e

LEMMA EntryTold ==
    ASSUME RunInv, pc \in AfterManifest, NEW i \in 1..N
    PROVE  Verdict!EntryVerdict(file, FileTable, i) = KindsOf(entries[i].issues)
<1> DEFINE Told == KindsOf(entries[i].issues)
           r == FileTable[i]
           dup == {"duplicate_name"}
           conf == {"directory_file_conflict"}
<1>1. /\ pc \in AfterHeaders /\ pc \in AfterTable /\ pc # "exit"
      /\ pc \notin {"detectDuplicates", "detectDirectoryConflicts", "auditFilenames"}
      /\ pc \in AfterDuplicates /\ pc \in AfterConflicts /\ pc \in AfterPick /\ pc \in AfterAudit
    BY DEF AfterManifest, AfterTable, AfterHeaders, AfterDuplicates, AfterConflicts, AfterPick,
           AfterAudit
<1>2. /\ N \in Nat /\ DOMAIN FileTable = 1..N
      /\ \A j \in 1..N : FileTable[j] = Row(j) /\ FileTable[j].cd.name = NameOf(j)
    BY <1>1, TableRead DEF RunInv
<1>3. Told \subseteq HeaderKind \cup dup \cup conf \cup FilenameKind \cup AXMLKind
    <2>1. Told \subseteq IssueKind
        BY EntryTypes, KindsType DEF RunInv
    <2>2. Told \cap ArchiveKind = {}
        BY DEF RunInv, KindInv
    <2>3. IssueKind \subseteq HeaderKind \cup dup \cup conf \cup FilenameKind \cup AXMLKind
                               \cup ArchiveKind
        BY DEF IssueKind, HeaderKind
    <2> QED
        BY <2>1, <2>2, <2>3
<1>4. Told \cap HeaderKind = Verdict!HeaderKinds(file, r)
    BY <1>1, <1>2, HeadersRead DEF HeaderDone
<1>5. Told \cap dup = IF Verdict!SameName(FileTable, i) THEN dup ELSE {}
    <2>1. Reports(entries[i].issues, dup) <=> \E j \in 1..N : j # i /\ NameOf(j) = NameOf(i)
        <3>1. Scanned("detectDuplicates", AfterDuplicates) = N
            BY <1>1 DEF Scanned
        <3> QED
            BY <1>1, <1>2, <3>1 DEF RunInv, DuplicatesFlagged
    <2>2. Verdict!SameName(FileTable, i) <=> \E j \in 1..N : j # i /\ NameOf(j) = NameOf(i)
        BY <1>2 DEF Verdict!SameName
    <2> QED
        BY <2>1, <2>2, KindsReported
<1>6. Told \cap conf = IF Verdict!Conflict(FileTable, i) THEN conf ELSE {}
    <2>1. Reports(entries[i].issues, conf)
            <=> \E j \in 1..N : ClashNames(NameOf(i), NameOf(j))
        <3>1. Scanned("detectDirectoryConflicts", AfterConflicts) = N
            BY <1>1 DEF Scanned
        <3> QED
            BY <1>1, <1>2, <3>1 DEF RunInv, ConflictsFlagged, ClashNames
    <2>2. Verdict!Conflict(FileTable, i) <=> \E j \in 1..N : ClashNames(NameOf(i), NameOf(j))
        BY <1>2, SameReads DEF Verdict!Conflict, Verdict!Clash, ClashNames
    <2> QED
        BY <2>1, <2>2, KindsReported
<1>7. Told \cap FilenameKind = Verdict!KindsOf(AuditOf[r.cd.name])
    <2>1. AuditScanned = N
        BY <1>1 DEF AuditScanned, Scanned
    <2> QED
        BY <1>1, <1>2, <2>1, SameKindsOf DEF RunInv, AuditInv
<1>8. Told \cap AXMLKind
        = IF Verdict!IsManifest(file, FileTable, i)
          THEN Verdict!KindsOf(Verdict!ManifestIssues(file,
                  Verdict!AttachLFH(r, file.lfhAt[r.lfhOffset])))
          ELSE {}
    <2>1. Verdict!IsManifest(file, FileTable, i) <=> manifest # 0 /\ i = manifest
        BY <1>1, ManifestFits, ManifestFound
    <2>2. Told \cap AXMLKind
            = IF i = manifest THEN KindsOf(ManifestIssues(file, entries[i])) ELSE {}
        BY <1>1 DEF RunInv, AnalysisInv
    <2>3. i = manifest => manifest # 0
        OBVIOUS
    <2> QED
        BY <2>1, <2>2, <2>3, ManifestData, SameKindsOf
<1> HIDE DEF Told, r, dup, conf
<1>9. Told = Verdict!HeaderKinds(file, r)
             \cup (IF Verdict!SameName(FileTable, i) THEN dup ELSE {})
             \cup (IF Verdict!Conflict(FileTable, i) THEN conf ELSE {})
             \cup Verdict!KindsOf(AuditOf[r.cd.name])
             \cup (IF Verdict!IsManifest(file, FileTable, i)
                   THEN Verdict!KindsOf(Verdict!ManifestIssues(file,
                           Verdict!AttachLFH(r, file.lfhAt[r.lfhOffset])))
                   ELSE {})
    BY <1>3, <1>4, <1>5, <1>6, <1>7, <1>8
<1> QED
    BY <1>9 DEF Verdict!EntryVerdict, Told, r, dup, conf

----------------------------------------------------------------------------
(* The refinement, action by action.                                       *)

LEMMA InitMaps == Init => Verdict!Init
<1> SUFFICES ASSUME Init PROVE Verdict!Init
    OBVIOUS
<1>1. RunPhase = "start" /\ RunVerdict = << >> /\ RunHeadVerdict = {}
    BY DEF Init, RunPhase, RunVerdict, RunHeadVerdict, Completed
<1>2. Verdict!IsFile(file)
    BY FilesAssumption, SameIsFile DEF Init
<1> QED
    BY <1>1, <1>2 DEF Verdict!Init

\* A program that runs has published nothing.
LEMMA Silent ==
    ASSUME RunInv, pc # "exit"
    PROVE  exitCode = -1 /\ RunVerdict = << >> /\ RunHeadVerdict = {}
<1>1. exitCode = -1
    BY DEF RunInv, HeadInv
<1> QED
    BY <1>1 DEF RunVerdict, RunHeadVerdict, Completed

LEMMA StaysOpen ==
    ASSUME RunInv, Heads \/ Passes, ~OpenFile
    PROVE  UNCHANGED Verdict!avars
<1> USE DEF headVars, nameVars, reportVars
<1>1. /\ pc \notin {"main", "exit"} /\ pc' \notin {"main", "exit"}
      /\ file' = file /\ exitCode' = exitCode
    BY DEF Heads, FindEOCD, NotZIP64, FindZIP64EOCD, FindSigningBlock, AllocateEntries,
       ReadCDRecord, CentralDirectoryRead,
       Passes, FlagOffsetOutOfRange, ReadLocalHeader, LoopDone, RecordName, FlagDuplicate,
       GatherName, FlagConflict, AuditFilename, PickManifest, NoManifest, AnalyzeManifest,
       CountArchiveIssues, ReportEntry, InLoop
<1>2. RunPhase = "open" /\ RunPhase' = "open"
    BY <1>1 DEF RunPhase
<1>3. exitCode = -1 /\ RunVerdict = << >> /\ RunHeadVerdict = {}
    BY <1>1, Silent
<1>4. RunVerdict' = << >> /\ RunHeadVerdict' = {}
    BY <1>1, <1>3 DEF RunVerdict, RunHeadVerdict, Completed
<1> QED
    BY <1>1, <1>2, <1>3, <1>4 DEF Verdict!avars

LEMMA OpenMaps ==
    ASSUME RunInv, OpenFile
    PROVE  Verdict!Open
<1>1. /\ pc = "main" /\ pc' = "findEOCD" /\ file' = file /\ exitCode' = exitCode
    BY DEF OpenFile
<1>2. RunPhase = "start" /\ RunPhase' = "open"
    BY <1>1 DEF RunPhase
<1>3. exitCode = -1 /\ RunVerdict = << >> /\ RunHeadVerdict = {}
    BY <1>1, Silent
<1>4. RunVerdict' = << >> /\ RunHeadVerdict' = {}
    BY <1>1, <1>3 DEF RunVerdict, RunHeadVerdict, Completed
<1> QED
    BY <1>1, <1>2, <1>3, <1>4 DEF Verdict!Open

\* Exit code 1 is a refusal when the file justifies one.
LEMMA RefuseMaps ==
    ASSUME RunInv, pc # "exit", Stop(1),
           \/ pc = "main"
           \/ pc # "main" /\ Verdict!Analysable(file)
           \/ pc # "main" /\ ~Verdict!HeadReadable(file)
           \/ pc # "main" /\ Verdict!CountSane(file) /\ ~Verdict!TableReadable(file)
    PROVE  Verdict!Refuse
<1>1. pc' = "exit" /\ exitCode' = 1 /\ file' = file
    BY DEF Stop
<1>2. RunPhase = (IF pc = "main" THEN "start" ELSE "open") /\ RunPhase' = "refused"
    BY <1>1 DEF RunPhase
<1>3. RunVerdict = << >> /\ RunHeadVerdict = {}
    BY Silent
<1>4. RunVerdict' = << >> /\ RunHeadVerdict' = {}
    BY <1>1 DEF RunVerdict, RunHeadVerdict, Completed
<1> QED
    BY <1>1, <1>2, <1>3, <1>4 DEF Verdict!Refuse

\* A panic is a crash when the file justifies one.
LEMMA CrashMaps ==
    ASSUME RunInv, pc \notin {"main", "exit"}, Stop(2), issueCount = 0, file.eocd # << >>,
           \/ Verdict!SigningBlockOf(file, Verdict!DirectoryOffset(file)).status = "panic"
           \/ Verdict!HeadReadable(file) /\ ~Verdict!CountSane(file)
           \/ /\ Verdict!HeadReadable(file) /\ Verdict!CountSane(file)
              /\ Verdict!TableReadable(file) /\ Verdict!ManifestOversized(file)
    PROVE  Verdict!Crash
<1>1. pc' = "exit" /\ exitCode' = 2 /\ file' = file /\ issueCount' = 0
    BY DEF Stop, reportVars
<1>2. RunPhase = "open" /\ RunPhase' = "crashed"
    BY <1>1 DEF RunPhase
<1>3. RunVerdict = << >> /\ RunHeadVerdict = {}
    BY Silent
<1>4. RunVerdict' = << >> /\ RunHeadVerdict' = {}
    BY <1>1 DEF RunVerdict, RunHeadVerdict, Completed
<1> QED
    BY <1>1, <1>2, <1>3, <1>4 DEF Verdict!Crash

\* Before the output everything has been found readable.
LEMMA AllRead ==
    ASSUME RunInv, pc = "output"
    PROVE  Verdict!Analysable(file)
<1>1. pc \in AfterManifest /\ pc \in AfterHeaders /\ pc \in AfterAlloc
    BY DEF AfterManifest, AfterAlloc, AfterTable, AfterHeaders, AfterDuplicates,
       AfterConflicts, AfterPick
<1> QED
    BY <1>1, CountRead, HeadersRead, ManifestFits DEF RunInv, Verdict!Analysable

\* The count that decides the exit code is zero when no kind is told of anything.
LEMMA CountTells ==
    ASSUME RunInv, pc = "output"
    PROVE  /\ issueCount = 0 <=> /\ KindsOf(archiveIssues) = {}
                                 /\ \A i \in 1..N : KindsOf(entries[i].issues) = {}
           /\ issueCount \in Nat
<1>1. /\ reported = {i \in 1..N : entries[i].issues # << >>}
      /\ issueCount = 0 <=> (reported = {} /\ archiveIssues = << >>)
    <2>1. Counted = N
        BY DEF Counted, Scanned
    <2> QED
        BY <2>1 DEF RunInv, ReportInv
<1>2. ASSUME NEW i \in 1..N
      PROVE  KindsOf(entries[i].issues) = {} <=> entries[i].issues = << >>
    <2>1. entries[i].issues \in Seq(IssueKind)
        BY EntryTypes DEF RunInv
    <2> QED
        BY <2>1, KindsType
<1>3. KindsOf(archiveIssues) = {} <=> archiveIssues = << >>
    BY KindsType DEF RunInv, TypeOK
<1>4. issueCount \in Nat
    BY DEF RunInv, TypeOK
<1> QED
    BY <1>1, <1>2, <1>3, <1>4

LEMMA PublishMaps ==
    ASSUME RunInv, Exit
    PROVE  Verdict!Publish
<1>1. /\ pc = "output" /\ pc' = "exit" /\ exitCode' = IF issueCount > 0 THEN 2 ELSE 0
      /\ file' = file /\ entries' = entries /\ archiveIssues' = archiveIssues
      /\ issueCount' = issueCount
    BY DEF Exit, Stop, headVars, reportVars
<1>2. pc \in AfterManifest /\ pc \in AfterTable /\ pc \in AfterBlock
    BY <1>1 DEF AfterManifest, AfterBlock, AfterAlloc, AfterTable, AfterHeaders,
       AfterDuplicates, AfterConflicts, AfterPick
<1>3. Completed' /\ RunPhase = "open"
    BY <1>1 DEF Completed, RunPhase
<1>4. /\ DOMAIN FileTable = 1..N
      /\ \A i \in 1..N : Verdict!EntryVerdict(file, FileTable, i) = KindsOf(entries[i].issues)
    BY <1>2, TableRead, EntryTold DEF RunInv
<1>5. RunVerdict' = [i \in 1..N |-> KindsOf(entries[i].issues)]
    BY <1>1, <1>3 DEF RunVerdict, N
<1>6. RunHeadVerdict' = KindsOf(archiveIssues)
    BY <1>1, <1>3 DEF RunHeadVerdict
<1>7. RunVerdict' = [i \in DOMAIN FileTable |-> Verdict!EntryVerdict(file, FileTable, i)]
    BY <1>4, <1>5
<1>8. RunHeadVerdict' = Verdict!HeadVerdict(file)
    BY <1>2, <1>6 DEF RunInv, HeadInv
<1>9. RunPhase' = IF RunHeadVerdict' = {} /\ \A i \in DOMAIN RunVerdict' : RunVerdict'[i] = {}
                  THEN "clean" ELSE "malformed"
    <2>1. /\ issueCount \in Nat
          /\ issueCount = 0
               <=> RunHeadVerdict' = {} /\ \A i \in DOMAIN RunVerdict' : RunVerdict'[i] = {}
        BY <1>1, <1>5, <1>6, CountTells
    <2>2. RunPhase' = IF issueCount = 0 THEN "clean" ELSE "malformed"
        BY <1>1, <2>1 DEF RunPhase
    <2> QED
        BY <2>1, <2>2
<1> QED
    BY <1>1, <1>3, <1>7, <1>8, <1>9, AllRead DEF Verdict!Publish, FileTable

LEMMA StopMaps ==
    ASSUME RunInv, Stops
    PROVE  Verdict!Refuse \/ Verdict!Crash \/ Verdict!Publish
<1>1. CASE UsageOrOpenError
    BY <1>1, RefuseMaps DEF UsageOrOpenError
<1>2. CASE NoEOCD
    <2>1. ~Verdict!HeadReadable(file)
        BY <1>2 DEF NoEOCD, Verdict!HeadReadable
    <2> QED
        BY <1>2, <2>1, RefuseMaps DEF NoEOCD
<1>3. CASE BadZIP64EOCD
    <2>1. ~Verdict!HeadReadable(file)
        BY <1>3, SameReads DEF BadZIP64EOCD, Verdict!HeadReadable
    <2> QED
        BY <1>3, <2>1, RefuseMaps DEF BadZIP64EOCD
<1>4. CASE BadSigningBlock \/ SigningBlockPanic
    <2>1. pc = "FindSigningBlock" /\ pc \in AfterEnds
        BY <1>4 DEF BadSigningBlock, SigningBlockPanic, AfterEnds
    <2>2. /\ file.eocd # << >> /\ issueCount = 0
          /\ SigningBlockOf(file, cdOffset)
               = Verdict!SigningBlockOf(file, Verdict!DirectoryOffset(file))
        BY <2>1, SameReads DEF RunInv, HeadInv
    <2>3. CASE BadSigningBlock
        <3>1. ~Verdict!HeadReadable(file)
            BY <2>2, <2>3 DEF BadSigningBlock, Verdict!HeadReadable
        <3> QED
            BY <2>1, <2>3, <3>1, RefuseMaps DEF BadSigningBlock
    <2>4. CASE SigningBlockPanic
        BY <2>1, <2>2, <2>4, CrashMaps DEF SigningBlockPanic
    <2> QED
        BY <1>4, <2>3, <2>4
<1>5. CASE SeekCDError
    <2>1. pc = "seekCD" /\ pc \in AfterEnds /\ cdOffset < 0 /\ cdOffset \in Int
        BY <1>5 DEF SeekCDError, AfterEnds, AfterBlock, RunInv, TypeOK
    <2>2. cdOffset = Verdict!DirectoryOffset(file)
        BY <2>1 DEF RunInv, HeadInv
    <2>3. ~Verdict!HeadReadable(file)
        BY <2>1, <2>2 DEF Verdict!HeadReadable
    <2> QED
        BY <1>5, <2>1, <2>3, RefuseMaps DEF SeekCDError
<1>6. CASE AllocateEntriesPanic
    <2>1. /\ pc = "seekCD" /\ pc \in AfterBlock /\ pc \in AfterEnds /\ cdOffset >= 0
          /\ entryCount \notin 0..MaxEntryCap
        BY <1>6 DEF AllocateEntriesPanic, AfterEnds, AfterBlock
    <2>2. file.eocd # << >> /\ issueCount = 0 /\ entryCount = Verdict!DirectoryCount(file)
        BY <2>1 DEF RunInv, HeadInv
    <2>3. Verdict!HeadReadable(file) /\ ~Verdict!CountSane(file)
        BY <2>1, <2>2, HeadRead DEF RunInv, Verdict!CountSane
    <2> QED
        BY <1>6, <2>1, <2>2, <2>3, CrashMaps DEF AllocateEntriesPanic
<1>7. CASE BadCDRecord
    <2>1. /\ pc = "readCentralDirectory" /\ pc \in AfterAlloc
          /\ N < entryCount /\ N >= Len(CDRecords(file, cdOffset))
        BY <1>7 DEF BadCDRecord, AfterAlloc
    <2>2. Len(CDRecords(file, cdOffset)) \in Nat
        BY FileTypes, LenProperties DEF RunInv, TypeOK
    <2>3. /\ Verdict!DirectoryCount(file) = entryCount /\ N \in Nat /\ entryCount \in Nat
          /\ Verdict!CDRecords(file, Verdict!DirectoryOffset(file)) = CDRecords(file, cdOffset)
        BY <2>1, RowsOfTable DEF RunInv
    <2>4. Verdict!CountSane(file) /\ ~Verdict!TableReadable(file)
        BY <2>1, <2>2, <2>3, CountRead DEF RunInv, Verdict!TableReadable
    <2> QED
        BY <1>7, <2>1, <2>4, RefuseMaps DEF BadCDRecord
<1>8. CASE BadLocalHeader
    <2>1. /\ pc = "readLocalHeaders" /\ pc \in AfterAlloc /\ pc \in AfterTable
          /\ entries[cur].lfhOffset < file.size
          /\ ~LFHReadable(file, entries[cur].lfhOffset)
          /\ cur \in 1..N
        BY <1>8, InLoopRange DEF BadLocalHeader, InLoop, AfterAlloc, AfterTable, RunInv
    <2>2. /\ Verdict!DirectoryCount(file) = N
          /\ FileTable[cur].lfhOffset = entries[cur].lfhOffset
        BY <2>1, TableRead DEF RunInv
    <2>3. ~Verdict!TableReadable(file)
        BY <2>1, <2>2, SameReads DEF Verdict!TableReadable, FileTable
    <2>4. Verdict!CountSane(file)
        BY <2>1, CountRead DEF RunInv
    <2> QED
        BY <1>8, <2>1, <2>3, <2>4, RefuseMaps DEF BadLocalHeader
<1>9. CASE ManifestPanic
    <2>1. /\ pc = "analyzeManifest" /\ manifest # 0
          /\ CompSize(entries[manifest]) > MaxByteLen
          /\ pc \in AfterPick /\ pc \in AfterHeaders /\ pc \in AfterTable
          /\ pc \in AfterAlloc /\ pc \in AfterEnds
        BY <1>9 DEF ManifestPanic, AfterEnds, AfterBlock, AfterAlloc, AfterTable, AfterHeaders,
           AfterDuplicates, AfterConflicts, AfterPick
    <2>2. manifest \in 1..N
        BY <2>1, ManifestChosen
    <2>3. file.eocd # << >> /\ issueCount = 0
        BY <2>1 DEF RunInv, HeadInv
    <2>4. DOMAIN FileTable = 1..N
        BY <2>1, TableRead DEF RunInv
    <2>5. /\ Verdict!IsManifest(file, FileTable, manifest)
          /\ Verdict!CompSize(FileTable[manifest]) > MaxByteLen
        BY <2>1, <2>2, ManifestFound, RowCompSize
    <2>6. Verdict!ManifestOversized(file)
        BY <2>2, <2>4, <2>5 DEF Verdict!ManifestOversized, FileTable
    <2>7. /\ Verdict!HeadReadable(file) /\ Verdict!CountSane(file)
          /\ Verdict!TableReadable(file)
        BY <2>1, CountRead, HeadersRead DEF RunInv
    <2> QED
        BY <1>9, <2>1, <2>3, <2>6, <2>7, CrashMaps DEF ManifestPanic
<1>10. CASE Exit
    BY <1>10, PublishMaps
<1>11. CASE WriteJSONError
    BY <1>11, AllRead, RefuseMaps DEF WriteJSONError
<1> QED
    BY <1>1, <1>2, <1>3, <1>4, <1>5, <1>6, <1>7, <1>8, <1>9, <1>10, <1>11 DEF Stops

LEMMA StepMaps ==
    ASSUME RunInv, [Next]_vars
    PROVE  [Verdict!Next]_(Verdict!avars)
<1>1. CASE OpenFile
    BY <1>1, OpenMaps DEF Verdict!Next
<1>2. CASE (Heads \/ Passes) /\ ~OpenFile
    BY <1>2, StaysOpen
<1>3. CASE Stops
    BY <1>3, StopMaps DEF Verdict!Next
<1>4. CASE UNCHANGED vars
    BY <1>4 DEF vars, headVars, reportVars, Verdict!avars, RunPhase, RunVerdict,
       RunHeadVerdict, Completed, N
<1> QED
    BY <1>1, <1>2, <1>3, <1>4 DEF Next, Terminated

\* On every file, whatever the widths, the passes, loops and tables of OpenReader
\* deliver in the end, and in one step, the verdict that ArchiveVerdict reads off
\* the file: each entry gets exactly the kinds of issue it deserves, the program
\* refuses a file only when a structure of it cannot be read, and panics only on a
\* size it cannot allocate or in the signing block.
THEOREM ImplementsVerdictHolds == Spec => ImplementsVerdict
BY InitMaps, StepMaps, RunCorrect, PTL DEF Spec, ImplementsVerdict, Verdict!Spec

----------------------------------------------------------------------------
(* A clean exit: no two readers of the archive are told different things.  *)

LEMMA ConcatEmpty ==
    ASSUME NEW S, NEW s \in Seq(S), NEW t \in Seq(S), s \o t = << >>
    PROVE  s = << >> /\ t = << >>
<1>1. KindsOf(s) \cup KindsOf(t) = {}
    BY KindsConcat DEF KindsOf
<1> QED
    BY <1>1, KindsType

LEMMA FlagEmpty ==
    ASSUME NEW c \in BOOLEAN, NEW k, Flag(c, k) = << >>
    PROVE  ~c
<1>1. <<k>> # << >>
    OBVIOUS
<1> QED
    BY <1>1 DEF Flag

\* Two headers with no difference to tell agree on all that matters.
LEMMA DiffClean ==
    ASSUME NEW cd, NEW cz, NEW l, NEW lz, diffEntries(cd, cz, l, lz) = << >>
    PROVE  /\ cd.name = l.name /\ cd.gpbf = l.gpbf
           /\ cd.compression = l.compression /\ cd.crc32 = l.crc32
           /\ "dataDescriptor" \notin cd.gpbf =>
                 /\ effectiveCompressedSize(cd.comp, cz) = effectiveCompressedSize(l.comp, lz)
                 /\ effectiveUncompressedSize(cd.uncomp, cz)
                      = effectiveUncompressedSize(l.uncomp, lz)
<1> DEFINE S == DiffKind
           f1 == Flag(("encrypted" \in cd.gpbf) # ("encrypted" \in l.gpbf), "encryption_mismatch")
           f2 == Flag(cd.gpbf # l.gpbf, "gpbf_mismatch")
           f3 == Flag(cd.compression # l.compression, "compression_mismatch")
           f4 == Flag({cd.compression, l.compression} \cap OtherMethod # {},
                      "unsupported_compression")
           f5 == Flag(cd.crc32 # l.crc32, "crc32_mismatch")
           f6 == IF "dataDescriptor" \in cd.gpbf THEN << >> ELSE diffSizes(cd, cz, l, lz)
           f7 == Flag(cd.name # l.name, "name_mismatch")
           g1 == Flag((cd.uncomp = Sentinel32) # (l.uncomp = Sentinel32),
                      "zip64_sentinel_mismatch")
           g2 == Flag((cd.comp = Sentinel32) # (l.comp = Sentinel32), "zip64_sentinel_mismatch")
           g3 == Flag(effectiveCompressedSize(cd.comp, cz)
                        # effectiveCompressedSize(l.comp, lz), "compressed_size_mismatch")
           g4 == Flag(effectiveUncompressedSize(cd.uncomp, cz)
                        # effectiveUncompressedSize(l.uncomp, lz), "uncompressed_size_mismatch")
<1>1. \A c : /\ Flag(c, "zip64_sentinel_mismatch") \in Seq(S)
             /\ Flag(c, "compressed_size_mismatch") \in Seq(S)
             /\ Flag(c, "uncompressed_size_mismatch") \in Seq(S)
             /\ Flag(c, "encryption_mismatch") \in Seq(S)
             /\ Flag(c, "gpbf_mismatch") \in Seq(S)
             /\ Flag(c, "compression_mismatch") \in Seq(S)
             /\ Flag(c, "unsupported_compression") \in Seq(S)
             /\ Flag(c, "crc32_mismatch") \in Seq(S)
             /\ Flag(c, "name_mismatch") \in Seq(S)
    BY FlagType DEF DiffKind, HeaderKind, EntryKind
<1>2. g1 \in Seq(S) /\ g2 \in Seq(S) /\ g3 \in Seq(S) /\ g4 \in Seq(S)
    <2> HIDE DEF S
    <2> QED
        BY <1>1
<1>3. /\ f1 \in Seq(S) /\ f2 \in Seq(S) /\ f3 \in Seq(S) /\ f4 \in Seq(S) /\ f5 \in Seq(S)
      /\ f7 \in Seq(S)
    <2> HIDE DEF S
    <2> QED
        BY <1>1
<1>4. diffSizes(cd, cz, l, lz) = ((g1 \o g2) \o g3) \o g4
    BY Zenon DEF diffSizes
<1>5. diffEntries(cd, cz, l, lz) = (((((f1 \o f2) \o f3) \o f4) \o f5) \o f6) \o f7
    BY Zenon DEF diffEntries
<1> HIDE DEF S, g1, g2, g3, g4
<1>6. /\ g1 \o g2 \in Seq(S) /\ (g1 \o g2) \o g3 \in Seq(S)
      /\ diffSizes(cd, cz, l, lz) \in Seq(S)
    BY <1>2, <1>4, ConcatType
<1>7. f6 \in Seq(S)
    BY <1>6
<1>8. "dataDescriptor" \notin cd.gpbf => f6 = diffSizes(cd, cz, l, lz)
    OBVIOUS
<1> HIDE DEF f1, f2, f3, f4, f5, f6, f7
<1>9. /\ f1 \o f2 \in Seq(S)
      /\ (f1 \o f2) \o f3 \in Seq(S)
      /\ ((f1 \o f2) \o f3) \o f4 \in Seq(S)
    BY <1>3, ConcatType
<1>10. /\ (((f1 \o f2) \o f3) \o f4) \o f5 \in Seq(S)
       /\ ((((f1 \o f2) \o f3) \o f4) \o f5) \o f6 \in Seq(S)
    BY <1>3, <1>7, <1>9, ConcatType
<1>11. ((((f1 \o f2) \o f3) \o f4) \o f5) \o f6 = << >> /\ f7 = << >>
    BY <1>3, <1>5, <1>10, ConcatEmpty
<1>12. (((f1 \o f2) \o f3) \o f4) \o f5 = << >> /\ f6 = << >>
    BY <1>7, <1>10, <1>11, ConcatEmpty
<1>13. ((f1 \o f2) \o f3) \o f4 = << >> /\ f5 = << >>
    BY <1>3, <1>9, <1>12, ConcatEmpty
<1>14. (f1 \o f2) \o f3 = << >>
    BY <1>3, <1>9, <1>13, ConcatEmpty
<1>15. f1 \o f2 = << >> /\ f3 = << >>
    BY <1>3, <1>9, <1>14, ConcatEmpty
<1>16. f2 = << >>
    BY <1>3, <1>15, ConcatEmpty
<1>17. /\ cd.gpbf = l.gpbf /\ cd.compression = l.compression
       /\ cd.crc32 = l.crc32 /\ cd.name = l.name
    <2>1. cd.gpbf = l.gpbf
        BY <1>16, FlagEmpty DEF f2
    <2>2. cd.compression = l.compression
        BY <1>15, FlagEmpty DEF f3
    <2>3. cd.crc32 = l.crc32
        BY <1>13, FlagEmpty DEF f5
    <2>4. cd.name = l.name
        BY <1>11, FlagEmpty DEF f7
    <2> QED
        BY <2>1, <2>2, <2>3, <2>4
<1>18. ASSUME "dataDescriptor" \notin cd.gpbf
       PROVE  /\ effectiveCompressedSize(cd.comp, cz) = effectiveCompressedSize(l.comp, lz)
              /\ effectiveUncompressedSize(cd.uncomp, cz)
                   = effectiveUncompressedSize(l.uncomp, lz)
    <2>1. ((g1 \o g2) \o g3) \o g4 = << >>
        BY <1>4, <1>8, <1>12, <1>18
    <2>2. (g1 \o g2) \o g3 = << >> /\ g4 = << >>
        BY <1>2, <1>6, <2>1, ConcatEmpty
    <2>3. g3 = << >>
        BY <1>2, <1>6, <2>2, ConcatEmpty
    <2>4. effectiveCompressedSize(cd.comp, cz) = effectiveCompressedSize(l.comp, lz)
        BY <2>3, FlagEmpty DEF g3
    <2>5. effectiveUncompressedSize(cd.uncomp, cz) = effectiveUncompressedSize(l.uncomp, lz)
        BY <2>2, FlagEmpty DEF g4
    <2> QED
        BY <2>4, <2>5
<1> QED
    BY <1>17, <1>18

\* An entry that no pass has an issue with has a header that says the same.
LEMMA EntryClean ==
    ASSUME RunInv, pc \in AfterHeaders, NEW i \in 1..N, KindsOf(entries[i].issues) = {}
    PROVE  /\ entries[i].lfh # << >>
           /\ entries[i].lfh[1].sigOK
           /\ entries[i].lfh[1].name = NameOf(i)
           /\ entries[i].lfh = <<entries[i].lfh[1]>>
           /\ StreamReading(entries[i].lfh[1]) = DirectoryReading(entries[i])
<1> DEFINE r == Row(i)
           e == entries[i]
           l == file.lfhAt[r.lfhOffset]
           d == diffEntries(r.cd, r.zip64, l, LocalZIP64(l))
           b == Flag(~l.sigOK, "lfh_signature_bad")
<1>1. pc \in AfterTable
    BY DEF AfterTable
<1>2. r \in Entry /\ r.issues = << >> /\ SameRow(e, r)
    BY <1>1, RowType DEF RunInv
<1>3. /\ Verdict!HeaderKinds(file, r) = {}
      /\ r.lfhOffset < file.size => LFHReadable(file, r.lfhOffset)
    BY HeadersRead DEF HeaderDone
<1>4. r.lfhOffset < file.size
    BY <1>3 DEF Verdict!HeaderKinds, Verdict!InRange
<1>5. KindsOf(AttachLFH(r, l).issues) = {}
    BY <1>3, <1>4, SameKindsOf, SameAttach DEF Verdict!HeaderKinds, Verdict!InRange
<1>6. Accounted(file, e) /\ file.size \in Nat /\ e.lfhOffset \in Int
    BY HeadersFound
<1>7. ~Reports(e.issues, OutOfRange) /\ ~Reports(e.issues, BadSignature)
    BY KindsReported
<1>8. e.lfh = <<l>> /\ l.sigOK
    <2>1. e.lfh = <<file.lfhAt[e.lfhOffset]>> /\ e.lfh[1].sigOK
        BY <1>6, <1>7 DEF Accounted
    <2> QED
        BY <1>2, <2>1 DEF SameRow
<1>9. AttachLFH(r, l).issues = (r.issues \o b) \o d
    BY <1>2 DEF AttachLFH, Entry
<1>10. d \in Seq(DiffKind) /\ DiffKind \subseteq IssueKind
    BY DiffType DEF DiffKind, HeaderKind, IssueKind
<1>11. b \in Seq(IssueKind) /\ r.issues \in Seq(IssueKind)
    <2>1. "lfh_signature_bad" \in IssueKind
        BY DEF IssueKind, EntryKind
    <2> QED
        BY <1>2, <2>1, FlagType DEF Entry
<1> HIDE DEF r, e, l, d, b
<1>12. d \in Seq(IssueKind)
    BY <1>10, SeqMonotonic
<1>13. r.issues \o b \in Seq(IssueKind)
    BY <1>11, ConcatType
<1>14. (r.issues \o b) \o d = << >>
    <2>1. (r.issues \o b) \o d \in Seq(IssueKind)
        BY <1>12, <1>13, ConcatType
    <2>2. KindsOf((r.issues \o b) \o d) = {}
        BY <1>5, <1>9
    <2>3. \A x \in Seq(IssueKind) : KindsOf(x) = {} => x = << >>
        BY KindsType
    <2> QED
        BY <2>1, <2>2, <2>3, Zenon
<1>15. d = << >>
    BY <1>12, <1>13, <1>14, ConcatEmpty
<1>16. /\ e.cd.name = l.name /\ e.cd.gpbf = l.gpbf
       /\ e.cd.compression = l.compression /\ e.cd.crc32 = l.crc32
       /\ "dataDescriptor" \notin e.cd.gpbf =>
             /\ CompSize(e) = effectiveCompressedSize(l.comp, LocalZIP64(l))
             /\ UncompSize(e) = effectiveUncompressedSize(l.uncomp, LocalZIP64(l))
    BY <1>2, <1>15, DiffClean DEF d, SameRow, CompSize, UncompSize
<1>17. StreamReading(l) = DirectoryReading(e)
    BY <1>16 DEF StreamReading, DirectoryReading
<1>18. e.lfh[1] = l /\ e.lfh # << >>
    BY <1>8
<1> QED
    BY <1>8, <1>16, <1>17, <1>18 DEF e, NameOf

\* The two end records of an archive without a mismatch lead to one directory.
LEMMA EndsAgree ==
    ASSUME RunInv, pc \in AfterBlock, KindsOf(archiveIssues) = {}
    PROVE  /\ file.eocd[1].cdOffset \in {Sentinel32, cdOffset}
           /\ file.eocd[1].entries \in {Sentinel16, entryCount}
<1>1. /\ file.eocd # << >>
      /\ cdOffset = Verdict!DirectoryOffset(file)
      /\ entryCount = Verdict!DirectoryCount(file)
      /\ Verdict!HeadVerdict(file) = {}
    BY DEF RunInv, HeadInv, AfterEnds
<1>2. ~Verdict!Split(file)
    BY <1>1 DEF Verdict!HeadVerdict
<1>3. file.eocd[1] \in EndOfCentralDirectory
    BY <1>1, FileTypes DEF RunInv, TypeOK
<1>4. CASE file.zip64 = << >>
    BY <1>1, <1>4 DEF Verdict!DirectoryOffset, Verdict!DirectoryCount
<1>5. CASE file.zip64 # << >>
    <2>1. /\ file.eocd[1].cdOffset \in {Sentinel32, file.zip64[1].cdOffset}
          /\ file.eocd[1].entries \in {Sentinel16, file.zip64[1].entries}
        BY <1>2, <1>5 DEF Verdict!Split
    <2>2. /\ cdOffset = Int64(file.zip64[1].cdOffset)
          /\ entryCount = Int64(file.zip64[1].entries)
        BY <1>1, <1>5, SameInt64 DEF Verdict!DirectoryOffset, Verdict!DirectoryCount
    <2>3. /\ Int64(file.eocd[1].cdOffset) = file.eocd[1].cdOffset
          /\ Int64(file.eocd[1].entries) = file.eocd[1].entries
        BY <1>3, WidthAssumption DEF EndOfCentralDirectory, U16, U32, Int64
    <2> QED
        BY <2>1, <2>2, <2>3
<1> QED
    BY <1>4, <1>5

\* No two entries of a table without duplicates have one name.
LEMMA NamesDiffer ==
    ASSUME RunInv, pc \in AfterManifest, \A i \in 1..N : KindsOf(entries[i].issues) = {}
    PROVE  \A i, j \in 1..N : NameOf(i) = NameOf(j) => i = j
<1>1. pc # "exit" /\ pc # "detectDuplicates" /\ pc \in AfterDuplicates
    BY DEF AfterManifest, AfterDuplicates, AfterConflicts, AfterPick
<1>2. Scanned("detectDuplicates", AfterDuplicates) = N
    BY <1>1 DEF Scanned
<1>3. ASSUME NEW i \in 1..N PROVE ~Reports(entries[i].issues, {"duplicate_name"})
    BY KindsReported
<1>4. \A i \in 1..N : ~(\E j \in 1..N : j # i /\ NameOf(j) = NameOf(i))
    <2>1. N \in Nat
        BY EntryTypes DEF RunInv
    <2> QED
        BY <1>1, <1>2, <1>3, <2>1 DEF RunInv, DuplicatesFlagged
<1> QED
    BY <1>4

LEMMA CleanOutput ==
    ASSUME RunInv, pc = "output", ~(issueCount > 0)
    PROVE  /\ \A i \in 1..N : /\ entries[i].lfh # << >>
                              /\ entries[i].lfh[1].sigOK
                              /\ StreamReading(entries[i].lfh[1]) = DirectoryReading(entries[i])
           /\ \A i, j \in 1..N : NameOf(i) = NameOf(j) => i = j
           /\ file.eocd[1].cdOffset \in {Sentinel32, cdOffset}
           /\ file.eocd[1].entries \in {Sentinel16, entryCount}
<1>1. pc \in AfterManifest /\ pc \in AfterHeaders /\ pc \in AfterBlock
    BY DEF AfterManifest, AfterBlock, AfterAlloc, AfterTable, AfterHeaders, AfterDuplicates,
       AfterConflicts, AfterPick
<1>2. /\ KindsOf(archiveIssues) = {}
      /\ \A i \in 1..N : KindsOf(entries[i].issues) = {}
    BY CountTells
<1> QED
    BY <1>1, <1>2, EntryClean, NamesDiffer, EndsAgree

\* A program that has stopped stays as it is.
LEMMA ExitIsFinal ==
    ASSUME pc = "exit", [Next]_vars
    PROVE  UNCHANGED vars
BY DEF Next, Terminated, Heads, OpenFile, FindEOCD, NotZIP64, FindZIP64EOCD, FindSigningBlock,
   AllocateEntries, ReadCDRecord, CentralDirectoryRead, Passes, FlagOffsetOutOfRange,
   ReadLocalHeader, LoopDone, RecordName, FlagDuplicate, GatherName, FlagConflict,
   AuditFilename, PickManifest, NoManifest, AnalyzeManifest, CountArchiveIssues, ReportEntry,
   InLoop, Stops, UsageOrOpenError, NoEOCD, BadZIP64EOCD, BadSigningBlock, SigningBlockPanic,
   SeekCDError, AllocateEntriesPanic, BadCDRecord, BadLocalHeader, ManifestPanic, Exit,
   WriteJSONError

\* Exit code 0 is given by one action, to a run without issues.
LEMMA CleanExit ==
    ASSUME RunInv, pc # "exit", [Next]_vars, exitCode' = 0
    PROVE  /\ pc = "output" /\ ~(issueCount > 0)
           /\ file' = file /\ entries' = entries
           /\ cdOffset' = cdOffset /\ entryCount' = entryCount
<1>1. exitCode = -1
    BY DEF RunInv, HeadInv
<1>2. Exit
    BY <1>1 DEF Next, Terminated, Heads, OpenFile, FindEOCD, NotZIP64, FindZIP64EOCD,
       FindSigningBlock, AllocateEntries, ReadCDRecord, CentralDirectoryRead, Passes,
       FlagOffsetOutOfRange, ReadLocalHeader, LoopDone, RecordName, FlagDuplicate, GatherName,
       FlagConflict, AuditFilename, PickManifest, NoManifest, AnalyzeManifest,
       CountArchiveIssues, ReportEntry, Stops, UsageOrOpenError, NoEOCD, BadZIP64EOCD,
       BadSigningBlock, SigningBlockPanic, SeekCDError, AllocateEntriesPanic, BadCDRecord,
       BadLocalHeader, ManifestPanic, WriteJSONError, Stop, vars
<1> QED
    BY <1>2 DEF Exit, Stop, headVars

LEMMA ReadingStep ==
    ASSUME RunInv, CleanMeansOneReading, [Next]_vars
    PROVE  CleanMeansOneReading'
<1>1. CASE pc = "exit"
    <2>1. /\ exitCode' = exitCode /\ file' = file /\ entries' = entries
          /\ cdOffset' = cdOffset /\ entryCount' = entryCount
        BY <1>1, ExitIsFinal DEF vars, headVars
    <2> QED
        BY <2>1 DEF CleanMeansOneReading, N, NameOf
<1>2. CASE pc # "exit" /\ exitCode' = 0
    <2>1. /\ pc = "output" /\ ~(issueCount > 0)
          /\ file' = file /\ entries' = entries
          /\ cdOffset' = cdOffset /\ entryCount' = entryCount
        BY <1>2, CleanExit
    <2> QED
        BY <2>1, CleanOutput DEF CleanMeansOneReading, N, NameOf
<1>3. CASE exitCode' # 0
    BY <1>3 DEF CleanMeansOneReading
<1> QED
    BY <1>1, <1>2, <1>3

\* In every run, on every file, exit code 0 means that the local headers and the
\* Central Directory say the same of every entry, that no two entries share a name,
\* and that a reader which ignores ZIP64 finds the same directory.
THEOREM CleanMeansOneReadingHolds == Spec => []CleanMeansOneReading
<1>1. Init => CleanMeansOneReading
    BY DEF Init, CleanMeansOneReading
<1> QED
    BY <1>1, ReadingStep, RunCorrect, PTL DEF Spec

----------------------------------------------------------------------------
(* A clean exit: the manifests have been looked at.                        *)

\* A sum that stays below the width of an integer does not wrap.
LEMMA NoWrap ==
    ASSUME NEW u \in U64, u + 1 < Half
    PROVE  Int64((u + 1) % (2 * Half)) = u + 1
<1>1. u \in Nat /\ Half \in Nat /\ u + 1 < 2 * Half
    BY WidthAssumption DEF U64
<1>2. (u + 1) % (2 * Half) = u + 1
    BY <1>1
<1> QED
    BY <1>2 DEF Int64

\* What the analysis says of content that is there is what is wrong with it.
LEMMA ContentAnalysed ==
    ASSUME IsFile(file), NEW e \in Entry, ContentThere(e), e.dataOffset = DataAt(e)
    PROVE  ManifestIssues(file, e) = ContentFaults(e)
<1>1. UncompSize(e) \in U64
    <2>1. e.cd.uncomp \in U32 /\ e.zip64 \in Ptr(ZIP64ExtraField)
        BY DEF Entry, CentralDirectoryRecord
    <2> QED
        BY <2>1, EffectiveSizeType DEF UncompSize
<1>2. CompSize(e) \in U64
    <2>1. e.cd.comp \in U32 /\ e.zip64 \in Ptr(ZIP64ExtraField)
        BY DEF Entry, CentralDirectoryRecord
    <2> QED
        BY <2>1, EffectiveSizeType DEF CompSize
<1>3. /\ CompSize(e) \in Int /\ AxmlMinLen \in Nat \ {0} /\ file.size \in Nat /\ Half \in Nat
      /\ e.dataOffset \in Nat
    BY <1>2, WidthAssumption DEF U64, IsFile, Entry
<1>4. ~(e.dataOffset + CompSize(e) > file.size)
    BY <1>3 DEF ContentThere
<1>5. CASE e.cd.compression = "deflated"
    <2>1. UncompSize(e) + 1 \in AxmlMinLen..(Half - 1)
        BY <1>5 DEF ContentThere
    <2>2. UncompSize(e) \in Int
        BY <1>1, <1>3 DEF U64
    <2>3. UncompSize(e) + 1 < Half
        BY <1>3, <2>1, <2>2
    <2>4. InflateLimit(e) = UncompSize(e) + 1
        BY <1>1, <2>3, NoWrap DEF InflateLimit
    <2>5. ~(InflateLimit(e) < AxmlMinLen)
        BY <1>3, <2>1, <2>2, <2>4
    <2>6. file.axmlAt[e.dataOffset].inflates
        BY <1>5 DEF ContentThere
    <2> QED
        BY <1>4, <1>5, <2>5, <2>6 DEF ManifestIssues, DataUnreadable, ContentFaults
<1>6. CASE e.cd.compression # "deflated"
    <2>1. ~(CompSize(e) < AxmlMinLen)
        BY <1>3, <1>6 DEF ContentThere
    <2> QED
        BY <1>4, <1>6, <2>1 DEF ManifestIssues, DataUnreadable, ContentFaults
<1> QED
    BY <1>5, <1>6

LEMMA ManifestClean ==
    ASSUME RunInv, pc = "output", ~(issueCount > 0), NEW i \in 1..N,
           NameOf(i) = ManifestName, ContentThere(entries[i])
    PROVE  ContentFaults(entries[i]) = << >>
<1> DEFINE e == entries[i]
<1>1. /\ pc \in AfterManifest /\ pc \in AfterHeaders /\ pc \in AfterTable /\ pc \in AfterPick
      /\ pc # "exit"
    BY DEF AfterManifest, AfterTable, AfterHeaders, AfterDuplicates, AfterConflicts, AfterPick
<1>2. \A j \in 1..N : KindsOf(entries[j].issues) = {}
    BY CountTells
<1>3. e \in Entry /\ IsFile(file) /\ e.lfhOffset \in 0..(file.size - 1)
    BY EntryTypes DEF RunInv, TypeOK, ContentThere
<1>4. i \in Located(N)
    <2>1. e.lfh[1].sigOK
        BY <1>1, <1>2, EntryClean
    <2>2. Accounted(file, e)
        BY <1>1, HeadersFound
    <2>3. ~Reports(e.issues, OutOfRange)
        BY <1>2, KindsReported
    <2>4. e.lfh = <<file.lfhAt[e.lfhOffset]>>
        BY <2>2, <2>3 DEF Accounted
    <2>5. file.lfhAt[e.lfhOffset].sigOK
        BY <2>1, <2>4
    <2> QED
        BY <1>3, <2>5 DEF Located
<1>5. manifest = i
    <2>1. manifest \in Located(N) /\ manifest \in 1..N
        BY <1>1, <1>4, ManifestChosen
    <2>2. NameOf(manifest) = NameOf(i)
        BY <2>1 DEF Located
    <2> QED
        BY <1>1, <1>2, <2>1, <2>2, NamesDiffer
<1>6. e.dataOffset = DataAt(e)
    <2>1. SameRow(e, Row(i)) /\ HeaderDone(file, Row(i), e)
        BY <1>1, RowType, HeadersRead DEF RunInv
    <2>2. Row(i).lfhOffset = e.lfhOffset /\ e.lfhOffset < file.size
        BY <1>3, <2>1 DEF SameRow, IsFile
    <2> QED
        BY <2>1, <2>2 DEF HeaderDone, DataAt
<1>7. KindsOf(ManifestIssues(file, e)) = {}
    <2>1. KindsOf(e.issues) \cap AXMLKind = KindsOf(ManifestIssues(file, e))
        BY <1>1, <1>5 DEF RunInv, AnalysisInv
    <2> QED
        BY <1>2, <2>1
<1> HIDE DEF e
<1>8. ManifestIssues(file, e) = << >>
    <2>1. ManifestIssues(file, e) \in Seq(AXMLKind)
        BY <1>3, ManifestIssuesType
    <2> QED
        BY <1>7, <2>1, KindsType
<1>9. ManifestIssues(file, e) = ContentFaults(e)
    BY <1>3, <1>6, ContentAnalysed DEF e
<1> QED
    BY <1>8, <1>9 DEF e

LEMMA ManifestCleanStep ==
    ASSUME RunInv, CleanManifest, [Next]_vars
    PROVE  CleanManifest'
<1>1. CASE pc = "exit"
    <2>1. exitCode' = exitCode /\ file' = file /\ entries' = entries
        BY <1>1, ExitIsFinal DEF vars, headVars
    <2> QED
        BY <2>1 DEF CleanManifest, N, NameOf, ContentThere, ContentFaults, DataAt, CompSize,
           UncompSize
<1>2. CASE pc # "exit" /\ exitCode' = 0
    <2>1. pc = "output" /\ ~(issueCount > 0) /\ file' = file /\ entries' = entries
        BY <1>2, CleanExit
    <2> QED
        BY <2>1, ManifestClean DEF CleanManifest, N, NameOf, ContentThere, ContentFaults,
           DataAt, CompSize, UncompSize
<1>3. CASE exitCode' # 0
    BY <1>3 DEF CleanManifest
<1> QED
    BY <1>1, <1>2, <1>3

\* In every run, on every file, exit code 0 means that no manifest whose content is there
\* has a fault: none has escaped the analysis by an issue, an error or a pass before it.
THEOREM CleanManifestHolds == Spec => []CleanManifest
<1>1. Init => CleanManifest
    BY DEF Init, CleanManifest
<1> QED
    BY <1>1, ManifestCleanStep, RunCorrect, PTL DEF Spec

----------------------------------------------------------------------------
(* A clean exit: the names of the archive are harmless.                    *)

\* A name that contains no "../" and no "..\" never goes up, whatever the separators.
LEMMA NoUps ==
    ASSUME NEW name \in Seq(Nat \cup {Invalid}), NEW separators \in SUBSET Windows, NEW k,
           \A seq \in pathTraversalSequences : ~contains(name, seq)
    PROVE  Ups(name, separators, k) = {}
<1>1. Len(name) \in Nat /\ DOMAIN name = 1..Len(name)
    BY LenProperties
<1>2. ASSUME NEW p \in Ups(name, separators, k) PROVE FALSE
    <2> DEFINE seq == <<Dot, Dot, name[p[2]]>>
    <2>1. /\ p[1] \in 1..Len(name) /\ p[2] \in 1..Len(name) /\ p[2] - p[1] = 2
          /\ name[p[1]] = Dot /\ name[p[1] + 1] = Dot
          /\ name[p[2]] \in {Slash, Backslash}
        BY <1>1, <1>2 DEF Ups, DirParts, IsUp, Windows
    <2>2. seq \in pathTraversalSequences
        BY <2>1 DEF pathTraversalSequences
    <2>3. p[1] - 1 \in 0..(Len(name) - 3) /\ p[1] + 2 = p[2]
        BY <1>1, <2>1
    <2>4. \A j \in 1..3 : name[(p[1] - 1) + j] = seq[j]
        <3>1. /\ (p[1] - 1) + 1 = p[1] /\ (p[1] - 1) + 2 = p[1] + 1 /\ (p[1] - 1) + 3 = p[2]
            BY <2>1, <2>3
        <3>2. \A j \in 1..3 : j = 1 \/ j = 2 \/ j = 3
            OBVIOUS
        <3>3. seq[1] = Dot /\ seq[2] = Dot /\ seq[3] = name[p[2]]
            OBVIOUS
        <3> HIDE DEF seq
        <3> QED
            BY <2>1, <3>1, <3>2, <3>3
    <2>5. Len(seq) = 3 /\ DOMAIN seq = 1..3
        OBVIOUS
    <2>6. contains(name, seq)
        BY <2>3, <2>4, <2>5 DEF contains
    <2> QED
        BY <2>2, <2>6
<1> QED
    BY <1>2

LEMMA DownsFinite ==
    ASSUME NEW name \in Seq(Nat \cup {Invalid}), NEW separators, NEW k
    PROVE  Cardinality(Downs(name, separators, k)) \in Nat
<1>1. Len(name) \in Nat /\ DOMAIN name = 1..Len(name)
    BY LenProperties
<1>2. IsFiniteSet(1..Len(name))
    BY <1>1, FS_Interval
<1>3. IsFiniteSet((1..Len(name)) \X (1..Len(name)))
    BY <1>2, FS_Product
<1>4. Downs(name, separators, k) \subseteq (1..Len(name)) \X (1..Len(name))
    BY <1>1 DEF Downs, DirParts
<1>5. IsFiniteSet(Downs(name, separators, k))
    BY <1>3, <1>4, FS_Subset
<1> QED
    BY <1>5, FS_CardinalityType

\* A name of which auditFilename has nothing to say shows what it is and stays where
\* it is extracted to, but for what it leaves to Windows.
LEMMA AuditClean ==
    ASSUME NEW name \in Seq(Nat \cup {Invalid}), auditFilename(name) = << >>
    PROVE  Harmless(name)
<1> DEFINE S == FilenameKind
           c1 == \E k \in DOMAIN name : isControl(name[k])
           c2 == ~isValid(name)
           c3 == isValid(name) /\ \E k \in DOMAIN name : isDangerousUnicode(name[k])
           c4 == hasPrefixSlash(name) \/ \E seq \in pathTraversalSequences : contains(name, seq)
           f1 == Flag(c1, "filename_control_char")
           f2 == Flag(c2, "filename_invalid_utf8")
           f3 == Flag(c3, "filename_dangerous_unicode")
           f4 == Flag(c4, "filename_path_traversal")
<1>1. f1 \in Seq(S) /\ f2 \in Seq(S) /\ f3 \in Seq(S) /\ f4 \in Seq(S)
    <2>1. \A c : /\ Flag(c, "filename_control_char") \in Seq(S)
                 /\ Flag(c, "filename_invalid_utf8") \in Seq(S)
                 /\ Flag(c, "filename_dangerous_unicode") \in Seq(S)
                 /\ Flag(c, "filename_path_traversal") \in Seq(S)
        BY FlagType DEF FilenameKind
    <2> HIDE DEF S, c1, c2, c3, c4
    <2> QED
        BY <2>1
<1>2. auditFilename(name) = ((f1 \o f2) \o f3) \o f4
    BY Zenon DEF auditFilename
<1>3. c1 \in BOOLEAN /\ c2 \in BOOLEAN /\ c3 \in BOOLEAN /\ c4 \in BOOLEAN
    OBVIOUS
<1> HIDE DEF S, c1, c2, c3, c4
<1>4. (f1 = << >> => ~c1) /\ (f2 = << >> => ~c2) /\ (f3 = << >> => ~c3) /\ (f4 = << >> => ~c4)
    BY <1>3, FlagEmpty
<1> HIDE DEF f1, f2, f3, f4
<1>5. f1 \o f2 \in Seq(S) /\ (f1 \o f2) \o f3 \in Seq(S)
    BY <1>1, ConcatType
<1>6. (f1 \o f2) \o f3 = << >> /\ f4 = << >>
    BY <1>1, <1>2, <1>5, ConcatEmpty
<1>7. f1 \o f2 = << >> /\ f3 = << >>
    BY <1>1, <1>5, <1>6, ConcatEmpty
<1>8. f1 = << >> /\ f2 = << >>
    BY <1>1, <1>7, ConcatEmpty
<1>9. ~c1 /\ ~c2 /\ ~c3 /\ ~c4
    BY <1>4, <1>6, <1>7, <1>8
<1>10. ShownAsIs(name)
    BY <1>9 DEF c1, c2, c3, ShownAsIs, isValid
<1>11. ~hasPrefixSlash(name) /\ \A seq \in pathTraversalSequences : ~contains(name, seq)
    BY <1>9 DEF c4
<1>12. ASSUME NEW separators \in SUBSET Windows PROVE ~Climbs(name, separators)
    <2>1. ASSUME NEW k \in DOMAIN name
          PROVE  ~(Cardinality(Ups(name, separators, k)) > Cardinality(Downs(name, separators, k)))
        <3>1. Cardinality(Ups(name, separators, k)) = 0
            BY <1>11, NoUps, FS_EmptySet
        <3>2. Cardinality(Downs(name, separators, k)) \in Nat
            BY DownsFinite
        <3>3. \A n \in Nat : ~(0 > n)
            OBVIOUS
        <3> QED
            BY <3>1, <3>2, <3>3, Zenon
    <2> QED
        BY <2>1 DEF Climbs
<1>13. ~Climbs(name, Posix) /\ ~Climbs(name, Windows)
    BY <1>12 DEF Posix, Windows
<1>14. RootedOnWindows(name) => name[1] = Backslash \/ name[2] = Colon
    BY <1>11 DEF RootedOnWindows, hasPrefixSlash, Windows
<1> QED
    BY <1>10, <1>11, <1>13, <1>14
       DEF Harmless, EscapesOnPosix, EscapesOnWindows, RootedOnPosix

LEMMA NamesSafe ==
    ASSUME RunInv, pc = "output", ~(issueCount > 0), NEW i \in 1..N
    PROVE  \A name \in NamesOf(i) : Harmless(name)
<1>1. pc \in AfterManifest /\ pc \in AfterHeaders /\ pc \in AfterAudit /\ pc # "auditFilenames"
    BY DEF AfterManifest, AfterAudit, AfterHeaders, AfterDuplicates, AfterConflicts, AfterPick
<1>2. KindsOf(entries[i].issues) = {}
    BY CountTells
<1>3. NameOf(i) \in Name /\ N \in Nat
    BY EntryTypes DEF RunInv
<1>4. KindsOf(AuditOf[NameOf(i)]) = {}
    <2>1. AuditScanned = N
        BY <1>1 DEF AuditScanned, Scanned
    <2>2. KindsOf(entries[i].issues) \cap FilenameKind = KindsOf(AuditOf[NameOf(i)])
        BY <1>1, <1>3, <2>1 DEF RunInv, AuditInv
    <2> QED
        BY <1>2, <2>2
<1>5. AuditOf[NameOf(i)] = << >>
    <2>1. AuditOf[NameOf(i)] \in Seq(FilenameKind)
        BY <1>3, NameAssumption
    <2> QED
        BY <1>4, <2>1, KindsType
<1>6. Harmless(NameOf(i))
    <2>1. NameOf(i) \in Seq(Nat \cup {Invalid}) /\ auditFilename(NameOf(i)) = << >>
        BY <1>3, <1>5, NameFormAssumption
    <2> QED
        BY <2>1, AuditClean
<1>7. \A k \in DOMAIN entries[i].lfh : entries[i].lfh[k].name = NameOf(i)
    <2>1. entries[i].lfh[1].name = NameOf(i) /\ entries[i].lfh = <<entries[i].lfh[1]>>
        BY <1>1, <1>2, EntryClean
    <2>2. DOMAIN entries[i].lfh = {1}
        BY <2>1
    <2> QED
        BY <2>1, <2>2
<1> QED
    BY <1>6, <1>7 DEF NamesOf

LEMMA NamesStep ==
    ASSUME RunInv, CleanNamesSafe, [Next]_vars
    PROVE  CleanNamesSafe'
<1>1. CASE pc = "exit"
    <2>1. exitCode' = exitCode /\ entries' = entries
        BY <1>1, ExitIsFinal DEF vars
    <2> QED
        BY <2>1 DEF CleanNamesSafe, NamesOf, N, NameOf
<1>2. CASE pc # "exit" /\ exitCode' = 0
    <2>1. pc = "output" /\ ~(issueCount > 0) /\ entries' = entries
        BY <1>2, CleanExit
    <2> QED
        BY <2>1, NamesSafe DEF CleanNamesSafe, NamesOf, N, NameOf
<1>3. CASE exitCode' # 0
    BY <1>3 DEF CleanNamesSafe
<1> QED
    BY <1>1, <1>2, <1>3

\* In every run, on every file, exit code 0 means that every name, in the Central
\* Directory and in the local headers, shows what it is and, followed from the left,
\* never climbs out of the directory it is extracted to; a name can then leave that
\* directory on Windows alone, by a backslash or a drive letter at its beginning.
THEOREM CleanNamesSafeHolds == Spec => []CleanNamesSafe
<1>1. Init => CleanNamesSafe
    BY DEF Init, CleanNamesSafe
<1> QED
    BY <1>1, NamesStep, RunCorrect, PTL DEF Spec
============================================================================
