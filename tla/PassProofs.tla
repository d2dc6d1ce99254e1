---------------------------- MODULE PassProofs ----------------------------
(***************************************************************************)
(* Proofs about single passes of OpenReader: readLocalHeaders accounts for *)
(* every entry, detectDirectoryConflicts flags exactly the names that      *)
(* stand for both a file and a directory, analyzeManifest picks the last   *)
(* manifest that can be read, and BuildReport leaves nothing out.          *)
(***************************************************************************)
EXTENDS OpenReaderInvariants

----------------------------------------------------------------------------
(* readLocalHeaders: the passes after it rely on this for their seeks.     *)

OutOfRange == {"lfh_offset_out_of_range"}
BadSignature == {"lfh_signature_bad"}

\* What HeadersAccounted says of one entry of the file f.
Accounted(f, e) ==
    \/ /\ e.lfh = << >>
       /\ e.dataOffset = 0
       /\ e.lfhOffset >= f.size
       /\ Reports(e.issues, OutOfRange)
    \/ /\ e.lfhOffset \in 0..(f.size - 1)
       /\ e.lfh = <<f.lfhAt[e.lfhOffset]>>
       /\ e.dataOffset \in 1..f.size
       /\ ~Reports(e.issues, OutOfRange)
       /\ Reports(e.issues, BadSignature) <=> ~e.lfh[1].sigOK

HeaderScanned == Scanned("readLocalHeaders", AfterHeaders)

\* An entry whose offset lies past the end.
LEMMA FlaggedAccounted ==
    ASSUME TypeOK, LoopInv, FlagOffsetOutOfRange
    PROVE  /\ cur \in 1..N
           /\ Accounted(file, entries'[cur])
           /\ \A i \in 1..N : i # cur => /\ entries'[i].lfh = entries[i].lfh
                                         /\ entries'[i].lfhOffset = entries[i].lfhOffset
                                         /\ entries'[i].dataOffset = entries[i].dataOffset
                                         /\ entries'[i].issues = entries[i].issues
<1> DEFINE t == <<"lfh_offset_out_of_range">>
<1>1. /\ cur \in 1..N
      /\ entries' = AppendIssues(entries, cur, t)
      /\ entries[cur].lfhOffset >= file.size
      /\ Fresh(entries[cur])
    BY InLoopRange DEF FlagOffsetOutOfRange, InLoop, LoopInv, TypeOK
<1>2. /\ t \in Seq(IssueKind) /\ 1 \in DOMAIN t /\ t[1] \in OutOfRange
    BY DEF IssueKind, EntryKind, OutOfRange
<1>3. entries \in Seq(Entry) /\ Len(entries) = N
    BY DEF TypeOK, N
<1> HIDE DEF t
<1>4. \A i \in 1..N :
        /\ entries'[i].lfh = entries[i].lfh
        /\ entries'[i].lfhOffset = entries[i].lfhOffset
        /\ entries'[i].dataOffset = entries[i].dataOffset
        /\ entries'[i].issues = IF i = cur THEN entries[i].issues \o t ELSE entries[i].issues
    BY <1>1, <1>2, <1>3, AppendType
<1>5. Reports(entries'[cur].issues, OutOfRange)
    <2>1. Reports(t, OutOfRange)
        BY <1>2 DEF Reports
    <2>2. Reports(entries[cur].issues \o t, OutOfRange)
        BY <1>1, <1>2, <2>1, EntryTypes, ReportsConcat
    <2> QED
        BY <1>1, <1>4, <2>2
<1> QED
    BY <1>1, <1>4, <1>5 DEF Accounted, Fresh

\* An entry whose header is read.
LEMMA AttachedAccounted ==
    ASSUME TypeOK, LoopInv, ReadLocalHeader
    PROVE  /\ cur \in 1..N
           /\ Accounted(file, entries'[cur])
           /\ \A i \in 1..N : i # cur => entries'[i] = entries[i]
<1> DEFINE e == entries[cur]
           l == file.lfhAt[e.lfhOffset]
<1>1. /\ cur \in 1..N
      /\ e.lfhOffset \in 0..(file.size - 1)
      /\ e.lfhOffset + l.len <= file.size
      /\ l \in LocalFileHeader
      /\ entries'[cur] = AttachLFH(e, l)
      /\ \A i \in 1..N : i # cur => entries'[i] = entries[i]
    BY HeaderAttached
<1>2. e \in Entry /\ Fresh(e) /\ file.size \in Nat
    BY <1>1, EntryTypes DEF ReadLocalHeader, InLoop, LoopInv, TypeOK, IsFile
<1> HIDE DEF e
<1>3. e.lfhOffset >= 0
    BY <1>1, <1>2
<1> HIDE DEF l
<1>4. PICK s \in Seq(HeaderKind) :
        /\ AttachLFH(e, l).issues = e.issues \o s
        /\ Reports(s, {"lfh_signature_bad"}) <=> ~l.sigOK
        /\ ~Reports(s, {"lfh_offset_out_of_range"})
    BY <1>1, <1>2, <1>3, AttachType
<1>5. /\ AttachLFH(e, l).lfhOffset = e.lfhOffset
      /\ AttachLFH(e, l).lfh = <<l>>
      /\ AttachLFH(e, l).dataOffset = e.lfhOffset + l.len
    BY <1>1, <1>2, <1>3, AttachType
<1>6. e.issues \o s = s
    BY <1>2, ConcatEmptySeq DEF Fresh
<1>7. e.lfhOffset + l.len \in 1..file.size
    BY <1>1, <1>2 DEF LocalFileHeader
<1>8. Accounted(file, AttachLFH(e, l))
    BY <1>1, <1>4, <1>5, <1>6, <1>7 DEF Accounted, OutOfRange, BadSignature, l
<1> QED
    BY <1>1, <1>8

\* The passes after readLocalHeaders leave the account of an entry alone.
LEMMA AccountKept ==
    ASSUME TypeOK, Passes, pc # "readLocalHeaders", NEW i \in 1..N, Accounted(file, entries[i])
    PROVE  Accounted(file, entries'[i])
<1>1. /\ entries'[i].lfh = entries[i].lfh
      /\ entries'[i].lfhOffset = entries[i].lfhOffset
      /\ entries'[i].dataOffset = entries[i].dataOffset
    BY PassIssues
<1>2. PassKind(pc) \cap OutOfRange = {} /\ PassKind(pc) \cap BadSignature = {}
    BY DEF PassKind, OutOfRange, BadSignature, FilenameKind, AXMLKind
<1>3. /\ Reports(entries'[i].issues, OutOfRange) <=> Reports(entries[i].issues, OutOfRange)
      /\ Reports(entries'[i].issues, BadSignature) <=> Reports(entries[i].issues, BadSignature)
    BY <1>2, PassReports
<1> QED
    BY <1>1, <1>3 DEF Accounted

LEMMA HeaderPasses ==
    ASSUME TypeOK, LoopInv, \A i \in 1..HeaderScanned : Accounted(file, entries[i]), Passes
    PROVE  \A i \in 1..HeaderScanned' : Accounted(file', entries'[i])
<1>1. N \in Nat /\ cur \in Nat \ {0} /\ N' = N
    BY EntryTypes, PassNames DEF TypeOK
<1>2. file' = file
    BY DEF Passes, FlagOffsetOutOfRange, ReadLocalHeader, LoopDone, RecordName, FlagDuplicate,
           GatherName, FlagConflict, AuditFilename, PickManifest, NoManifest, AnalyzeManifest,
           CountArchiveIssues, ReportEntry
<1>3. CASE FlagOffsetOutOfRange \/ ReadLocalHeader
    <2>1. /\ cur \in 1..N /\ pc = "readLocalHeaders" /\ pc' = pc /\ cur' = cur + 1
          /\ Accounted(file, entries'[cur])
          /\ \A i \in 1..N :
                i # cur => (Accounted(file, entries[i]) => Accounted(file, entries'[i]))
        BY <1>3, FlaggedAccounted, AttachedAccounted
           DEF FlagOffsetOutOfRange, ReadLocalHeader, InLoop, Accounted
    <2>2. HeaderScanned = cur - 1 /\ HeaderScanned' = cur
        BY <1>1, <2>1 DEF HeaderScanned, Scanned
    <2>3. ASSUME NEW i \in 1..cur PROVE Accounted(file, entries'[i])
        <3>1. i = cur \/ i \in 1..(cur - 1)
            BY <1>1
        <3>2. i \in 1..N
            BY <1>1, <2>1
        <3> QED
            BY <2>1, <2>2, <3>1, <3>2
    <2> QED
        BY <1>2, <2>2, <2>3
<1>4. CASE LoopDone("readLocalHeaders", "detectDuplicates")
    <2>1. /\ entries' = entries /\ pc = "readLocalHeaders" /\ pc' = "detectDuplicates"
          /\ cur = N + 1
        BY <1>1, <1>4 DEF LoopDone, LoopInv
    <2>2. HeaderScanned = N /\ HeaderScanned' = N
        BY <1>1, <2>1 DEF HeaderScanned, Scanned, AfterHeaders, AfterDuplicates,
           AfterConflicts, AfterPick
    <2> QED
        BY <1>2, <2>1, <2>2
<1>5. CASE pc \in AfterHeaders /\ pc' \in AfterHeaders
    <2>1. HeaderScanned = N /\ HeaderScanned' = N /\ pc # "readLocalHeaders"
        BY <1>1, <1>5 DEF HeaderScanned, Scanned, AfterHeaders, AfterDuplicates,
           AfterConflicts, AfterPick
    <2> QED
        BY <1>2, <2>1, AccountKept
<1>6. \/ FlagOffsetOutOfRange \/ ReadLocalHeader
      \/ LoopDone("readLocalHeaders", "detectDuplicates")
      \/ pc \in AfterHeaders /\ pc' \in AfterHeaders
    BY DEF Passes, LoopDone, RecordName, FlagDuplicate, GatherName, FlagConflict, AuditFilename,
       PickManifest, NoManifest, AnalyzeManifest, CountArchiveIssues, ReportEntry, InLoop,
       AfterHeaders, AfterDuplicates, AfterConflicts, AfterPick
<1> QED
    BY <1>3, <1>4, <1>5, <1>6

LEMMA HeaderStep ==
    ASSUME TypeOK, LoopInv, HeadersAccounted, [Next]_vars
    PROVE  HeadersAccounted'
<1>1. \A i \in 1..HeaderScanned : Accounted(file, entries[i])
    BY DEF HeadersAccounted, Accounted, HeaderScanned, OutOfRange, BadSignature
<1>2. SUFFICES \A i \in 1..HeaderScanned' : Accounted(file', entries'[i])
    BY DEF HeadersAccounted, Accounted, HeaderScanned, OutOfRange, BadSignature
<1>3. CASE Passes
    BY <1>1, <1>3, HeaderPasses
<1>4. CASE Heads
    <2>1. /\ pc \in HeadLabel /\ pc' \in HeadLabel \cup {"readLocalHeaders"} /\ cur' = cur
        BY <1>4 DEF Heads, OpenFile, FindEOCD, NotZIP64, FindZIP64EOCD, FindSigningBlock,
               AllocateEntries, ReadCDRecord, CentralDirectoryRead, HeadLabel
    <2>2. cur = 1
        BY <2>1 DEF LoopInv, HeadLabel
    <2>3. HeaderScanned' = 0
        BY <2>1, <2>2
           DEF HeadLabel, HeaderScanned, Scanned, AfterHeaders, AfterDuplicates,
              AfterConflicts, AfterPick
    <2> QED
        BY <2>3
<1>5. CASE Stops
    <2>1. pc' = "exit"
        BY <1>5, StopsStop DEF Stop
    <2>2. HeaderScanned' = 0
        BY <2>1 DEF HeaderScanned, Scanned, AfterHeaders, AfterDuplicates, AfterConflicts,
           AfterPick
    <2> QED
        BY <2>2
<1>6. CASE UNCHANGED vars
    <2>1. HeaderScanned' = HeaderScanned /\ file' = file /\ entries' = entries
        BY <1>6 DEF vars, HeaderScanned, Scanned, N
    <2> QED
        BY <1>1, <2>1
<1> QED
    BY <1>3, <1>4, <1>5, <1>6 DEF Next, Terminated

\* In every run, on every file, an entry that readLocalHeaders has dealt with is
\* either flagged as out of the file, or has the whole header that its record
\* points at, with its data beginning inside the file.
THEOREM HeadersAccountedHolds == Spec => []HeadersAccounted
<1>1. Init => HeadersAccounted
    BY DEF Init, HeadersAccounted, Scanned, AfterHeaders, AfterDuplicates, AfterConflicts,
       AfterPick
<1>2. TypeOK /\ LoopInv /\ HeadersAccounted /\ [Next]_vars => HeadersAccounted'
    BY HeaderStep
<1> QED
    BY <1>1, <1>2, TypeCorrect, LoopCorrect, PTL DEF Spec

----------------------------------------------------------------------------
(* detectDirectoryConflicts: its two loops meet in fileNames and dirNames, *)
(* the first fills them and the second reads them.                         *)

Gathered == {"detectDirectoryConflicts"} \cup AfterConflicts
NameScanned == Scanned("gatherNames", Gathered)
FlagScanned == Scanned("detectDirectoryConflicts", AfterConflicts)

\* The two sets hold exactly the names gathered so far.
GatherInv ==
    pc # "exit" =>
        \A x \in Name :
            /\ x \in fileNames <=> \E j \in 1..NameScanned : ~IsDir(NameOf(j)) /\ NameOf(j) = x
            /\ x \in dirNames
                 <=> \E j \in 1..NameScanned : IsDir(NameOf(j)) /\ BaseOf[NameOf(j)] = x

ClashNames(n1, n2) ==
    \/ IsDir(n1) /\ ~IsDir(n2) /\ BaseOf[n1] = n2
    \/ IsDir(n2) /\ ~IsDir(n1) /\ BaseOf[n2] = n1

ConflictKind == {"directory_file_conflict"}

\* Before the passes nothing has been gathered or flagged.
LEMMA ConflictHeads ==
    ASSUME TypeOK, LoopInv, Heads
    PROVE  GatherInv' /\ ConflictsFlagged'
<1>1. pc \in HeadLabel /\ pc' \in HeadLabel \cup {"readLocalHeaders"} /\ cur' = cur
    BY DEF Heads, OpenFile, FindEOCD, NotZIP64, FindZIP64EOCD, FindSigningBlock,
           AllocateEntries, ReadCDRecord, CentralDirectoryRead, HeadLabel
<1>2. LoopInv' /\ TypeOK'
    BY LoopHeads, TypeHeads
<1>3. NameScanned' = 0 /\ FlagScanned' = 0 /\ pc' # "exit"
    BY <1>1 DEF HeadLabel, NameScanned, FlagScanned, Scanned, Gathered, AfterConflicts,
       AfterPick
<1>4. /\ fileNames' = {} /\ dirNames' = {}
      /\ \A i \in 1..N' : entries'[i].issues = << >>
    <2>1. cur \in Nat \ {0} /\ N' \in Nat
        BY <1>2, LenProperties DEF TypeOK, N
    <2>2. cur = 1
        BY <1>1 DEF LoopInv, HeadLabel
    <2> QED
        BY <1>1, <1>2, <2>1, <2>2 DEF LoopInv, HeadLabel, Fresh
<1>5. GatherInv'
    BY <1>3, <1>4 DEF GatherInv
<1>6. \A i \in 1..N' : ~Reports(entries'[i].issues, ConflictKind) /\ ~(i <= 0)
    BY <1>4 DEF Reports
<1>7. ConflictsFlagged'
    BY <1>3, <1>6 DEF ConflictsFlagged, FlagScanned, ConflictKind
<1> QED
    BY <1>5, <1>7

\* A pass that is neither of the two loops moves neither of them.
LEMMA ConflictQuiet ==
    ASSUME TypeOK, LoopInv, Passes, ~GatherName, ~FlagConflict
    PROVE  /\ NameScanned' = NameScanned
           /\ FlagScanned' = FlagScanned
           /\ fileNames' = fileNames /\ dirNames' = dirNames
           /\ pc = "detectDirectoryConflicts" => entries' = entries
<1> DEFINE Before == {"readLocalHeaders", "detectDuplicates"}
<1>1. N \in Nat /\ cur \in Nat \ {0} /\ N' = N
    BY EntryTypes, PassNames DEF TypeOK
<1>2. /\ fileNames' = fileNames /\ dirNames' = dirNames
      /\ pc = "detectDirectoryConflicts" => entries' = entries
    BY DEF Passes, FlagOffsetOutOfRange, ReadLocalHeader, LoopDone, RecordName, FlagDuplicate,
       AuditFilename, PickManifest, NoManifest, AnalyzeManifest, CountArchiveIssues,
       ReportEntry, InLoop, nameVars
<1>3. \/ pc \in Before /\ pc' \in Before
      \/ LoopDone("detectDuplicates", "gatherNames")
      \/ LoopDone("gatherNames", "detectDirectoryConflicts")
      \/ LoopDone("detectDirectoryConflicts", "auditFilenames")
      \/ pc \in AfterConflicts /\ pc' \in AfterConflicts
    BY DEF Passes, FlagOffsetOutOfRange, ReadLocalHeader, LoopDone, RecordName, FlagDuplicate,
       AuditFilename, PickManifest, NoManifest, AnalyzeManifest, CountArchiveIssues,
       ReportEntry, InLoop, AfterConflicts, AfterPick
<1>4. CASE pc \in Before /\ pc' \in Before
    BY <1>2, <1>4 DEF NameScanned, FlagScanned, Scanned, Gathered, AfterConflicts, AfterPick
<1>5. CASE LoopDone("detectDuplicates", "gatherNames")
    BY <1>2, <1>5 DEF LoopDone, NameScanned, FlagScanned, Scanned, Gathered, AfterConflicts,
       AfterPick
<1>6. CASE LoopDone("gatherNames", "detectDirectoryConflicts")
    <2>1. cur = N + 1
        BY <1>1, <1>6 DEF LoopDone, LoopInv
    <2> QED
        BY <1>1, <1>2, <1>6, <2>1
           DEF LoopDone, NameScanned, FlagScanned, Scanned, Gathered, AfterConflicts, AfterPick
<1>7. CASE LoopDone("detectDirectoryConflicts", "auditFilenames")
    <2>1. cur = N + 1
        BY <1>1, <1>7 DEF LoopDone, LoopInv
    <2> QED
        BY <1>1, <1>2, <1>7, <2>1
           DEF LoopDone, NameScanned, FlagScanned, Scanned, Gathered, AfterConflicts, AfterPick
<1>8. CASE pc \in AfterConflicts /\ pc' \in AfterConflicts
    BY <1>1, <1>2, <1>8 DEF NameScanned, FlagScanned, Scanned, Gathered, AfterConflicts,
       AfterPick
<1> QED
    BY <1>3, <1>4, <1>5, <1>6, <1>7, <1>8

\* What a step leaves of the two invariants, once it is known how far each loop is.
LEMMA ConflictFrame ==
    ASSUME TypeOK, Passes, NEW m \in Nat, NEW n \in Nat, NameScanned' = m, FlagScanned' = n,
           m <= N,
           \A x \in Name :
              /\ x \in fileNames' <=> \E j \in 1..m : ~IsDir(NameOf(j)) /\ NameOf(j) = x
              /\ x \in dirNames' <=> \E j \in 1..m : IsDir(NameOf(j)) /\ BaseOf[NameOf(j)] = x,
           \A i \in 1..N : Reports(entries'[i].issues, ConflictKind)
                             <=> /\ i <= n
                                 /\ \E j \in 1..N : ClashNames(NameOf(i), NameOf(j))
    PROVE  GatherInv' /\ ConflictsFlagged'
<1>1. N \in Nat /\ N' = N /\ \A i \in 1..N : entries'[i].cd.name = NameOf(i)
    BY EntryTypes, PassNames DEF NameOf
<1>2. \A j \in 1..m : entries'[j].cd.name = NameOf(j)
    BY <1>1
<1>3. GatherInv'
    BY <1>2 DEF GatherInv, NameOf
<1>4. \A i \in 1..N' :
        Reports(entries'[i].issues, ConflictKind)
          <=> /\ i <= FlagScanned'
              /\ \E j \in 1..N' : ClashNames(entries'[i].cd.name, entries'[j].cd.name)
    BY <1>1
<1>5. ConflictsFlagged'
    BY <1>4 DEF ConflictsFlagged, FlagScanned, ClashNames, ConflictKind, NameOf
<1> QED
    BY <1>3, <1>5

LEMMA ConflictPasses ==
    ASSUME TypeOK, LoopInv, GatherInv, ConflictsFlagged, Passes
    PROVE  GatherInv' /\ ConflictsFlagged'
<1> DEFINE Flagged(i) == Reports(entries[i].issues, ConflictKind)
           Clashes(i) == \E j \in 1..N : ClashNames(NameOf(i), NameOf(j))
<1>1. /\ N \in Nat /\ cur \in Nat \ {0} /\ N' = N
      /\ \A i \in 1..N : NameOf(i) \in Name /\ NameOf(i)' = NameOf(i)
    BY EntryTypes, PassNames DEF TypeOK
<1>2. pc # "exit" /\ cur <= N + 1
    BY DEF Passes, FlagOffsetOutOfRange, ReadLocalHeader, LoopDone, RecordName, FlagDuplicate,
           GatherName, FlagConflict, AuditFilename, PickManifest, NoManifest, AnalyzeManifest,
           CountArchiveIssues, ReportEntry, InLoop, LoopInv
<1>3. /\ NameScanned \in Nat /\ NameScanned <= N
      /\ FlagScanned \in Nat /\ FlagScanned <= N
    BY <1>1, <1>2 DEF NameScanned, FlagScanned, Scanned
<1>4. \A x \in Name :
         /\ x \in fileNames <=> \E j \in 1..NameScanned : ~IsDir(NameOf(j)) /\ NameOf(j) = x
         /\ x \in dirNames
              <=> \E j \in 1..NameScanned : IsDir(NameOf(j)) /\ BaseOf[NameOf(j)] = x
    BY <1>2 DEF GatherInv
<1>5. \A i \in 1..N : Flagged(i) <=> i <= FlagScanned /\ Clashes(i)
    BY <1>2 DEF ConflictsFlagged, FlagScanned, ClashNames, ConflictKind
<1>6. CASE GatherName
    <2>1. /\ cur \in 1..N /\ pc = "gatherNames" /\ pc' = pc /\ cur' = cur + 1
          /\ entries' = entries
        BY <1>6, InLoopRange DEF GatherName, InLoop
    <2>2. /\ NameScanned = cur - 1 /\ NameScanned' = cur
          /\ FlagScanned = 0 /\ FlagScanned' = 0
        BY <1>1, <2>1 DEF NameScanned, FlagScanned, Scanned, AfterConflicts, AfterPick
    <2>3. ASSUME NEW x
          PROVE  /\ x \in fileNames'
                      <=> (x \in fileNames \/ (~IsDir(NameOf(cur)) /\ NameOf(cur) = x))
                 /\ x \in dirNames'
                      <=> (x \in dirNames \/ (IsDir(NameOf(cur)) /\ BaseOf[NameOf(cur)] = x))
        <3>1. CASE IsDir(NameOf(cur))
            <4>1. /\ fileNames' = fileNames
                  /\ dirNames' = dirNames \cup {BaseOf[NameOf(cur)]}
                BY <1>6, <3>1 DEF GatherName
            <4> QED
                BY <3>1, <4>1
        <3>2. CASE ~IsDir(NameOf(cur))
            <4>1. /\ fileNames' = fileNames \cup {NameOf(cur)}
                  /\ dirNames' = dirNames
                BY <1>6, <3>2 DEF GatherName
            <4> QED
                BY <3>2, <4>1
        <3> QED
            BY <3>1, <3>2
    <2>4. \A j : j \in 1..cur <=> (j \in 1..(cur - 1) \/ j = cur)
        BY <1>1
    <2>5. ASSUME NEW x \in Name
          PROVE  /\ x \in fileNames' <=> \E j \in 1..cur : ~IsDir(NameOf(j)) /\ NameOf(j) = x
                 /\ x \in dirNames'
                      <=> \E j \in 1..cur : IsDir(NameOf(j)) /\ BaseOf[NameOf(j)] = x
        <3>1. /\ x \in fileNames
                   <=> \E j \in 1..(cur - 1) : ~IsDir(NameOf(j)) /\ NameOf(j) = x
              /\ x \in dirNames
                   <=> \E j \in 1..(cur - 1) : IsDir(NameOf(j)) /\ BaseOf[NameOf(j)] = x
            BY <1>4, <2>2
        <3>2. /\ x \in fileNames'
                   <=> (x \in fileNames \/ (~IsDir(NameOf(cur)) /\ NameOf(cur) = x))
              /\ x \in dirNames'
                   <=> (x \in dirNames \/ (IsDir(NameOf(cur)) /\ BaseOf[NameOf(cur)] = x))
            BY <2>3
        <3>3. x \in fileNames' <=> \E j \in 1..cur : ~IsDir(NameOf(j)) /\ NameOf(j) = x
            BY <2>4, <3>1, <3>2
        <3>4. x \in dirNames' <=> \E j \in 1..cur : IsDir(NameOf(j)) /\ BaseOf[NameOf(j)] = x
            BY <2>4, <3>1, <3>2
        <3> QED
            BY <3>3, <3>4
    <2>6. \A i \in 1..N : Reports(entries'[i].issues, ConflictKind) <=> i <= 0 /\ Clashes(i)
        BY <1>5, <2>1, <2>2
    <2> HIDE DEF Clashes
    <2>7. cur \in Nat /\ cur <= N /\ 0 \in Nat
        BY <1>1, <2>1
    <2> QED
        BY <2>2, <2>5, <2>6, <2>7, ConflictFrame DEF Clashes
<1>7. CASE FlagConflict
    <2> DEFINE t == Flag(InConflict(NameOf(cur)), "directory_file_conflict")
    <2>1. /\ cur \in 1..N /\ pc = "detectDirectoryConflicts" /\ pc' = pc /\ cur' = cur + 1
          /\ entries' = AppendIssues(entries, cur, t)
          /\ fileNames' = fileNames /\ dirNames' = dirNames
        BY <1>7, InLoopRange DEF FlagConflict, InLoop, nameVars
    <2>2. /\ NameScanned = N /\ NameScanned' = N
          /\ FlagScanned = cur - 1 /\ FlagScanned' = cur
        BY <1>1, <2>1 DEF NameScanned, FlagScanned, Scanned, Gathered
    <2>3. InConflict(NameOf(cur)) <=> Clashes(cur)
        <3>1. NameOf(cur) \in Name /\ (IsDir(NameOf(cur)) => BaseOf[NameOf(cur)] \in Name)
            BY <1>1, <2>1, NameAssumption DEF IsDir
        <3> QED
            BY <1>4, <2>2, <3>1 DEF InConflict, ClashNames
    <2>4. t \in Seq(IssueKind) /\ (Reports(t, ConflictKind) <=> InConflict(NameOf(cur)))
        <3>1. t \in Seq(IssueKind)
            BY FlagType DEF IssueKind, EntryKind
        <3>2. CASE InConflict(NameOf(cur))
            <4>1. t = <<"directory_file_conflict">>
                BY <3>2 DEF Flag
            <4>2. 1 \in DOMAIN t /\ t[1] \in ConflictKind
                BY <4>1 DEF ConflictKind
            <4> HIDE DEF t
            <4> QED
                BY <3>1, <3>2, <4>2 DEF Reports
        <3>3. CASE ~InConflict(NameOf(cur))
            <4>1. t = << >>
                BY <3>3 DEF Flag
            <4> QED
                BY <3>1, <3>3, <4>1 DEF Reports
        <3> QED
            BY <3>2, <3>3
    <2> HIDE DEF t
    <2>5. ASSUME NEW i \in 1..N
          PROVE  Reports(entries'[i].issues, ConflictKind)
                   <=> Flagged(i) \/ (i = cur /\ InConflict(NameOf(cur)))
        <3>1. entries \in Seq(Entry) /\ Len(entries) = N
            BY DEF TypeOK, N
        <3>2. entries'[i].issues = IF i = cur THEN entries[i].issues \o t ELSE entries[i].issues
            BY <2>1, <2>4, <3>1, AppendType
        <3>3. entries[i].issues \in Seq(IssueKind)
            BY EntryTypes
        <3>4. Reports(entries[i].issues \o t, ConflictKind)
                <=> Flagged(i) \/ Reports(t, ConflictKind)
            BY <2>4, <3>3, ReportsConcat
        <3> QED
            BY <2>4, <3>2, <3>4
    <2>6. ASSUME NEW i \in 1..N
          PROVE  Reports(entries'[i].issues, ConflictKind) <=> i <= cur /\ Clashes(i)
        <3> HIDE DEF Clashes, Flagged
        <3>1. Flagged(i) <=> i <= cur - 1 /\ Clashes(i)
            BY <1>5, <2>2
        <3>2. i <= cur <=> i <= cur - 1 \/ i = cur
            BY <1>1
        <3> QED
            BY <2>3, <2>5, <3>1, <3>2
    <2>7. \A x \in Name :
            /\ x \in fileNames' <=> \E j \in 1..N : ~IsDir(NameOf(j)) /\ NameOf(j) = x
            /\ x \in dirNames' <=> \E j \in 1..N : IsDir(NameOf(j)) /\ BaseOf[NameOf(j)] = x
        BY <1>4, <2>1, <2>2
    <2> QED
        BY <1>1, <2>2, <2>6, <2>7, ConflictFrame
<1>8. CASE ~GatherName /\ ~FlagConflict
    <2>1. /\ NameScanned' = NameScanned /\ FlagScanned' = FlagScanned
          /\ fileNames' = fileNames /\ dirNames' = dirNames
          /\ pc = "detectDirectoryConflicts" => entries' = entries
        BY <1>8, ConflictQuiet
    <2>2. ASSUME NEW i \in 1..N PROVE Reports(entries'[i].issues, ConflictKind) <=> Flagged(i)
        <3>1. CASE pc = "detectDirectoryConflicts"
            BY <2>1, <3>1
        <3>2. CASE pc # "detectDirectoryConflicts"
            <4>1. PassKind(pc) \cap ConflictKind = {}
                BY <3>2 DEF PassKind, ConflictKind, HeaderKind, FilenameKind, AXMLKind, TypeOK,
                            Label
            <4> QED
                BY <4>1, PassReports
        <3> QED
            BY <3>1, <3>2
    <2>3. \A i \in 1..N : Reports(entries'[i].issues, ConflictKind)
                            <=> i <= FlagScanned /\ Clashes(i)
        BY <1>5, <2>2
    <2> QED
        BY <1>3, <1>4, <2>1, <2>3, ConflictFrame
<1> QED
    BY <1>6, <1>7, <1>8

LEMMA ConflictStep ==
    ASSUME TypeOK, LoopInv, GatherInv, ConflictsFlagged, [Next]_vars
    PROVE  GatherInv' /\ ConflictsFlagged'
<1>1. CASE Heads
    BY <1>1, ConflictHeads
<1>2. CASE Passes
    BY <1>2, ConflictPasses
<1>3. CASE Stops
    BY <1>3, StopsStop DEF Stop, GatherInv, ConflictsFlagged
<1>4. CASE UNCHANGED vars
    BY <1>4 DEF vars, headVars, nameVars, reportVars, GatherInv, ConflictsFlagged, NameScanned,
       Scanned, N, NameOf
<1> QED
    BY <1>1, <1>2, <1>3, <1>4 DEF Next, Terminated

\* In every run, on every file, a directory entry and a file entry of one name are
\* both flagged by detectDirectoryConflicts, in whichever order they come, and no
\* other entry is.
THEOREM ConflictsFlaggedHolds == Spec => []ConflictsFlagged
<1>1. Init => GatherInv /\ ConflictsFlagged
    BY DEF Init, GatherInv, ConflictsFlagged, NameScanned, Scanned, Gathered, AfterConflicts,
       AfterPick, N
<1>2. TypeOK /\ LoopInv /\ GatherInv /\ ConflictsFlagged /\ [Next]_vars
      => GatherInv' /\ ConflictsFlagged'
    BY ConflictStep
<1> QED
    BY <1>1, <1>2, TypeCorrect, LoopCorrect, PTL DEF Spec
----------------------------------------------------------------------------
(* analyzeManifest.                                                        *)

Picked == Scanned("pickManifest", AfterPick)

\* No entry has findings on the binary manifest before the chosen one is analysed.
FindingsInv ==
    pc \notin {"BuildReport", "reportEntries", "output", "exit"} =>
        \A i \in 1..N : ~Reports(entries[i].issues, AXMLKind)

ManifestInv == FindingsInv /\ ManifestIsLastReadable

\* Once the headers are read, the test of canReadData on the issues of an entry says
\* whether the file locates its data.
LEMMA ReadableIsLocated ==
    ASSUME TypeOK, HeadersAccounted, pc = "pickManifest", NEW i \in 1..N
    PROVE  NameOf(i) = ManifestName /\ canReadData(entries[i]) <=> i \in Located(N)
<1> DEFINE e == entries[i]
<1>1. HeaderScanned = N
    BY DEF HeaderScanned, Scanned, AfterHeaders, AfterDuplicates, AfterConflicts
<1>2. Accounted(file, e)
    BY <1>1 DEF HeadersAccounted, Accounted, HeaderScanned, OutOfRange, BadSignature
<1>3. e.lfhOffset \in Int /\ file.size \in Nat
    BY EntryTypes DEF TypeOK, IsFile, Entry
<1>4. canReadData(e) <=> /\ ~Reports(e.issues, OutOfRange)
                         /\ ~Reports(e.issues, BadSignature)
                         /\ e.dataOffset > 0
    BY DEF canReadData, Reports, OutOfRange, BadSignature
<1>5. i \in Located(N) <=> /\ NameOf(i) = ManifestName
                           /\ e.lfhOffset \in 0..(file.size - 1)
                           /\ file.lfhAt[e.lfhOffset].sigOK
    BY DEF Located
<1> HIDE DEF e
<1>6. CASE e.lfhOffset >= file.size /\ Reports(e.issues, OutOfRange)
    BY <1>3, <1>4, <1>5, <1>6 DEF e
<1>7. CASE /\ e.lfhOffset \in 0..(file.size - 1)
           /\ e.lfh = <<file.lfhAt[e.lfhOffset]>>
           /\ e.dataOffset \in 1..file.size
           /\ ~Reports(e.issues, OutOfRange)
           /\ Reports(e.issues, BadSignature) <=> ~e.lfh[1].sigOK
    <2>1. e.lfh[1] = file.lfhAt[e.lfhOffset] /\ e.dataOffset > 0
        BY <1>3, <1>7
    <2> QED
        BY <1>4, <1>5, <1>7, <2>1 DEF e
<1> QED
    BY <1>2, <1>6, <1>7 DEF Accounted

\* What the file locates does not depend on the issues.
LEMMA LocatedKept ==
    ASSUME TypeOK, Passes, NEW n \in 0..N
    PROVE  Located(n)' = Located(n)
<1>1. file' = file
    BY DEF Passes, FlagOffsetOutOfRange, ReadLocalHeader, LoopDone, RecordName, FlagDuplicate,
           GatherName, FlagConflict, AuditFilename, PickManifest, NoManifest, AnalyzeManifest,
           CountArchiveIssues, ReportEntry
<1>2. N \in Nat /\ \A i \in 1..N : entries'[i].lfhOffset = entries[i].lfhOffset
    BY EntryTypes, PassIssues
<1>3. \A i \in 1..N : NameOf(i)' = NameOf(i)
    BY PassNames
<1>4. \A i \in 1..n : i \in 1..N
    BY <1>2
<1> QED
    BY <1>1, <1>2, <1>3, <1>4 DEF Located

\* The steps other than PickManifest move neither its cursor nor its choice.
LEMMA PickQuiet ==
    ASSUME TypeOK, LoopInv, Passes, ~PickManifest
    PROVE  manifest' = manifest /\ Picked' = Picked /\ pc' # "exit"
<1> DEFINE Before == {"readLocalHeaders", "detectDuplicates", "gatherNames",
                      "detectDirectoryConflicts", "auditFilenames"}
<1>1. N \in Nat /\ cur \in Nat \ {0} /\ N' = N
    BY EntryTypes, PassNames DEF TypeOK
<1>2. manifest' = manifest /\ pc' # "exit"
    BY DEF Passes, FlagOffsetOutOfRange, ReadLocalHeader, LoopDone, RecordName, FlagDuplicate,
       GatherName, FlagConflict, AuditFilename, NoManifest, AnalyzeManifest,
       CountArchiveIssues, ReportEntry, InLoop
<1>3. \/ pc \in Before /\ pc' \in Before
      \/ LoopDone("auditFilenames", "pickManifest")
      \/ LoopDone("pickManifest", "analyzeManifest")
      \/ pc \in AfterPick /\ pc' \in AfterPick
    BY DEF Passes, FlagOffsetOutOfRange, ReadLocalHeader, LoopDone, RecordName, FlagDuplicate,
       GatherName, FlagConflict, AuditFilename, NoManifest, AnalyzeManifest,
       CountArchiveIssues, ReportEntry, InLoop, AfterPick
<1>4. CASE pc \in Before /\ pc' \in Before
    BY <1>2, <1>4 DEF Picked, Scanned, AfterPick
<1>5. CASE LoopDone("auditFilenames", "pickManifest")
    BY <1>2, <1>5 DEF LoopDone, Picked, Scanned, AfterPick
<1>6. CASE LoopDone("pickManifest", "analyzeManifest")
    <2>1. cur = N + 1
        BY <1>1, <1>6 DEF LoopDone, LoopInv
    <2> QED
        BY <1>1, <1>2, <1>6, <2>1 DEF LoopDone, Picked, Scanned, AfterPick
<1>7. CASE pc \in AfterPick /\ pc' \in AfterPick
    BY <1>1, <1>2, <1>7 DEF Picked, Scanned, AfterPick
<1> QED
    BY <1>3, <1>4, <1>5, <1>6, <1>7

LEMMA PickStep ==
    ASSUME TypeOK, LoopInv, HeadersAccounted, ManifestInv, PickManifest
    PROVE  ManifestInv'
<1> DEFINE Readable == NameOf(cur) = ManifestName /\ canReadData(entries[cur])
<1>1. /\ pc = "pickManifest" /\ pc' = pc /\ cur \in 1..N /\ cur' = cur + 1
      /\ manifest' = IF Readable THEN cur ELSE manifest
      /\ entries' = entries /\ file' = file
    BY InLoopRange DEF PickManifest, InLoop
<1>2. N \in Nat /\ N' = N /\ manifest \in 0..N
    BY <1>1, EntryTypes DEF TypeOK, N
<1>3. Picked = cur - 1 /\ Picked' = cur
    BY <1>1, <1>2 DEF Picked, Scanned
<1>4. \A i \in 1..N : ~Reports(entries[i].issues, AXMLKind)
    BY <1>1 DEF ManifestInv, FindingsInv
<1>5. PICK m \in Nat : m = cur
    BY <1>1, <1>2
<1>6. Located(m)' = Located(m)
    BY <1>1 DEF Located, NameOf
<1>7. Located(cur) = Located(cur - 1) \cup (IF Readable THEN {cur} ELSE {})
    <2>1. Readable <=> cur \in Located(N)
        BY <1>1, ReadableIsLocated
    <2>2. \A i : i \in 1..cur <=> (i \in 1..(cur - 1) \/ i = cur)
        BY <1>1
    <2> QED
        BY <1>1, <2>1, <2>2 DEF Located
<1>8. IF Located(cur - 1) = {} THEN manifest = 0 ELSE IsLastLocated(manifest, cur - 1)
    BY <1>1, <1>3 DEF ManifestInv, ManifestIsLastReadable, Picked
<1>9. \A j \in Located(cur - 1) : j \in Nat /\ j < cur
    BY <1>1 DEF Located
<1> HIDE DEF Readable
<1>10. IF Located(cur) = {} THEN manifest' = 0
      ELSE manifest' \in Located(cur) /\ \A j \in Located(cur) : j <= manifest'
    <2>1. CASE Readable
        BY <1>1, <1>7, <1>9, <2>1
    <2>2. CASE ~Readable
        BY <1>1, <1>7, <1>8, <2>2 DEF IsLastLocated
    <2> QED
        BY <2>1, <2>2
<1>11. FindingsInv'
    BY <1>1, <1>2, <1>4 DEF FindingsInv
<1>12. Picked' = m
    BY <1>3, <1>5
<1>13. IF Located(m)' = {} THEN manifest' = 0 ELSE IsLastLocated(manifest, m)'
    BY <1>5, <1>10, <1>6 DEF IsLastLocated
<1>14. ManifestIsLastReadable'
    BY <1>1, <1>2, <1>4, <1>12, <1>13 DEF ManifestIsLastReadable, Picked
<1> QED
    BY <1>11, <1>14 DEF ManifestInv

LEMMA ManifestPasses ==
    ASSUME TypeOK, LoopInv, HeadersAccounted, ManifestInv, Passes
    PROVE  ManifestInv'
<1> DEFINE Found(i) == Reports(entries[i].issues, AXMLKind)
           Analysed == {"BuildReport", "reportEntries", "output", "exit"}
<1>1. CASE PickManifest
    BY <1>1, PickStep
<1>2. CASE ~PickManifest
    <2>1. manifest' = manifest /\ Picked' = Picked /\ pc' # "exit" /\ pc # "exit"
        BY <1>2, PickQuiet DEF Passes, FlagOffsetOutOfRange, ReadLocalHeader, LoopDone,
           RecordName, FlagDuplicate, GatherName, FlagConflict, AuditFilename, NoManifest,
           AnalyzeManifest, CountArchiveIssues, ReportEntry, InLoop
    <2>2. N \in Nat /\ N' = N /\ manifest \in 0..N /\ cur \in Nat \ {0}
        BY EntryTypes, PassNames DEF TypeOK, N
    <2>3. Picked \in 0..N
        BY <2>1, <2>2 DEF Picked, Scanned, LoopInv
    <2>4. Located(Picked)' = Located(Picked)
        BY <2>1, <2>3, LocatedKept
    <2>5. /\ IF Located(Picked) = {} THEN manifest = 0 ELSE IsLastLocated(manifest, Picked)
          /\ \A i \in 1..N : Found(i) => IsLastLocated(i, Picked)
          /\ pc \notin Analysed => \A i \in 1..N : ~Found(i)
        BY <2>1 DEF ManifestInv, FindingsInv, ManifestIsLastReadable, Picked
    <2>6. \A i : IsLastLocated(i, Picked)' <=> IsLastLocated(i, Picked)
        BY <2>1, <2>4 DEF IsLastLocated
    <2>7. CASE AnalyzeManifest
        <3> DEFINE t == ManifestIssues(file, entries[manifest])
        <3>1. /\ pc = "analyzeManifest" /\ pc' = "BuildReport" /\ manifest \in 1..N
              /\ entries' = AppendIssues(entries, manifest, t)
            BY <2>2, <2>7 DEF AnalyzeManifest
        <3>2. t \in Seq(AXMLKind) /\ AXMLKind \subseteq IssueKind
            BY <3>1, EntryTypes, ManifestIssuesType DEF IssueKind, TypeOK
        <3> HIDE DEF t
        <3>3. \A i \in 1..N : i # manifest => entries'[i].issues = entries[i].issues
            BY <3>1, <3>2, OneIssueAdded
        <3>4. \A i \in 1..N : Reports(entries'[i].issues, AXMLKind) => i = manifest
            BY <2>5, <3>1, <3>3
        <3>5. IsLastLocated(manifest, Picked)
            BY <2>5, <3>1
        <3> QED
            BY <2>1, <2>2, <2>4, <2>5, <2>6, <3>1, <3>4, <3>5
               DEF ManifestInv, FindingsInv, ManifestIsLastReadable, Picked
    <2>8. CASE ~AnalyzeManifest
        <3>1. ASSUME NEW i \in 1..N PROVE Reports(entries'[i].issues, AXMLKind) => Found(i)
            <4>1. CASE pc = "analyzeManifest"
                BY <1>2, <2>8, <4>1 DEF Passes, FlagOffsetOutOfRange, ReadLocalHeader, LoopDone,
                   RecordName, FlagDuplicate, GatherName, FlagConflict, AuditFilename,
                   NoManifest, CountArchiveIssues, ReportEntry, InLoop
            <4>2. CASE pc # "analyzeManifest"
                <5>1. PassKind(pc) \cap AXMLKind = {}
                    BY <4>2
                    DEF PassKind, HeaderKind, EntryKind, FilenameKind, AXMLKind, TypeOK, Label
                <5> QED
                    BY <5>1, PassReports
            <4> QED
                BY <4>1, <4>2
        <3>2. pc \in Analysed => pc' \in Analysed
            BY DEF Passes, FlagOffsetOutOfRange, ReadLocalHeader, LoopDone, RecordName,
               FlagDuplicate, GatherName, FlagConflict, AuditFilename, PickManifest,
               NoManifest, AnalyzeManifest, CountArchiveIssues, ReportEntry, InLoop
        <3>3. FindingsInv'
            BY <2>2, <2>5, <3>1, <3>2 DEF FindingsInv
        <3>4. ManifestIsLastReadable'
            BY <2>1, <2>2, <2>4, <2>5, <2>6, <3>1 DEF ManifestIsLastReadable, Picked
        <3> QED
            BY <3>3, <3>4 DEF ManifestInv
    <2> QED
        BY <2>7, <2>8
<1> QED
    BY <1>1, <1>2

LEMMA ManifestStep ==
    ASSUME TypeOK, LoopInv, HeadersAccounted, ManifestInv, [Next]_vars
    PROVE  ManifestInv'
<1>1. CASE Passes
    BY <1>1, ManifestPasses
<1>2. CASE Heads
    <2>1. /\ pc \in HeadLabel /\ pc' \in HeadLabel \cup {"readLocalHeaders"}
          /\ manifest' = manifest /\ cur' = cur
        BY <1>2 DEF Heads, OpenFile, FindEOCD, NotZIP64, FindZIP64EOCD, FindSigningBlock,
               AllocateEntries, ReadCDRecord, CentralDirectoryRead, HeadLabel
    <2>2. Picked = 0 /\ Picked' = 0 /\ pc # "exit"
        BY <2>1 DEF HeadLabel, Picked, Scanned, AfterPick
    <2>3. Located(0) = {} /\ Located(0)' = {}
        BY DEF Located
    <2>4. manifest = 0
        BY <2>2, <2>3 DEF ManifestInv, ManifestIsLastReadable, Picked
    <2>5. LoopInv' /\ TypeOK' /\ cur = 1
        BY <1>2, <2>1, LoopHeads, TypeHeads DEF LoopInv, HeadLabel
    <2>6. \A i \in 1..N' : entries'[i].issues = << >>
        <3>1. N' \in Nat
            BY <2>5, LenProperties DEF TypeOK, N
        <3>2. cur' = 1
            BY <2>1, <2>5
        <3>3. /\ pc' \in HeadLabel => \A i \in 1..N' : Fresh(entries[i])'
              /\ pc' = "readLocalHeaders" => \A i \in 1..N' : i >= cur' => Fresh(entries[i])'
            BY <2>1, <2>5 DEF LoopInv, HeadLabel
        <3>4. \A i \in 1..N' : i >= cur'
            BY <3>1, <3>2
        <3>5. \A i \in 1..N' : Fresh(entries[i])'
            BY <2>1, <3>3, <3>4, Zenon
        <3> QED
            BY <3>5 DEF Fresh
    <2>7. \A i \in 1..N' : ~Reports(entries'[i].issues, AXMLKind)
        BY <2>6 DEF Reports
    <2> QED
        BY <2>1, <2>2, <2>3, <2>4, <2>7
           DEF ManifestInv, FindingsInv, ManifestIsLastReadable, Picked
<1>3. CASE Stops
    BY <1>3, StopsStop DEF Stop, ManifestInv, FindingsInv, ManifestIsLastReadable
<1>4. CASE UNCHANGED vars
    BY <1>4 DEF vars, ManifestInv, FindingsInv, ManifestIsLastReadable, IsLastLocated, Located,
       Scanned, N, NameOf
<1> QED
    BY <1>1, <1>2, <1>3, <1>4 DEF Next, Terminated

\* In every run, on every file, the loop of analyzeManifest, which judges an entry by
\* the issues earlier passes left on it, holds the last manifest scanned whose data the
\* file locates, and no other entry gets findings of its kind.
THEOREM ManifestIsLastReadableHolds == Spec => []ManifestIsLastReadable
<1>1. Init => ManifestInv
    BY DEF Init, ManifestInv, FindingsInv, ManifestIsLastReadable, Located, Scanned, AfterPick, N
<1>2. TypeOK /\ LoopInv /\ HeadersAccounted /\ ManifestInv /\ [Next]_vars => ManifestInv'
    BY ManifestStep
<1>3. ManifestInv => ManifestIsLastReadable
    BY DEF ManifestInv
<1> QED
    BY <1>1, <1>2, <1>3, TypeCorrect, LoopCorrect, HeadersAccountedHolds, PTL DEF Spec
----------------------------------------------------------------------------
(* BuildReport.                                                            *)

Counted == Scanned("reportEntries", {"output"})

\* What BuildReport has counted so far: its count is kept apart from what it counts.
ReportInv ==
    pc # "exit" =>
        /\ pc \in {"analyzeManifest", "BuildReport"} => cur = 1
        /\ reported = {i \in 1..Counted : entries[i].issues # << >>}
        /\ pc \in {"reportEntries", "output"} =>
              (issueCount = 0 <=> (reported = {} /\ archiveIssues = << >>))

LEMMA ReportPasses ==
    ASSUME TypeOK, LoopInv, ReportInv, Passes
    PROVE  ReportInv'
<1> USE DEF headVars, nameVars, reportVars
<1>1. N \in Nat /\ N' = N /\ cur \in Nat \ {0} /\ issueCount \in Nat
    BY EntryTypes, PassNames DEF TypeOK
<1>2. /\ pc # "exit"
      /\ pc \in {"analyzeManifest", "BuildReport"} => cur = 1
      /\ reported = {i \in 1..Counted : entries[i].issues # << >>}
      /\ pc \in {"reportEntries", "output"} =>
            (issueCount = 0 <=> (reported = {} /\ archiveIssues = << >>))
    BY DEF ReportInv, Passes, FlagOffsetOutOfRange, ReadLocalHeader, LoopDone, RecordName,
       FlagDuplicate, GatherName, FlagConflict, AuditFilename, PickManifest, NoManifest,
       AnalyzeManifest, CountArchiveIssues, ReportEntry, InLoop
<1>3. archiveIssues' = archiveIssues
    BY DEF Passes, FlagOffsetOutOfRange, ReadLocalHeader, LoopDone, RecordName,
       FlagDuplicate, GatherName, FlagConflict, AuditFilename, PickManifest, NoManifest,
       AnalyzeManifest, CountArchiveIssues, ReportEntry
<1>4. CASE CountArchiveIssues
    <2>1. /\ pc = "BuildReport" /\ pc' = "reportEntries" /\ cur' = cur /\ cur = 1
          /\ reported' = reported /\ issueCount' = Len(archiveIssues)
        BY <1>2, <1>4 DEF CountArchiveIssues
    <2>2. Counted = 0 /\ Counted' = 0
        BY <2>1 DEF Counted, Scanned
    <2>3. Len(archiveIssues) = 0 <=> archiveIssues = << >>
        BY LenProperties, EmptySeq DEF TypeOK
    <2>4. reported = {}
        BY <1>2, <2>2
    <2>5. reported' = {i \in 1..Counted' : entries'[i].issues # << >>}
        BY <2>1, <2>2, <2>4
    <2> QED
        BY <1>3, <2>1, <2>3, <2>4, <2>5 DEF ReportInv
<1>5. CASE ReportEntry
    <2> DEFINE some == entries[cur].issues # << >>
    <2>1. /\ pc = "reportEntries" /\ pc' = pc /\ cur \in 1..N /\ cur' = cur + 1
          /\ entries' = entries
          /\ issueCount' = issueCount + Len(entries[cur].issues)
          /\ reported' = IF some THEN reported \cup {cur} ELSE reported
        BY <1>5, InLoopRange DEF ReportEntry, InLoop
    <2>2. Counted = cur - 1 /\ Counted' = cur
        BY <1>1, <2>1 DEF Counted, Scanned
    <2>3. Len(entries[cur].issues) \in Nat /\ (Len(entries[cur].issues) = 0 <=> ~some)
        BY <2>1, EntryTypes, LenProperties, EmptySeq
    <2>4. reported' = {i \in 1..cur : entries[i].issues # << >>}
        <3>1. \A i : i \in 1..cur <=> (i \in 1..(cur - 1) \/ i = cur)
            BY <1>1
        <3>2. reported = {i \in 1..(cur - 1) : entries[i].issues # << >>}
            BY <1>2, <2>2
        <3> QED
            BY <2>1, <3>1, <3>2
    <2>5. issueCount' = 0 <=> (issueCount = 0 /\ ~some)
        BY <1>1, <2>1, <2>3
    <2>6. reported' = {} <=> (reported = {} /\ ~some)
        BY <2>1
    <2>7. issueCount' = 0 <=> (reported' = {} /\ archiveIssues' = << >>)
        BY <1>2, <1>3, <2>1, <2>5, <2>6
    <2> QED
        BY <2>1, <2>2, <2>4, <2>7 DEF ReportInv
<1>6. CASE LoopDone("reportEntries", "output")
    <2>1. /\ pc = "reportEntries" /\ pc' = "output" /\ entries' = entries
          /\ reported' = reported /\ issueCount' = issueCount /\ cur = N + 1
        BY <1>1, <1>6 DEF LoopDone, LoopInv
    <2>2. Counted = N /\ Counted' = N
        BY <1>1, <2>1 DEF Counted, Scanned
    <2> QED
        BY <1>2, <1>3, <2>1, <2>2 DEF ReportInv
<1>7. CASE ~CountArchiveIssues /\ ~ReportEntry /\ ~LoopDone("reportEntries", "output")
    <2>1. /\ pc \notin {"reportEntries", "output", "exit"}
          /\ pc' \notin {"reportEntries", "output", "exit"}
          /\ reported' = reported
          /\ pc' \in {"analyzeManifest", "BuildReport"} => cur' = 1
        BY <1>2, <1>7 DEF Passes, FlagOffsetOutOfRange, ReadLocalHeader, LoopDone, RecordName,
           FlagDuplicate, GatherName, FlagConflict, AuditFilename, PickManifest, NoManifest,
           AnalyzeManifest, InLoop
    <2>2. Counted = 0 /\ Counted' = 0
        BY <2>1 DEF Counted, Scanned
    <2>3. reported' = {} /\ {i \in 1..Counted' : entries'[i].issues # << >>} = {}
        BY <1>2, <2>1, <2>2
    <2> QED
        BY <2>1, <2>3 DEF ReportInv
<1> QED
    BY <1>4, <1>5, <1>6, <1>7

LEMMA ReportStep ==
    ASSUME TypeOK, LoopInv, ReportInv, [Next]_vars
    PROVE  ReportInv'
<1>1. CASE Passes
    BY <1>1, ReportPasses
<1>2. CASE Heads
    <2>1. /\ pc \in HeadLabel /\ pc' \in HeadLabel \cup {"readLocalHeaders"}
          /\ reported' = reported
        BY <1>2 DEF Heads, OpenFile, FindEOCD, NotZIP64, FindZIP64EOCD, FindSigningBlock,
               AllocateEntries, ReadCDRecord, CentralDirectoryRead, HeadLabel, reportVars
    <2>2. Counted = 0 /\ Counted' = 0
        BY <2>1 DEF Counted, Scanned, HeadLabel
    <2>3. reported' = {} /\ {i \in 1..Counted' : entries'[i].issues # << >>} = {}
        BY <2>1, <2>2 DEF ReportInv, HeadLabel
    <2> QED
        BY <2>1, <2>3 DEF ReportInv, HeadLabel
<1>3. CASE Stops
    BY <1>3, StopsStop DEF Stop, ReportInv
<1>4. CASE UNCHANGED vars
    BY <1>4 DEF vars, headVars, reportVars, ReportInv, Counted, Scanned, N
<1> QED
    BY <1>1, <1>2, <1>3, <1>4 DEF Next, Terminated

\* In every run, on every file, the report that is printed names every entry with an
\* issue, and its count, which decides the exit code, is zero only when no pass
\* flagged anything.
THEOREM ReportCompleteHolds == Spec => []ReportComplete
<1>1. Init => ReportInv
    BY DEF Init, ReportInv, Counted, Scanned
<1>2. TypeOK /\ LoopInv /\ ReportInv /\ [Next]_vars => ReportInv'
    BY ReportStep
<1>3. ReportInv => ReportComplete
    BY DEF ReportInv, ReportComplete, Counted, Scanned
<1> QED
    BY <1>1, <1>2, <1>3, TypeCorrect, LoopCorrect, PTL DEF Spec
============================================================================
