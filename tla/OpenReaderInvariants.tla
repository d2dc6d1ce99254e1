----------------------- MODULE OpenReaderInvariants -----------------------
(***************************************************************************)
(* Proofs of what the passes of OpenReader flag: issues only accumulate,   *)
(* and exactly the entries that share a name are flagged as duplicates.    *)
(***************************************************************************)
EXTENDS OpenReaderProofs

\* The kinds of issue that a pass can add.
PassKind(label) ==
    CASE label = "readLocalHeaders" -> HeaderKind
      [] label = "detectDuplicates" -> {"duplicate_name"}
      [] label = "detectDirectoryConflicts" -> {"directory_file_conflict"}
      [] label = "auditFilenames" -> FilenameKind
      [] label = "analyzeManifest" -> AXMLKind
      [] OTHER -> {}

LEMMA EntryTypes ==
    ASSUME TypeOK
    PROVE  /\ N \in Nat
           /\ \A i \in 1..N : /\ entries[i] \in Entry
                              /\ entries[i].issues \in Seq(IssueKind)
                              /\ NameOf(i) \in Name
<1>1. N \in Nat /\ \A i \in 1..N : entries[i] \in Entry
    BY ElementOfSeq, LenProperties DEF TypeOK, N
<1> QED
    BY <1>1 DEF NameOf, Entry, CentralDirectoryRecord

LEMMA InLoopRange ==
    ASSUME TypeOK, NEW label, InLoop(label)
    PROVE  cur \in 1..N
BY EntryTypes DEF InLoop, TypeOK

\* Nothing is added: the issues are what they were, followed by no issue.
LEMMA NoIssueAdded ==
    ASSUME TypeOK, entries' = entries, NEW K, NEW i \in 1..N
    PROVE  \E s \in Seq(K) : entries'[i].issues = entries[i].issues \o s
<1>1. entries[i].issues \o << >> = entries[i].issues
    BY EntryTypes, ConcatEmptySeq
<1>2. << >> \in Seq(K)
    OBVIOUS
<1> QED
    BY <1>1, <1>2

\* Issues are added to one entry.
LEMMA OneIssueAdded ==
    ASSUME TypeOK, NEW c \in 1..N, NEW K, K \subseteq IssueKind, NEW t \in Seq(K),
           entries' = AppendIssues(entries, c, t), NEW i \in 1..N
    PROVE  /\ N' = N
           /\ entries'[i].cd = entries[i].cd
           /\ entries'[i].zip64 = entries[i].zip64
           /\ entries'[i].lfh = entries[i].lfh
           /\ entries'[i].lfhOffset = entries[i].lfhOffset
           /\ entries'[i].dataOffset = entries[i].dataOffset
           /\ i # c => entries'[i].issues = entries[i].issues
           /\ \E s \in Seq(K) : entries'[i].issues = entries[i].issues \o s
<1>1. t \in Seq(IssueKind)
    BY SeqMonotonic
<1>2. /\ Len(AppendIssues(entries, c, t)) = Len(entries)
      /\ AppendIssues(entries, c, t)[i].cd = entries[i].cd
      /\ AppendIssues(entries, c, t)[i].zip64 = entries[i].zip64
      /\ AppendIssues(entries, c, t)[i].lfh = entries[i].lfh
      /\ AppendIssues(entries, c, t)[i].lfhOffset = entries[i].lfhOffset
      /\ AppendIssues(entries, c, t)[i].dataOffset = entries[i].dataOffset
      /\ AppendIssues(entries, c, t)[i].issues
           = IF i = c THEN entries[i].issues \o t ELSE entries[i].issues
    BY <1>1, AppendType DEF TypeOK, N
<1>3. entries[i].issues \o << >> = entries[i].issues /\ << >> \in Seq(K)
    BY EntryTypes, ConcatEmptySeq
<1>4. \E s \in Seq(K) : entries'[i].issues = entries[i].issues \o s
    BY <1>2, <1>3
<1> QED
    BY <1>2, <1>4 DEF N

\* The entry they are added to.
LEMMA IssuesAdded ==
    ASSUME TypeOK, NEW c \in 1..N, NEW t \in Seq(IssueKind),
           entries' = AppendIssues(entries, c, t)
    PROVE  entries'[c].issues = entries[c].issues \o t
BY AppendType DEF TypeOK, N

\* FlagDuplicate adds to two entries, and to each the one kind.
LEMMA TwoIssuesAdded ==
    ASSUME TypeOK, FlagDuplicate, NEW i \in 1..N
    PROVE  /\ cur \in 1..N /\ seen[NameOf(cur)] \in 1..N
           /\ N' = N
           /\ entries'[i].cd = entries[i].cd
           /\ entries'[i].zip64 = entries[i].zip64
           /\ entries'[i].lfh = entries[i].lfh
           /\ entries'[i].lfhOffset = entries[i].lfhOffset
           /\ entries'[i].dataOffset = entries[i].dataOffset
           /\ \E s \in Seq({"duplicate_name"}) : entries'[i].issues = entries[i].issues \o s
           /\ i \in {cur, seen[NameOf(cur)]} => Reports(entries'[i].issues, {"duplicate_name"})
           /\ i \notin {cur, seen[NameOf(cur)]} => entries'[i].issues = entries[i].issues
<1> DEFINE D == {"duplicate_name"}
           f == seen[NameOf(cur)]
           t == <<"duplicate_name">>
           es == AppendIssues(entries, f, t)
<1>1. cur \in 1..N
    BY InLoopRange DEF FlagDuplicate
<1>2. f \in 1..N
    BY <1>1, EntryTypes DEF FlagDuplicate, TypeOK, N
<1>3. t \in Seq(D) /\ t \in Seq(IssueKind) /\ Reports(t, D)
    BY DEF IssueKind, EntryKind, Reports
<1>4. entries' = AppendIssues(es, cur, t)
    BY DEF FlagDuplicate
<1>5. entries \in Seq(Entry) /\ Len(entries) = N
    BY DEF TypeOK, N
<1>6. entries[i].issues \in Seq(IssueKind)
    BY EntryTypes
<1> HIDE DEF f, t, D
<1>7. /\ es \in Seq(Entry) /\ Len(es) = N
      /\ es[i].cd = entries[i].cd
      /\ es[i].zip64 = entries[i].zip64
      /\ es[i].lfh = entries[i].lfh
      /\ es[i].lfhOffset = entries[i].lfhOffset
      /\ es[i].dataOffset = entries[i].dataOffset
      /\ es[i].issues = IF i = f THEN entries[i].issues \o t ELSE entries[i].issues
    BY <1>2, <1>3, <1>5, AppendType
<1> HIDE DEF es
<1>8. /\ Len(entries') = N
      /\ entries'[i].cd = entries[i].cd
      /\ entries'[i].zip64 = entries[i].zip64
      /\ entries'[i].lfh = entries[i].lfh
      /\ entries'[i].lfhOffset = entries[i].lfhOffset
      /\ entries'[i].dataOffset = entries[i].dataOffset
      /\ entries'[i].issues = IF i = cur THEN es[i].issues \o t ELSE es[i].issues
    BY <1>1, <1>3, <1>4, <1>7, AppendType
<1>9. /\ es[i].issues \in Seq(IssueKind)
      /\ es[i].issues \o t \in Seq(IssueKind)
    BY <1>3, <1>6, <1>7, ConcatType
<1>10. i \in {cur, f} => Reports(entries'[i].issues, D)
    <2>1. i = cur => Reports(entries'[i].issues, D)
        BY <1>3, <1>8, <1>9, ReportsConcat
    <2>2. i = f => Reports(es[i].issues, D)
        BY <1>3, <1>6, <1>7, ReportsConcat
    <2> QED
        BY <1>8, <2>1, <2>2
<1>11. i \notin {cur, f} => entries'[i].issues = entries[i].issues
    BY <1>7, <1>8
<1>12. \E s \in Seq(D) : entries'[i].issues = entries[i].issues \o s
    <2>1. t \o t \in Seq(D) /\ << >> \in Seq(D)
        BY <1>3, ConcatType
    <2>2. entries[i].issues \o << >> = entries[i].issues
        BY <1>6, ConcatEmptySeq
    <2>3. (entries[i].issues \o t) \o t = entries[i].issues \o (t \o t)
        <3>1. ASSUME NEW x \in Seq(IssueKind), NEW y \in Seq(IssueKind),
                     NEW z \in Seq(IssueKind)
              PROVE  (x \o y) \o z = x \o (y \o z)
            BY ConcatAssociative, SMT
        <3> QED
            BY <1>3, <1>6, <3>1, Zenon
    <2> QED
        BY <1>3, <1>7, <1>8, <2>1, <2>2, <2>3
<1> QED
    BY <1>1, <1>2, <1>8, <1>10, <1>11, <1>12 DEF N, D, f

\* ReadLocalHeader touches the current entry only, and gives it the header found
\* at its offset.
LEMMA HeaderAttached ==
    ASSUME TypeOK, ReadLocalHeader
    PROVE  LET e == entries[cur]
               l == file.lfhAt[e.lfhOffset]
           IN  /\ cur \in 1..N
               /\ N' = N
               /\ e.lfhOffset \in 0..(file.size - 1)
               /\ e.lfhOffset + l.len <= file.size
               /\ l \in LocalFileHeader
               /\ entries'[cur] = AttachLFH(e, l)
               /\ \A i \in 1..N : i # cur => entries'[i] = entries[i]
<1> DEFINE e == entries[cur]
           l == file.lfhAt[e.lfhOffset]
<1>1. cur \in 1..N
    BY InLoopRange DEF ReadLocalHeader
<1>2. e \in Entry /\ file.size \in Nat
    BY <1>1, EntryTypes DEF TypeOK, IsFile
<1>3. e.lfhOffset \in 0..(file.size - 1) /\ e.lfhOffset + l.len <= file.size
    BY <1>2 DEF ReadLocalHeader, LFHReadable, Entry
<1>4. l \in LocalFileHeader
    <2>1. e.lfhOffset \in 0..file.size
        BY <1>2, <1>3
    <2> QED
        BY <2>1, FileTypes DEF TypeOK
<1>5. AttachLFH(e, l) \in Entry
    <2>1. e.lfhOffset >= 0
        BY <1>3
    <2> HIDE DEF e, l
    <2> QED
        BY <1>2, <1>4, <2>1, AttachType
<1>6. entries' = [entries EXCEPT ![cur] = AttachLFH(e, l)]
    BY DEF ReadLocalHeader
<1>7. /\ Len(entries') = N
      /\ \A i \in 1..N : entries'[i] = IF i = cur THEN AttachLFH(e, l) ELSE entries[i]
    <2> HIDE DEF e, l
    <2> QED
        BY <1>1, <1>5, <1>6, ExceptSeq DEF TypeOK, N
<1> QED
    BY <1>1, <1>3, <1>4, <1>7 DEF N

\* A pass keeps the entries and their records, and adds to their issues only
\* kinds of its own, at the end.
LEMMA PassIssues ==
    ASSUME TypeOK, Passes, NEW i \in 1..N
    PROVE  /\ N' = N
           /\ entries'[i].cd = entries[i].cd
           /\ entries'[i].zip64 = entries[i].zip64
           /\ entries'[i].lfhOffset = entries[i].lfhOffset
           /\ pc # "readLocalHeaders" => /\ entries'[i].lfh = entries[i].lfh
                                         /\ entries'[i].dataOffset = entries[i].dataOffset
           /\ \E s \in Seq(PassKind(pc)) : entries'[i].issues = entries[i].issues \o s
<1> DEFINE G(K) == /\ N' = N
                   /\ entries'[i].cd = entries[i].cd
                   /\ entries'[i].zip64 = entries[i].zip64
                   /\ entries'[i].lfhOffset = entries[i].lfhOffset
                   /\ pc # "readLocalHeaders" =>
                         /\ entries'[i].lfh = entries[i].lfh
                         /\ entries'[i].dataOffset = entries[i].dataOffset
                   /\ \E s \in Seq(K) : entries'[i].issues = entries[i].issues \o s
<1>1. ASSUME entries' = entries PROVE G(PassKind(pc))
    BY <1>1, NoIssueAdded DEF N
<1>2. CASE FlagOffsetOutOfRange
    <2> DEFINE t == <<"lfh_offset_out_of_range">>
    <2>1. t \in Seq(HeaderKind) /\ HeaderKind \subseteq IssueKind
        BY DEF HeaderKind, EntryKind, IssueKind
    <2>2. entries' = AppendIssues(entries, cur, t) /\ cur \in 1..N /\ pc = "readLocalHeaders"
        BY <1>2, InLoopRange DEF FlagOffsetOutOfRange, InLoop
    <2> HIDE DEF t
    <2>3. G(HeaderKind)
        BY <2>1, <2>2, OneIssueAdded
    <2> QED
        BY <2>2, <2>3 DEF PassKind
<1>3. CASE ReadLocalHeader
    <2> DEFINE e == entries[cur]
               l == file.lfhAt[e.lfhOffset]
    <2>1. /\ cur \in 1..N /\ N' = N /\ pc = "readLocalHeaders"
          /\ l \in LocalFileHeader /\ e.lfhOffset >= 0 /\ e \in Entry
          /\ entries'[cur] = AttachLFH(e, l)
          /\ i # cur => entries'[i] = entries[i]
        BY <1>3, HeaderAttached, EntryTypes DEF ReadLocalHeader, InLoop
    <2> HIDE DEF e, l
    <2>2. /\ AttachLFH(e, l).cd = e.cd
          /\ AttachLFH(e, l).zip64 = e.zip64
          /\ AttachLFH(e, l).lfhOffset = e.lfhOffset
          /\ \E s \in Seq(HeaderKind) : AttachLFH(e, l).issues = e.issues \o s
        BY <2>1, AttachType
    <2>3. CASE i = cur
        BY <2>1, <2>2, <2>3 DEF e, PassKind
    <2>4. CASE i # cur
        <3>1. entries[i].issues \o << >> = entries[i].issues /\ << >> \in Seq(HeaderKind)
            BY EntryTypes, ConcatEmptySeq
        <3> QED
            BY <2>1, <2>4, <3>1 DEF PassKind
    <2> QED
        BY <2>3, <2>4
<1>4. CASE FlagDuplicate
    <2>1. G({"duplicate_name"})
        BY <1>4, TwoIssuesAdded
    <2>2. pc = "detectDuplicates"
        BY <1>4 DEF FlagDuplicate, InLoop
    <2> QED
        BY <2>1, <2>2 DEF PassKind
<1>5. CASE FlagConflict
    <2> DEFINE K == {"directory_file_conflict"}
               t == Flag(InConflict(NameOf(cur)), "directory_file_conflict")
    <2>1. t \in Seq(K) /\ K \subseteq IssueKind
        BY FlagType DEF EntryKind, IssueKind
    <2>2. /\ entries' = AppendIssues(entries, cur, t) /\ cur \in 1..N
          /\ pc = "detectDirectoryConflicts"
        BY <1>5, InLoopRange DEF FlagConflict, InLoop
    <2> HIDE DEF t, K
    <2>3. G(K)
        BY <2>1, <2>2, OneIssueAdded
    <2> QED
        BY <2>2, <2>3 DEF PassKind, K
<1>6. CASE AuditFilename
    <2> DEFINE t == AuditOf[NameOf(cur)]
    <2>1. /\ entries' = AppendIssues(entries, cur, t) /\ cur \in 1..N
          /\ pc = "auditFilenames"
        BY <1>6, InLoopRange DEF AuditFilename, InLoop
    <2>2. t \in Seq(FilenameKind) /\ FilenameKind \subseteq IssueKind
        BY <2>1, EntryTypes, NameAssumption DEF IssueKind
    <2> HIDE DEF t
    <2>3. G(FilenameKind)
        BY <2>1, <2>2, OneIssueAdded
    <2> QED
        BY <2>1, <2>3 DEF PassKind
<1>7. CASE AnalyzeManifest
    <2> DEFINE t == ManifestIssues(file, entries[manifest])
    <2>1. /\ entries' = AppendIssues(entries, manifest, t) /\ manifest \in 1..N
          /\ pc = "analyzeManifest"
        BY <1>7, EntryTypes DEF AnalyzeManifest, TypeOK, N
    <2>2. t \in Seq(AXMLKind) /\ AXMLKind \subseteq IssueKind
        BY <2>1, EntryTypes, ManifestIssuesType DEF IssueKind, TypeOK
    <2> HIDE DEF t
    <2>3. G(AXMLKind)
        BY <2>1, <2>2, OneIssueAdded
    <2> QED
        BY <2>1, <2>3 DEF PassKind
<1>8. CASE \/ RecordName \/ GatherName \/ PickManifest \/ NoManifest
           \/ CountArchiveIssues \/ ReportEntry
           \/ \E label, next \in Label : LoopDone(label, next)
    <2>1. entries' = entries
        BY <1>8 DEF RecordName, GatherName, PickManifest, NoManifest, CountArchiveIssues,
                    ReportEntry, LoopDone
    <2> QED
        BY <1>1, <2>1
<1>9. \/ FlagOffsetOutOfRange \/ ReadLocalHeader \/ FlagDuplicate \/ FlagConflict
      \/ AuditFilename \/ AnalyzeManifest
      \/ RecordName \/ GatherName \/ PickManifest \/ NoManifest
      \/ CountArchiveIssues \/ ReportEntry
      \/ \E label, next \in Label : LoopDone(label, next)
    BY DEF Passes, Label
<1> QED
    BY <1>2, <1>3, <1>4, <1>5, <1>6, <1>7, <1>8, <1>9

\* A pass keeps the number of the entries and their names.
LEMMA PassNames ==
    ASSUME TypeOK, Passes
    PROVE  N' = N /\ \A i \in 1..N : NameOf(i)' = NameOf(i)
<1>1. CASE N = 0
    <2>1. entries' = entries
        BY <1>1, InLoopRange DEF Passes, FlagOffsetOutOfRange, ReadLocalHeader, LoopDone,
           RecordName, FlagDuplicate, GatherName, FlagConflict, AuditFilename, PickManifest,
           NoManifest, AnalyzeManifest, CountArchiveIssues, ReportEntry, N, TypeOK
    <2> QED
        BY <2>1 DEF N, NameOf
<1>2. CASE N # 0
    BY <1>2, EntryTypes, PassIssues DEF NameOf
<1> QED
    BY <1>1, <1>2

\* A pass says nothing of the kinds it cannot add.
LEMMA PassReports ==
    ASSUME TypeOK, Passes, NEW i \in 1..N, NEW K, PassKind(pc) \cap K = {}
    PROVE  Reports(entries'[i].issues, K) <=> Reports(entries[i].issues, K)
<1>1. PICK t \in Seq(PassKind(pc)) : entries'[i].issues = entries[i].issues \o t
    BY PassIssues
<1>2. PassKind(pc) \subseteq IssueKind
    BY DEF PassKind, HeaderKind, IssueKind, EntryKind, TypeOK, Label
<1>3. t \in Seq(IssueKind) /\ entries[i].issues \in Seq(IssueKind)
    BY <1>2, EntryTypes, SeqMonotonic
<1>4. ~Reports(t, K)
    BY NoReport
<1> QED
    BY <1>1, <1>3, <1>4, ReportsConcat

----------------------------------------------------------------------------
(* The strengthened invariants.                                            *)

HeadLabel == {"main", "findEOCD", "findZIP64EOCD", "FindSigningBlock", "seekCD",
              "readCentralDirectory"}

\* An entry as readCDRecord left it.
Fresh(e) == e.issues = << >> /\ e.lfh = << >> /\ e.dataOffset = 0

\* Before the passes nothing is flagged or recorded, and readLocalHeaders has
\* not touched the entries it has yet to reach.
LoopInv ==
    pc # "exit" =>
        /\ cur <= N + 1
        /\ pc \in HeadLabel =>
              /\ cur = 1
              /\ seen = [n \in Name |-> 0]
              /\ fileNames = {} /\ dirNames = {}
              /\ \A i \in 1..N : Fresh(entries[i])
        /\ pc = "readLocalHeaders" =>
              /\ seen = [n \in Name |-> 0]
              /\ fileNames = {} /\ dirNames = {}
              /\ \A i \in 1..N : i >= cur => Fresh(entries[i])

DupScanned == Scanned("detectDuplicates", AfterDuplicates)

\* seen maps exactly the names scanned so far to an entry of that name.
SeenInv ==
    pc # "exit" =>
        \A n \in Name :
            /\ seen[n] # 0 => seen[n] <= DupScanned /\ NameOf(seen[n]) = n
            /\ \A j \in 1..DupScanned : NameOf(j) = n => seen[n] # 0

LEMMA LoopHeads ==
    ASSUME TypeOK, LoopInv, Heads
    PROVE  LoopInv'
<1> USE DEF headVars, nameVars, reportVars
<1>1. /\ pc \in HeadLabel /\ pc' \in HeadLabel \cup {"readLocalHeaders"}
      /\ UNCHANGED <<cur, seen, fileNames, dirNames>>
    BY DEF Heads, OpenFile, FindEOCD, NotZIP64, FindZIP64EOCD, FindSigningBlock,
           AllocateEntries, ReadCDRecord, CentralDirectoryRead, HeadLabel
<1>2. /\ cur = 1 /\ seen = [n \in Name |-> 0] /\ fileNames = {} /\ dirNames = {}
      /\ \A i \in 1..N : Fresh(entries[i])
    BY <1>1 DEF LoopInv, HeadLabel
<1>3. N' \in Nat /\ \A i \in 1..N' : Fresh(entries'[i])
    <2>1. CASE ReadCDRecord
        <3> DEFINE e == NewEntry(CDRecords(file, cdOffset)[N + 1])
        <3>1. N + 1 \in 1..Len(CDRecords(file, cdOffset))
            <4>1. CDRecords(file, cdOffset) \in Seq(CentralDirectoryRecord)
                BY FileTypes DEF TypeOK
            <4>2. Len(CDRecords(file, cdOffset)) \in Nat
                BY <4>1, LenProperties
            <4>3. N < Len(CDRecords(file, cdOffset)) /\ N \in Nat
                BY <2>1, EntryTypes DEF ReadCDRecord
            <4> QED
                BY <4>2, <4>3
        <3>2. CDRecords(file, cdOffset)[N + 1] \in CentralDirectoryRecord
            BY <3>1, FileTypes, ElementOfSeq DEF TypeOK
        <3>3. e \in Entry /\ Fresh(e)
            BY <3>2, NewEntryType DEF Fresh
        <3>4. entries' = Append(entries, e)
            BY <2>1 DEF ReadCDRecord
        <3> HIDE DEF e
        <3>5. /\ Len(entries') = N + 1
              /\ \A i \in 1..(N + 1) : entries'[i] = IF i <= N THEN entries[i] ELSE e
            BY <3>3, <3>4, EntryTypes, AppendProperties DEF TypeOK, N
        <3> QED
            BY <1>2, <3>3, <3>5, EntryTypes DEF N
    <2>2. CASE ~ReadCDRecord
        <3>1. entries' = entries
            BY <2>2 DEF Heads, OpenFile, FindEOCD, NotZIP64, FindZIP64EOCD, FindSigningBlock,
                        AllocateEntries, CentralDirectoryRead
        <3> QED
            BY <1>2, <3>1, EntryTypes DEF N, Fresh
    <2> QED
        BY <2>1, <2>2
<1>4. N' \in Nat /\ (\A i \in 1..N : Fresh(entries[i]))'
    BY <1>3 DEF Fresh
<1>5. cur' = 1 /\ seen' = [n \in Name |-> 0] /\ fileNames' = {} /\ dirNames' = {}
    <2>1. cur' = cur /\ seen' = seen /\ fileNames' = fileNames /\ dirNames' = dirNames
        BY <1>1
    <2> QED
        BY <1>2, <2>1, Zenon
<1>6. (cur <= N + 1)'
    BY <1>4, <1>5 DEF N
<1> QED
    BY <1>4, <1>5, <1>6 DEF LoopInv

LEMMA LoopPasses ==
    ASSUME TypeOK, LoopInv, Passes
    PROVE  LoopInv'
<1> USE DEF headVars, nameVars, reportVars
<1>1. N \in Nat /\ cur \in Nat \ {0}
    BY EntryTypes DEF TypeOK
<1>2. pc \notin HeadLabel /\ pc # "exit" /\ cur <= N + 1
    BY DEF Passes, FlagOffsetOutOfRange, ReadLocalHeader, LoopDone, RecordName, FlagDuplicate,
           GatherName, FlagConflict, AuditFilename, PickManifest, NoManifest, AnalyzeManifest,
           CountArchiveIssues, ReportEntry, InLoop, HeadLabel, LoopInv
<1>3. CASE FlagOffsetOutOfRange
    <2> DEFINE t == <<"lfh_offset_out_of_range">>
    <2>1. t \in Seq(IssueKind) /\ cur \in 1..N /\ entries' = AppendIssues(entries, cur, t)
        BY <1>3, InLoopRange DEF IssueKind, EntryKind, FlagOffsetOutOfRange
    <2> HIDE DEF t
    <2>2. /\ N' = N
          /\ \A i \in 1..N : i # cur => /\ entries'[i].issues = entries[i].issues
                                         /\ entries'[i].lfh = entries[i].lfh
                                         /\ entries'[i].dataOffset = entries[i].dataOffset
        BY <2>1, OneIssueAdded
    <2>3. \A i \in 1..N : (i # cur /\ Fresh(entries[i])) => Fresh(entries[i])'
        BY <2>2 DEF Fresh
    <2> QED
        BY <1>1, <1>3, <2>1, <2>2, <2>3 DEF FlagOffsetOutOfRange, InLoop, LoopInv, HeadLabel, N
<1>4. CASE ReadLocalHeader
    <2>1. /\ cur \in 1..N /\ N' = N
          /\ \A i \in 1..N : i # cur => entries'[i] = entries[i]
        BY <1>4, HeaderAttached
    <2> QED
        BY <1>1, <1>4, <2>1 DEF ReadLocalHeader, InLoop, LoopInv, HeadLabel, Fresh
<1>5. ASSUME NEW label, NEW next \in Label \ (HeadLabel \cup {"exit", "readLocalHeaders"}),
             LoopDone(label, next)
      PROVE  LoopInv'
    BY <1>1, <1>5 DEF LoopDone, LoopInv, N
<1>6. CASE \/ RecordName \/ FlagDuplicate \/ GatherName \/ FlagConflict \/ AuditFilename
           \/ PickManifest \/ NoManifest \/ AnalyzeManifest \/ CountArchiveIssues \/ ReportEntry
    <2>1. N' = N
        BY PassNames
    <2>2. \/ cur' = cur
          \/ cur' = cur + 1 /\ cur <= N
        BY <1>6 DEF RecordName, FlagDuplicate, GatherName, FlagConflict, AuditFilename,
           PickManifest, NoManifest, AnalyzeManifest, CountArchiveIssues, ReportEntry, InLoop
    <2>3. pc' \notin HeadLabel \cup {"readLocalHeaders"}
        BY <1>6 DEF RecordName, FlagDuplicate, GatherName, FlagConflict, AuditFilename,
           PickManifest, NoManifest, AnalyzeManifest, CountArchiveIssues, ReportEntry, InLoop,
           HeadLabel
    <2> QED
        BY <1>1, <1>2, <2>1, <2>2, <2>3 DEF LoopInv
<1> QED
    BY <1>3, <1>4, <1>5, <1>6 DEF Passes, Label, HeadLabel

LEMMA LoopInit ==
    ASSUME Init
    PROVE  LoopInv
BY DEF Init, LoopInv, N, HeadLabel

LEMMA LoopStep ==
    ASSUME TypeOK, LoopInv, [Next]_vars
    PROVE  LoopInv'
<1>1. CASE Heads
    BY <1>1, LoopHeads
<1>2. CASE Passes
    BY <1>2, LoopPasses
<1>3. CASE Stops
    BY <1>3, StopsStop DEF Stop, LoopInv
<1>4. CASE UNCHANGED vars
    BY <1>4 DEF vars, headVars, nameVars, reportVars, LoopInv, N, Fresh
<1> QED
    BY <1>1, <1>2, <1>3, <1>4 DEF Next, Terminated

\* What IssuesOnlyGrow says of one step.
LEMMA GrowStep ==
    ASSUME TypeOK, LoopInv, [Next]_vars, NEW i \in 1..N
    PROVE  /\ i <= Len(entries')
           /\ entries'[i].cd = entries[i].cd
           /\ entries[i].lfh \in {<< >>, entries'[i].lfh}
           /\ Len(entries[i].issues) <= Len(entries'[i].issues)
           /\ \A k \in DOMAIN entries[i].issues : entries'[i].issues[k] = entries[i].issues[k]
<1>1. N \in Nat /\ entries[i].issues \in Seq(IssueKind)
    BY EntryTypes
<1>2. CASE entries' = entries
    BY <1>1, <1>2, LenProperties DEF N
<1>3. CASE ReadCDRecord
    <2>1. Len(entries') = N + 1 /\ entries'[i] = entries[i]
        BY <1>1, <1>3 DEF ReadCDRecord, N, TypeOK
    <2> QED
        BY <1>1, <2>1, LenProperties
<1>4. CASE Passes
    <2>1. PICK s \in Seq(PassKind(pc)) : entries'[i].issues = entries[i].issues \o s
        BY <1>4, PassIssues
    <2>2. /\ Len(entries[i].issues) <= Len(entries'[i].issues)
          /\ \A k \in DOMAIN entries[i].issues : entries'[i].issues[k] = entries[i].issues[k]
        <3>1. PassKind(pc) \subseteq IssueKind
            BY DEF PassKind, HeaderKind, IssueKind, EntryKind, TypeOK, Label
        <3>2. s \in Seq(IssueKind)
            BY <3>1, SeqMonotonic
        <3> QED
            BY <1>1, <2>1, <3>2, ConcatProperties, LenProperties
    <2>3. entries[i].lfh \in {<< >>, entries'[i].lfh}
        <3>1. CASE pc # "readLocalHeaders"
            BY <1>4, <3>1, PassIssues
        <3>2. CASE FlagOffsetOutOfRange
            <4> DEFINE t == <<"lfh_offset_out_of_range">>
            <4>1. /\ t \in Seq(HeaderKind) /\ HeaderKind \subseteq IssueKind /\ cur \in 1..N
                  /\ entries' = AppendIssues(entries, cur, t)
                BY <3>2, InLoopRange DEF IssueKind, EntryKind, HeaderKind, FlagOffsetOutOfRange
            <4> HIDE DEF t
            <4> QED
                BY <4>1, OneIssueAdded
        <3>3. CASE ReadLocalHeader
            <4>1. /\ cur \in 1..N
                  /\ i # cur => entries'[i] = entries[i]
                BY <3>3, HeaderAttached
            <4>2. i = cur => entries[i].lfh = << >>
                BY <3>3 DEF ReadLocalHeader, InLoop, LoopInv, Fresh
            <4> QED
                BY <4>1, <4>2
        <3>4. CASE LoopDone("readLocalHeaders", "detectDuplicates")
            BY <3>4 DEF LoopDone
        <3> QED
            BY <1>4, <3>1, <3>2, <3>3, <3>4 DEF Passes, InLoop, RecordName, FlagDuplicate,
               GatherName, FlagConflict, AuditFilename, PickManifest, NoManifest,
               AnalyzeManifest, CountArchiveIssues, ReportEntry, LoopDone
    <2> QED
        BY <1>1, <1>4, <2>2, <2>3, PassIssues DEF N
<1>5. CASE Heads /\ ~ReadCDRecord
    <2>1. entries' = entries
        BY <1>5 DEF Heads, OpenFile, FindEOCD, NotZIP64, FindZIP64EOCD, FindSigningBlock,
                    AllocateEntries, CentralDirectoryRead
    <2> QED
        BY <1>2, <2>1
<1>6. CASE Stops \/ UNCHANGED vars
    <2>1. entries' = entries
        BY <1>6, StopsStop DEF Stop, vars
    <2> QED
        BY <1>2, <2>1
<1> QED
    BY <1>2, <1>3, <1>4, <1>5, <1>6 DEF Next, Terminated

THEOREM LoopCorrect == Spec => []LoopInv
BY TypeCorrect, LoopInit, LoopStep, PTL DEF Spec

\* No step of any run drops, reorders or rewrites an entry, reads a local header
\* twice, or takes an issue back.
THEOREM IssuesOnlyGrowHolds == Spec => IssuesOnlyGrow
<1>1. TypeOK /\ LoopInv /\ [Next]_vars
      => [\A i \in 1..N :
            /\ i <= Len(entries')
            /\ entries'[i].cd = entries[i].cd
            /\ entries[i].lfh \in {<< >>, entries'[i].lfh}
            /\ Len(entries[i].issues) <= Len(entries'[i].issues)
            /\ \A k \in DOMAIN entries[i].issues :
                  entries'[i].issues[k] = entries[i].issues[k]]_vars
    BY GrowStep
<1> QED
    BY <1>1, TypeCorrect, LoopCorrect, PTL DEF Spec, IssuesOnlyGrow

----------------------------------------------------------------------------
(* Duplicate names.                                                        *)

\* The passes other than detectDuplicates leave seen and its progress alone.
LEMMA DupQuiet ==
    ASSUME TypeOK, LoopInv, Passes, ~RecordName, ~FlagDuplicate
    PROVE  /\ DupScanned' = DupScanned
           /\ seen' = seen
           /\ pc = "detectDuplicates" => entries' = entries
<1> USE DEF headVars, nameVars, reportVars
<1>1. N \in Nat /\ cur \in Nat \ {0} /\ N' = N
    BY EntryTypes, PassNames DEF TypeOK
<1>2. seen' = seen /\ (pc = "detectDuplicates" => entries' = entries)
    BY DEF Passes, FlagOffsetOutOfRange, ReadLocalHeader, LoopDone, GatherName, FlagConflict,
       AuditFilename, PickManifest, NoManifest, AnalyzeManifest, CountArchiveIssues,
       ReportEntry, InLoop
<1>3. CASE FlagOffsetOutOfRange \/ ReadLocalHeader
    BY <1>3 DEF FlagOffsetOutOfRange, ReadLocalHeader, InLoop, DupScanned, Scanned,
       AfterDuplicates, AfterConflicts, AfterPick
<1>4. CASE LoopDone("readLocalHeaders", "detectDuplicates")
    BY <1>4 DEF LoopDone, DupScanned, Scanned, AfterDuplicates, AfterConflicts, AfterPick
<1>5. CASE LoopDone("detectDuplicates", "gatherNames")
    BY <1>1, <1>5 DEF LoopDone, DupScanned, Scanned, AfterDuplicates, AfterConflicts,
       AfterPick, LoopInv
<1>6. ASSUME pc \in AfterDuplicates, pc' \in AfterDuplicates
      PROVE  DupScanned' = DupScanned
    BY <1>1, <1>6 DEF DupScanned, Scanned, AfterDuplicates, AfterConflicts, AfterPick
<1>7. \/ FlagOffsetOutOfRange \/ ReadLocalHeader
      \/ LoopDone("readLocalHeaders", "detectDuplicates")
      \/ LoopDone("detectDuplicates", "gatherNames")
      \/ pc \in AfterDuplicates /\ pc' \in AfterDuplicates
    BY DEF Passes, LoopDone, GatherName, FlagConflict, AuditFilename, PickManifest, NoManifest,
       AnalyzeManifest, CountArchiveIssues, ReportEntry, InLoop, AfterDuplicates,
       AfterConflicts, AfterPick
<1> QED
    BY <1>2, <1>3, <1>4, <1>5, <1>6, <1>7

\* Up to the first step of readLocalHeaders nothing has been scanned or flagged.
LEMMA DupHeads ==
    ASSUME TypeOK, LoopInv, Heads
    PROVE  SeenInv' /\ DuplicatesFlagged'
<1>1. /\ pc \in HeadLabel /\ pc' \in HeadLabel \cup {"readLocalHeaders"} /\ cur' = cur
    BY DEF Heads, OpenFile, FindEOCD, NotZIP64, FindZIP64EOCD, FindSigningBlock,
           AllocateEntries, ReadCDRecord, CentralDirectoryRead, HeadLabel
<1>2. LoopInv' /\ TypeOK'
    BY LoopHeads, TypeHeads
<1>3. DupScanned' = 0 /\ pc' # "exit"
    BY <1>1 DEF HeadLabel, DupScanned, Scanned, AfterDuplicates, AfterConflicts, AfterPick
<1>4. /\ seen' = [n \in Name |-> 0]
      /\ \A i \in 1..N' : entries'[i].issues = << >>
    BY <1>1, <1>2 DEF LoopInv, HeadLabel, Fresh
<1>5. SeenInv'
    BY <1>3, <1>4 DEF SeenInv
<1>6. \A i \in 1..N' : ~Reports(entries'[i].issues, {"duplicate_name"})
    BY <1>4 DEF Reports
<1>7. N' \in Nat
    BY <1>2, LenProperties DEF TypeOK, N
<1> QED
    BY <1>3, <1>5, <1>6, <1>7 DEF DuplicatesFlagged, DupScanned

LEMMA DupPasses ==
    ASSUME TypeOK, LoopInv, SeenInv, DuplicatesFlagged, Passes
    PROVE  SeenInv' /\ DuplicatesFlagged'
<1> DEFINE D == {"duplicate_name"}
           Flagged(i) == Reports(entries[i].issues, D)
           Twin(i, n) == \E j \in 1..n : j # i /\ NameOf(j) = NameOf(i)
<1>1. /\ N \in Nat /\ cur \in Nat \ {0} /\ N' = N
      /\ \A i \in 1..N : NameOf(i) \in Name /\ NameOf(i)' = NameOf(i)
      /\ seen \in [Name -> 0..N]
    BY EntryTypes, PassNames DEF TypeOK, N
<1>2. pc # "exit"
    BY DEF Passes, FlagOffsetOutOfRange, ReadLocalHeader, LoopDone, RecordName, FlagDuplicate,
           GatherName, FlagConflict, AuditFilename, PickManifest, NoManifest, AnalyzeManifest,
           CountArchiveIssues, ReportEntry, InLoop
<1>3. /\ \A n \in Name : /\ seen[n] # 0 => seen[n] <= DupScanned /\ NameOf(seen[n]) = n
                         /\ \A j \in 1..DupScanned : NameOf(j) = n => seen[n] # 0
      /\ \A i \in 1..N : Flagged(i) <=> i <= DupScanned /\ Twin(i, DupScanned)
    BY <1>2 DEF SeenInv, DuplicatesFlagged, DupScanned
<1>4. DupScanned \in 0..N
    BY <1>1, <1>2 DEF DupScanned, Scanned, LoopInv
<1>5. ASSUME NEW m \in 0..N, DupScanned' = m,
             seen' \in [Name -> 0..N],
             \A n \in Name : /\ seen'[n] # 0 => seen'[n] <= m /\ NameOf(seen'[n]) = n
                            /\ \A j \in 1..m : NameOf(j) = n => seen'[n] # 0,
             \A i \in 1..N : Reports(entries'[i].issues, D) <=> i <= m /\ Twin(i, m)
      PROVE  SeenInv' /\ DuplicatesFlagged'
    <2>1. \A i \in 1..N : entries'[i].cd.name = NameOf(i)
        BY <1>1 DEF NameOf
    <2>2. \A n \in Name :
            /\ seen'[n] # 0 => seen'[n] <= DupScanned' /\ entries'[seen'[n]].cd.name = n
            /\ \A j \in 1..DupScanned' : entries'[j].cd.name = n => seen'[n] # 0
        BY <1>1, <1>5, <2>1
    <2>3. \A i \in 1..N' :
            Reports(entries'[i].issues, D)
              <=> /\ i <= DupScanned'
                  /\ \E j \in 1..DupScanned' : /\ j # i
                                               /\ entries'[j].cd.name = entries'[i].cd.name
        BY <1>1, <1>5, <2>1
    <2>4. SeenInv'
        BY <2>2 DEF SeenInv, NameOf
    <2>5. DuplicatesFlagged'
        BY <2>3 DEF DuplicatesFlagged, DupScanned, NameOf
    <2> QED
        BY <2>4, <2>5
<1>6. CASE RecordName
    <2>1. /\ cur \in 1..N /\ pc = "detectDuplicates" /\ pc' = pc /\ cur' = cur + 1
          /\ entries' = entries
          /\ seen' = [seen EXCEPT ![NameOf(cur)] = cur]
          /\ seen[NameOf(cur)] = 0
        BY <1>6, InLoopRange DEF RecordName, InLoop
    <2>2. DupScanned = cur - 1 /\ DupScanned' = cur
        BY <1>1, <2>1 DEF DupScanned, Scanned
    <2>3. \A j \in 1..(cur - 1) : NameOf(j) # NameOf(cur)
        BY <1>1, <1>3, <2>1, <2>2
    <2>4. ASSUME NEW n \in Name
          PROVE  /\ seen'[n] # 0 => seen'[n] <= cur /\ NameOf(seen'[n]) = n
                 /\ \A j \in 1..cur : NameOf(j) = n => seen'[n] # 0
        <3>1. CASE n = NameOf(cur)
            BY <1>1, <2>1, <3>1
        <3>2. CASE n # NameOf(cur)
            BY <1>1, <1>3, <2>1, <2>2, <3>2
        <3> QED
            BY <3>1, <3>2
    <2>5. ASSUME NEW i \in 1..N
          PROVE  (i <= cur - 1 /\ Twin(i, cur - 1)) <=> (i <= cur /\ Twin(i, cur))
        BY <1>1, <2>1, <2>3
    <2>6. \A i \in 1..N : Reports(entries'[i].issues, D) <=> i <= cur /\ Twin(i, cur)
        BY <1>3, <2>1, <2>2, <2>5
    <2>7. seen' \in [Name -> 0..N]
        BY <1>1, <2>1
    <2> HIDE DEF Twin
    <2> QED
        BY <1>1, <1>5, <2>1, <2>2, <2>4, <2>6, <2>7
<1>7. CASE FlagDuplicate
    <2> DEFINE f == seen[NameOf(cur)]
    <2>1. /\ cur \in 1..N /\ pc = "detectDuplicates" /\ pc' = pc /\ cur' = cur + 1
          /\ seen' = seen /\ f # 0
        BY <1>7, InLoopRange DEF FlagDuplicate, InLoop, nameVars
    <2>2. DupScanned = cur - 1 /\ DupScanned' = cur
        BY <1>1, <2>1 DEF DupScanned, Scanned
    <2>3. f \in 1..(cur - 1) /\ NameOf(f) = NameOf(cur)
        BY <1>1, <1>3, <2>1, <2>2
    <2>4. ASSUME NEW n \in Name
          PROVE  /\ seen[n] # 0 => seen[n] <= cur /\ NameOf(seen[n]) = n
                 /\ \A j \in 1..cur : NameOf(j) = n => seen[n] # 0
        <3>1. seen[n] \in 0..N
            BY <1>1
        <3>2. seen[n] # 0 => seen[n] <= cur - 1 /\ NameOf(seen[n]) = n
            BY <1>3, <2>2
        <3>3. ASSUME NEW j \in 1..cur, NameOf(j) = n PROVE seen[n] # 0
            <4>1. j # cur => j \in 1..(cur - 1)
                BY <1>1
            <4> QED
                BY <1>3, <2>1, <2>2, <3>3, <4>1
        <3> QED
            BY <1>1, <2>1, <3>1, <3>2, <3>3
    <2>5. ASSUME NEW i \in 1..N
          PROVE  Reports(entries'[i].issues, D) <=> i <= cur /\ Twin(i, cur)
        <3>1. /\ i \in {cur, f} => Reports(entries'[i].issues, D)
              /\ i \notin {cur, f} => (Reports(entries'[i].issues, D) <=> Flagged(i))
            BY <1>7, TwoIssuesAdded
        <3>2. CASE i \in {cur, f}
            BY <1>1, <2>1, <2>3, <3>1, <3>2
        <3>3. CASE i \notin {cur, f}
            <4>1. Flagged(i) <=> i <= cur - 1 /\ Twin(i, cur - 1)
                BY <1>3, <2>2
            <4>2. i <= cur <=> i <= cur - 1
                BY <1>1, <3>3
            <4>3. Twin(i, cur) <=> Twin(i, cur - 1)
                BY <1>1, <2>3, <3>3
            <4> QED
                BY <3>1, <3>3, <4>1, <4>2, <4>3
        <3> QED
            BY <3>2, <3>3
    <2> HIDE DEF Twin
    <2> QED
        BY <1>1, <1>5, <2>1, <2>2, <2>4, <2>5
<1>8. CASE ~RecordName /\ ~FlagDuplicate
    <2>1. /\ DupScanned' = DupScanned /\ seen' = seen
          /\ pc = "detectDuplicates" => entries' = entries
        BY <1>8, DupQuiet
    <2>2. ASSUME NEW i \in 1..N PROVE Reports(entries'[i].issues, D) <=> Flagged(i)
        <3>1. CASE pc = "detectDuplicates"
            BY <2>1, <3>1
        <3>2. CASE pc # "detectDuplicates"
            <4>1. PassKind(pc) \cap D = {}
                BY <3>2 DEF PassKind, HeaderKind, FilenameKind, AXMLKind, TypeOK, Label
            <4> QED
                BY <4>1, PassReports
        <3> QED
            BY <3>1, <3>2
    <2>3. \A i \in 1..N : Reports(entries'[i].issues, D)
                            <=> i <= DupScanned /\ Twin(i, DupScanned)
        BY <1>3, <2>2
    <2> HIDE DEF Twin
    <2> QED
        BY <1>1, <1>3, <1>4, <1>5, <2>1, <2>3
<1> QED
    BY <1>6, <1>7, <1>8

LEMMA DupStep ==
    ASSUME TypeOK, LoopInv, SeenInv, DuplicatesFlagged, [Next]_vars
    PROVE  SeenInv' /\ DuplicatesFlagged'
<1>1. CASE Heads
    BY <1>1, DupHeads
<1>2. CASE Passes
    BY <1>2, DupPasses
<1>3. CASE Stops
    BY <1>3, StopsStop DEF Stop, SeenInv, DuplicatesFlagged
<1>4. CASE UNCHANGED vars
    BY <1>4 DEF vars, headVars, nameVars, reportVars, SeenInv, DuplicatesFlagged, DupScanned,
       Scanned, N, NameOf
<1> QED
    BY <1>1, <1>2, <1>3, <1>4 DEF Next, Terminated

\* In every run, on every file, detectDuplicates flags exactly the entries whose
\* name another one shares, the first copy as well as the later ones.
THEOREM DuplicatesFlaggedHolds == Spec => []DuplicatesFlagged
<1>1. Init => SeenInv /\ DuplicatesFlagged
    BY DEF Init, SeenInv, DuplicatesFlagged, DupScanned, Scanned, AfterDuplicates,
       AfterConflicts, AfterPick, N
<1>2. TypeOK /\ LoopInv /\ SeenInv /\ DuplicatesFlagged /\ [Next]_vars
      => SeenInv' /\ DuplicatesFlagged'
    BY DupStep
<1> QED
    BY <1>1, <1>2, TypeCorrect, LoopCorrect, PTL DEF Spec
============================================================================
