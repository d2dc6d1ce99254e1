---------------------------- MODULE OpenReader ----------------------------
(***************************************************************************)
(* One run of the androidzip program on one file: main.go, OpenReader and  *)
(* the passes it calls in zip/reader.go, auditFilenames, BuildReport and   *)
(* the exit code.  The program is sequential; pc names the function it is  *)
(* in, and each iteration of a loop is a step of its own, so that what an  *)
(* error or a panic cuts short is visible.  Every error of a pass ends the *)
(* run with exit code 1; a Go panic ends it with exit code 2.              *)
(***************************************************************************)
EXTENDS ZipRecords

CONSTANT Files      \* the files the program may be run on

ASSUME FilesAssumption == \A f \in Files : IsFile(f)

VARIABLES
    file,           \* the file that is read; it does not change
    pc,
    cdOffset, entryCount,           \* the effective CD parameters
    archiveIssues, entries,         \* the Archive under construction
    cur,                            \* index of the entry a loop is at
    seen,                           \* detectDuplicates: name -> first index, 0 if absent
    fileNames, dirNames,            \* detectDirectoryConflicts
    manifest,                       \* analyzeManifest: index of the entry, 0 for nil
    issueCount, reported,           \* BuildReport: IssueCount and the entries reported
    exitCode                        \* -1 while the program runs

headVars == <<cdOffset, entryCount, archiveIssues>>
nameVars == <<seen, fileNames, dirNames>>
reportVars == <<issueCount, reported>>
vars == <<file, pc, headVars, entries, cur, nameVars, manifest, reportVars, exitCode>>

Label == {"main", "findEOCD", "findZIP64EOCD", "FindSigningBlock", "seekCD",
          "readCentralDirectory", "readLocalHeaders", "detectDuplicates",
          "gatherNames", "detectDirectoryConflicts", "auditFilenames",
          "pickManifest", "analyzeManifest", "BuildReport", "reportEntries", "output", "exit"}

TypeOK ==
    /\ IsFile(file)
    /\ pc \in Label
    /\ cdOffset \in Int
    /\ entryCount \in Int
    /\ archiveIssues \in Seq(ArchiveKind)
    /\ entries \in Seq(Entry)
    /\ cur \in Nat \ {0}
    /\ seen \in [Name -> 0..Len(entries)]
    /\ fileNames \in SUBSET Name
    /\ dirNames \in SUBSET Name
    /\ manifest \in 0..Len(entries)
    /\ issueCount \in Nat
    /\ reported \in SUBSET (1..Len(entries))
    /\ exitCode \in {-1, 0, 1, 2}

Init ==
    /\ file \in Files
    /\ pc = "main"
    /\ cdOffset = 0
    /\ entryCount = 0
    /\ archiveIssues = << >>
    /\ entries = << >>
    /\ cur = 1
    /\ seen = [n \in Name |-> 0]
    /\ fileNames = {}
    /\ dirNames = {}
    /\ manifest = 0
    /\ issueCount = 0
    /\ reported = {}
    /\ exitCode = -1

----------------------------------------------------------------------------
(* Control.                                                                *)

N == Len(entries)
NameOf(i) == entries[i].cd.name

\* os.Exit, or a panic: the program stops and the archive is lost to it.
Stop(code) ==
    /\ pc' = "exit"
    /\ exitCode' = code
    /\ UNCHANGED <<file, headVars, entries, cur, nameVars, manifest, reportVars>>

\* Mutant: the issues are assigned, not appended.
AppendIssues_Assign(es, i, kinds) == [es EXCEPT ![i].issues = kinds]

\* entries[i].Issues = append(entries[i].Issues, kinds...)
AppendIssues(es, i, kinds) == [es EXCEPT ![i].issues = @ \o kinds]

\* A loop over the entries goes on, or ends and the next pass begins.
InLoop(label) == pc = label /\ cur <= N

LoopDone(label, next) ==
    /\ pc = label
    /\ cur > N
    /\ pc' = next
    /\ cur' = 1
    /\ UNCHANGED <<file, headVars, entries, nameVars, manifest, reportVars, exitCode>>

----------------------------------------------------------------------------
(* main: the argument count and os.Open.                                   *)

OpenFile ==
    /\ pc = "main"
    /\ pc' = "findEOCD"
    /\ UNCHANGED <<file, headVars, entries, cur, nameVars, manifest, reportVars, exitCode>>

\* No argument, or the file cannot be opened.
UsageOrOpenError == pc = "main" /\ Stop(1)

(* The end records.                                                        *)

FindEOCD ==
    /\ pc = "findEOCD"
    /\ file.eocd # << >>
    /\ cdOffset' = file.eocd[1].cdOffset
    /\ entryCount' = file.eocd[1].entries
    /\ pc' = "findZIP64EOCD"
    /\ UNCHANGED <<file, archiveIssues, entries, cur, nameVars, manifest, reportVars,
                   exitCode>>

NoEOCD == pc = "findEOCD" /\ file.eocd = << >> /\ Stop(1)

NotZIP64 ==
    /\ pc = "findZIP64EOCD"
    /\ file.zip64 = << >>
    /\ pc' = "FindSigningBlock"
    /\ UNCHANGED <<file, headVars, entries, cur, nameVars, manifest, reportVars, exitCode>>

\* The locator's target must be a ZIP64 EOCD; its values then win, and a 32-bit
\* value that is no sentinel must agree with them.
FindZIP64EOCD ==
    /\ pc = "findZIP64EOCD"
    /\ file.zip64 # << >>
    /\ LET z == file.zip64[1]
           e == file.eocd[1]
       IN  /\ ZIP64Readable(z)
           /\ archiveIssues' =
                archiveIssues
                \o Flag(e.cdOffset # Sentinel32 /\ e.cdOffset # z.cdOffset, "zip64_eocd_mismatch")
                \o Flag(e.entries # Sentinel16 /\ e.entries # z.entries, "zip64_eocd_mismatch")
           /\ cdOffset' = Int64(z.cdOffset)
           /\ entryCount' = Int64(z.entries)
    /\ pc' = "FindSigningBlock"
    /\ UNCHANGED <<file, entries, cur, nameVars, manifest, reportVars, exitCode>>

BadZIP64EOCD ==
    /\ pc = "findZIP64EOCD"
    /\ file.zip64 # << >>
    /\ ~ZIP64Readable(file.zip64[1])
    /\ Stop(1)

\* Mutant: the issues of the signing block replace those found before.
FindSigningBlock_Replace ==
    /\ pc = "FindSigningBlock"
    /\ LET s == SigningBlockOf(file, cdOffset)
       IN  /\ s.status \in {"absent", "found"}
           /\ archiveIssues' = IF s.status = "found" THEN s.issues
                               ELSE archiveIssues
    /\ pc' = "seekCD"
    /\ UNCHANGED <<file, cdOffset, entryCount, entries, cur, nameVars, manifest,
                   reportVars, exitCode>>

FindSigningBlock ==
    /\ pc = "FindSigningBlock"
    /\ LET s == SigningBlockOf(file, cdOffset)
       IN  /\ s.status \in {"absent", "found"}
           /\ archiveIssues' = IF s.status = "found" THEN archiveIssues \o s.issues
                               ELSE archiveIssues
    /\ pc' = "seekCD"
    /\ UNCHANGED <<file, cdOffset, entryCount, entries, cur, nameVars, manifest,
                   reportVars, exitCode>>

BadSigningBlock ==
    /\ pc = "FindSigningBlock"
    /\ SigningBlockOf(file, cdOffset).status = "error"
    /\ Stop(1)

SigningBlockPanic ==
    /\ pc = "FindSigningBlock"
    /\ SigningBlockOf(file, cdOffset).status = "panic"
    /\ Stop(2)

----------------------------------------------------------------------------
(* readCentralDirectory.                                                   *)

AllocateEntries ==
    /\ pc = "seekCD"
    /\ cdOffset >= 0
    /\ entryCount \in 0..MaxEntryCap
    /\ pc' = "readCentralDirectory"
    /\ UNCHANGED <<file, headVars, entries, cur, nameVars, manifest, reportVars, exitCode>>

SeekCDError == pc = "seekCD" /\ cdOffset < 0 /\ Stop(1)

\* Mutant: a negative capacity is not caught.
AllocateEntriesPanic_NegativeAllowed ==
    /\ pc = "seekCD"
    /\ cdOffset >= 0
    /\ entryCount > MaxEntryCap
    /\ Stop(2)

\* make([]*Entry, 0, entryCount) with a negative or an impossible capacity.
AllocateEntriesPanic ==
    /\ pc = "seekCD"
    /\ cdOffset >= 0
    /\ entryCount \notin 0..MaxEntryCap
    /\ Stop(2)

ReadCDRecord ==
    /\ pc = "readCentralDirectory"
    /\ N < entryCount
    /\ N < Len(CDRecords(file, cdOffset))
    /\ entries' = Append(entries, NewEntry(CDRecords(file, cdOffset)[N + 1]))
    /\ UNCHANGED <<file, pc, headVars, cur, nameVars, manifest, reportVars, exitCode>>

BadCDRecord ==
    /\ pc = "readCentralDirectory"
    /\ N < entryCount
    /\ N >= Len(CDRecords(file, cdOffset))
    /\ Stop(1)

CentralDirectoryRead ==
    /\ pc = "readCentralDirectory"
    /\ N >= entryCount
    /\ pc' = "readLocalHeaders"
    /\ UNCHANGED <<file, headVars, entries, cur, nameVars, manifest, reportVars, exitCode>>

(* readLocalHeaders.                                                       *)

\* Mutant: the entry is skipped and nothing is said.
FlagOffsetOutOfRange_Silent ==
    /\ InLoop("readLocalHeaders")
    /\ entries[cur].lfhOffset >= file.size
    /\ cur' = cur + 1
    /\ UNCHANGED <<file, pc, headVars, entries, nameVars, manifest, reportVars, exitCode>>

\* An offset past the end is an issue of this entry alone.
FlagOffsetOutOfRange ==
    /\ InLoop("readLocalHeaders")
    /\ entries[cur].lfhOffset >= file.size
    /\ entries' = AppendIssues(entries, cur, <<"lfh_offset_out_of_range">>)
    /\ cur' = cur + 1
    /\ UNCHANGED <<file, pc, headVars, nameVars, manifest, reportVars, exitCode>>

ReadLocalHeader ==
    /\ InLoop("readLocalHeaders")
    /\ entries[cur].lfhOffset < file.size
    /\ LFHReadable(file, entries[cur].lfhOffset)
    /\ entries' = [entries EXCEPT ![cur] = AttachLFH(@, file.lfhAt[@.lfhOffset])]
    /\ cur' = cur + 1
    /\ UNCHANGED <<file, pc, headVars, nameVars, manifest, reportVars, exitCode>>

\* A negative offset or a truncated header ends the analysis of the whole file.
BadLocalHeader ==
    /\ InLoop("readLocalHeaders")
    /\ entries[cur].lfhOffset < file.size
    /\ ~LFHReadable(file, entries[cur].lfhOffset)
    /\ Stop(1)

----------------------------------------------------------------------------
(* detectDuplicates.                                                       *)

RecordName ==
    /\ InLoop("detectDuplicates")
    /\ seen[NameOf(cur)] = 0
    /\ seen' = [seen EXCEPT ![NameOf(cur)] = cur]
    /\ cur' = cur + 1
    /\ UNCHANGED <<file, pc, headVars, entries, fileNames, dirNames, manifest,
                   reportVars, exitCode>>

\* Mutant: only the later copy is flagged.
FlagDuplicate_LaterOnly ==
    /\ InLoop("detectDuplicates")
    /\ seen[NameOf(cur)] # 0
    /\ entries' = AppendIssues(entries, cur, <<"duplicate_name">>)
    /\ cur' = cur + 1
    /\ UNCHANGED <<file, pc, headVars, nameVars, manifest, reportVars, exitCode>>

\* Both this entry and the first of its name are flagged: the first once per
\* later copy.
FlagDuplicate ==
    /\ InLoop("detectDuplicates")
    /\ seen[NameOf(cur)] # 0
    /\ entries' = AppendIssues(AppendIssues(entries, seen[NameOf(cur)], <<"duplicate_name">>),
                               cur, <<"duplicate_name">>)
    /\ cur' = cur + 1
    /\ UNCHANGED <<file, pc, headVars, nameVars, manifest, reportVars, exitCode>>

(* detectDirectoryConflicts: one loop gathers the names, one flags.        *)

\* Mutant: a directory is recorded with its trailing '/'.
GatherName_KeepSlash ==
    /\ InLoop("gatherNames")
    /\ IF IsDir(NameOf(cur))
       THEN dirNames' = dirNames \cup {NameOf(cur)} /\ UNCHANGED fileNames
       ELSE fileNames' = fileNames \cup {NameOf(cur)} /\ UNCHANGED dirNames
    /\ cur' = cur + 1
    /\ UNCHANGED <<file, pc, headVars, entries, seen, manifest, reportVars, exitCode>>

GatherName ==
    /\ InLoop("gatherNames")
    /\ IF IsDir(NameOf(cur))
       THEN dirNames' = dirNames \cup {BaseOf[NameOf(cur)]} /\ UNCHANGED fileNames
       ELSE fileNames' = fileNames \cup {NameOf(cur)} /\ UNCHANGED dirNames
    /\ cur' = cur + 1
    /\ UNCHANGED <<file, pc, headVars, entries, seen, manifest, reportVars, exitCode>>

InConflict(name) ==
    IF IsDir(name) THEN BaseOf[name] \in fileNames ELSE name \in dirNames

FlagConflict ==
    /\ InLoop("detectDirectoryConflicts")
    /\ entries' = AppendIssues(entries, cur,
                               Flag(InConflict(NameOf(cur)), "directory_file_conflict"))
    /\ cur' = cur + 1
    /\ UNCHANGED <<file, pc, headVars, nameVars, manifest, reportVars, exitCode>>

(* auditFilenames.                                                         *)

AuditFilename ==
    /\ InLoop("auditFilenames")
    /\ entries' = AppendIssues(entries, cur, AuditOf[NameOf(cur)])
    /\ cur' = cur + 1
    /\ UNCHANGED <<file, pc, headVars, nameVars, manifest, reportVars, exitCode>>

----------------------------------------------------------------------------
(* analyzeManifest: the loop that chooses the entry, then its data.        *)

\* Mutant: the first readable manifest is kept.
PickManifest_FirstWins ==
    /\ InLoop("pickManifest")
    /\ manifest' = IF manifest = 0 /\ NameOf(cur) = ManifestName /\ canReadData(entries[cur])
                   THEN cur ELSE manifest
    /\ cur' = cur + 1
    /\ UNCHANGED <<file, pc, headVars, entries, nameVars, reportVars, exitCode>>

PickManifest ==
    /\ InLoop("pickManifest")
    /\ manifest' = IF NameOf(cur) = ManifestName /\ canReadData(entries[cur])
                   THEN cur ELSE manifest
    /\ cur' = cur + 1
    /\ UNCHANGED <<file, pc, headVars, entries, nameVars, reportVars, exitCode>>

NoManifest ==
    /\ pc = "analyzeManifest"
    /\ manifest = 0
    /\ pc' = "BuildReport"
    /\ UNCHANGED <<file, headVars, entries, cur, nameVars, manifest, reportVars, exitCode>>

AnalyzeManifest ==
    /\ pc = "analyzeManifest"
    /\ manifest # 0
    /\ CompSize(entries[manifest]) <= MaxByteLen
    /\ entries' = AppendIssues(entries, manifest, ManifestIssues(file, entries[manifest]))
    /\ pc' = "BuildReport"
    /\ UNCHANGED <<file, headVars, cur, nameVars, manifest, reportVars, exitCode>>

\* make([]byte, compSize) with a size the runtime cannot allocate.
ManifestPanic ==
    /\ pc = "analyzeManifest"
    /\ manifest # 0
    /\ CompSize(entries[manifest]) > MaxByteLen
    /\ Stop(2)

----------------------------------------------------------------------------
(* BuildReport, the output and the exit code.                              *)

CountArchiveIssues ==
    /\ pc = "BuildReport"
    /\ issueCount' = Len(archiveIssues)
    /\ pc' = "reportEntries"
    /\ UNCHANGED <<file, headVars, entries, cur, nameVars, manifest, reported, exitCode>>

\* Mutant: the count is assigned, not added to.
ReportEntry_Overwrite ==
    /\ InLoop("reportEntries")
    /\ issueCount' = Len(entries[cur].issues)
    /\ reported' = IF entries[cur].issues = << >> THEN reported ELSE reported \cup {cur}
    /\ cur' = cur + 1
    /\ UNCHANGED <<file, pc, headVars, entries, nameVars, manifest, exitCode>>

ReportEntry ==
    /\ InLoop("reportEntries")
    /\ issueCount' = issueCount + Len(entries[cur].issues)
    /\ reported' = IF entries[cur].issues = << >> THEN reported ELSE reported \cup {cur}
    /\ cur' = cur + 1
    /\ UNCHANGED <<file, pc, headVars, entries, nameVars, manifest, exitCode>>

\* Mutant: the exit code is the number of issues.
Exit_Count == pc = "output" /\ Stop(issueCount)

\* The exit code tells of issues whether or not the report was printed.
Exit == pc = "output" /\ Stop(IF issueCount > 0 THEN 2 ELSE 0)

\* With the flag -json the report may fail to be written.
WriteJSONError == pc = "output" /\ Stop(1)

\* The process is gone.
Terminated == pc = "exit" /\ UNCHANGED vars

Stops ==
    \/ UsageOrOpenError \/ NoEOCD \/ BadZIP64EOCD \/ BadSigningBlock \/ SigningBlockPanic
    \/ SeekCDError \/ AllocateEntriesPanic \/ BadCDRecord \/ BadLocalHeader
    \/ ManifestPanic \/ Exit \/ WriteJSONError

Heads ==
    \/ OpenFile \/ FindEOCD \/ NotZIP64 \/ FindZIP64EOCD \/ FindSigningBlock
    \/ AllocateEntries \/ ReadCDRecord \/ CentralDirectoryRead

Passes ==
    \/ FlagOffsetOutOfRange \/ ReadLocalHeader
    \/ LoopDone("readLocalHeaders", "detectDuplicates")
    \/ RecordName \/ FlagDuplicate
    \/ LoopDone("detectDuplicates", "gatherNames")
    \/ GatherName
    \/ LoopDone("gatherNames", "detectDirectoryConflicts")
    \/ FlagConflict
    \/ LoopDone("detectDirectoryConflicts", "auditFilenames")
    \/ AuditFilename
    \/ LoopDone("auditFilenames", "pickManifest")
    \/ PickManifest
    \/ LoopDone("pickManifest", "analyzeManifest")
    \/ NoManifest \/ AnalyzeManifest
    \/ CountArchiveIssues \/ ReportEntry
    \/ LoopDone("reportEntries", "output")

Next == Heads \/ Passes \/ Stops \/ Terminated

Spec == Init /\ [][Next]_vars

\* A sequential program whose calls return: it keeps taking steps.
FairSpec == Spec /\ WF_vars(Next)

----------------------------------------------------------------------------
(* Properties.                                                             *)

AfterPick == {"analyzeManifest", "BuildReport", "reportEntries", "output"}
AfterConflicts == {"auditFilenames", "pickManifest"} \cup AfterPick
AfterDuplicates == {"gatherNames", "detectDirectoryConflicts"} \cup AfterConflicts
AfterHeaders == {"detectDuplicates"} \cup AfterDuplicates

\* How many entries a pass that is at this label, or done, has dealt with.
Scanned(label, after) == IF pc = label THEN cur - 1 ELSE IF pc \in after THEN N ELSE 0

\* Once the local headers are read, every entry either is flagged as out of the
\* file and has no header, or has the header found where its record says, whole,
\* with its data beginning inside the file: later passes never seek outside it.
HeadersAccounted ==
    \A i \in 1..Scanned("readLocalHeaders", AfterHeaders) :
        LET e == entries[i] IN
        \/ /\ e.lfh = << >>
           /\ e.dataOffset = 0
           /\ e.lfhOffset >= file.size
           /\ Reports(e.issues, {"lfh_offset_out_of_range"})
        \/ /\ e.lfhOffset \in 0..(file.size - 1)
           /\ e.lfh = <<file.lfhAt[e.lfhOffset]>>
           /\ e.dataOffset \in 1..file.size
           /\ ~Reports(e.issues, {"lfh_offset_out_of_range"})
           /\ Reports(e.issues, {"lfh_signature_bad"}) <=> ~e.lfh[1].sigOK

\* At every moment exactly the entries whose name another scanned entry shares
\* are flagged as duplicates, the first copy included, whatever their number
\* and order (reader.go:473).
DuplicatesFlagged ==
    LET n == Scanned("detectDuplicates", AfterDuplicates) IN
    pc # "exit" =>
        \A i \in 1..N :
            Reports(entries[i].issues, {"duplicate_name"})
              <=> i <= n /\ \E j \in 1..n : j # i /\ NameOf(j) = NameOf(i)

\* A directory entry and a file entry of the same name are both flagged, in
\* whichever order they come, and no other entry is (reader.go:488).
ConflictsFlagged ==
    LET n == Scanned("detectDirectoryConflicts", AfterConflicts)
        clash(d, f) == IsDir(d) /\ ~IsDir(f) /\ BaseOf[d] = f
    IN  pc # "exit" =>
        \A i \in 1..N :
            Reports(entries[i].issues, {"directory_file_conflict"})
              <=> /\ i <= n
                  /\ \E j \in 1..N : (clash(NameOf(i), NameOf(j)) \/ clash(NameOf(j), NameOf(i)))

\* The manifests among the first n entries whose data the file itself locates: the
\* record leads to a place in the file where a local header's signature stands.
Located(n) ==
    {i \in 1..n : /\ NameOf(i) = ManifestName
                  /\ entries[i].lfhOffset \in 0..(file.size - 1)
                  /\ file.lfhAt[entries[i].lfhOffset].sigOK}

IsLastLocated(i, n) == i \in Located(n) /\ \A j \in Located(n) : j <= i

\* Whatever issues earlier passes have left on the entries, the loop of
\* analyzeManifest (reader.go:519) holds the last AndroidManifest.xml scanned whose
\* data the file locates, copies before and after it included, and none only when
\* there is none; and findings on the binary manifest are on no other entry.
ManifestIsLastReadable ==
    LET n == Scanned("pickManifest", AfterPick) IN
    pc # "exit" =>
        /\ IF Located(n) = {} THEN manifest = 0 ELSE IsLastLocated(manifest, n)
        /\ \A i \in 1..N : Reports(entries[i].issues, AXMLKind) => IsLastLocated(i, n)

\* A step adds entries at the end and issues at the end of an entry; it never
\* drops or reorders an entry, changes its record, replaces its local header or
\* takes an issue back.
IssuesOnlyGrow ==
    [][\A i \in 1..N :
          /\ i <= Len(entries')
          /\ entries'[i].cd = entries[i].cd
          /\ entries[i].lfh \in {<< >>, entries'[i].lfh}
          /\ Len(entries[i].issues) <= Len(entries'[i].issues)
          /\ \A k \in DOMAIN entries[i].issues : entries'[i].issues[k] = entries[i].issues[k]]_vars

\* The report is complete: its entries are those with an issue, and its count is
\* zero only when nothing at all was flagged.
ReportComplete ==
    pc = "output" =>
        /\ reported = {i \in 1..N : entries[i].issues # << >>}
        /\ issueCount = 0 <=> (reported = {} /\ archiveIssues = << >>)

\* Where a reader that trusts the local header finds the entry's name, method,
\* encryption and, unless a data descriptor holds them, checksum and sizes.
StreamReading(l) ==
    [name |-> l.name, method |-> l.compression, encrypted |-> "encrypted" \in l.gpbf,
     crc32 |-> l.crc32,
     sizes |-> IF "dataDescriptor" \in l.gpbf THEN << >>
               ELSE <<effectiveCompressedSize(l.comp, LocalZIP64(l)),
                      effectiveUncompressedSize(l.uncomp, LocalZIP64(l))>>]

\* The same from the Central Directory.
DirectoryReading(e) ==
    [name |-> e.cd.name, method |-> e.cd.compression, encrypted |-> "encrypted" \in e.cd.gpbf,
     crc32 |-> e.cd.crc32,
     sizes |-> IF "dataDescriptor" \in e.cd.gpbf THEN << >>
               ELSE <<CompSize(e), UncompSize(e)>>]

\* Exit code 0 means that readers cannot be played against each other: those
\* that trust the local headers and those that trust the Central Directory read
\* the same of every entry, first-wins and last-wins readers find the same entry
\* under every name, and a reader that ignores the ZIP64 records is led to the
\* same Central Directory.
CleanMeansOneReading ==
    exitCode = 0 =>
        /\ \A i \in 1..N : /\ entries[i].lfh # << >>
                           /\ entries[i].lfh[1].sigOK
                           /\ StreamReading(entries[i].lfh[1]) = DirectoryReading(entries[i])
        /\ \A i, j \in 1..N : NameOf(i) = NameOf(j) => i = j
        /\ file.eocd[1].cdOffset \in {Sentinel32, cdOffset}
        /\ file.eocd[1].entries \in {Sentinel16, entryCount}

\* Where the file itself says that the data of the entry begins.
DataAt(e) == e.lfhOffset + file.lfhAt[e.lfhOffset].len

\* The data is all there, and by the sizes of its record there is enough of it to begin
\* a binary XML; when it is to be inflated, it inflates, and int64(uncompSize)+1 is what
\* it says (reader.go:571).
ContentThere(e) ==
    /\ e.lfhOffset \in 0..(file.size - 1)
    /\ DataAt(e) + CompSize(e) <= file.size
    /\ IF e.cd.compression = "deflated"
       THEN /\ file.axmlAt[DataAt(e)].inflates
            /\ UncompSize(e) + 1 \in AxmlMinLen..(Half - 1)
       ELSE CompSize(e) >= AxmlMinLen

\* What is wrong with it, read as Android does: any method but deflate is none.
ContentFaults(e) ==
    LET content == file.axmlAt[DataAt(e)]
    IN  IF e.cd.compression = "deflated" THEN content.inflated ELSE content.raw

\* Exit code 0 means that every manifest of the archive whose content is there has been
\* looked at and has no fault: no pass, issue or error on the way to it has kept it
\* from being analysed (reader.go:514).
CleanManifest ==
    exitCode = 0 =>
        \A i \in 1..N : NameOf(i) = ManifestName /\ ContentThere(entries[i]) =>
                          ContentFaults(entries[i]) = << >>

\* The local header repeats the record, but for the checksum and the sizes, which
\* are zero because the data descriptor after the data holds them.
Streamed(e) ==
    /\ "dataDescriptor" \in e.cd.gpbf
    /\ e.cd.compression \notin OtherMethod
    /\ \E l \in {e.lfh[k] : k \in DOMAIN e.lfh} :
          l = [l EXCEPT !.sigOK = TRUE, !.name = e.cd.name, !.gpbf = e.cd.gpbf,
                        !.compression = e.cd.compression,
                        !.crc32 = 0, !.comp = 0, !.uncomp = 0]

\* Stated by the repository, and refuted: a well-formed archive has no issues
\* (zip_test.go:258), such as one written to a stream, whose entries have a data
\* descriptor.
StreamingEntryIsClean ==
    pc = "output" /\ (\A i \in 1..N : Streamed(entries[i])) => issueCount = 0

\* Stated by the repository, and refuted: the manifest analysed is the last entry
\* of that name, the one Android would load (reader.go:515).
ManifestIsLast ==
    pc = "analyzeManifest" /\ manifest # 0 =>
        \A j \in 1..N : NameOf(j) = ManifestName => j <= manifest

\* Stated by the repository, and refuted: exit code 2 means that issues were found
\* (main.go:13).
ExitTwoMeansIssues == exitCode = 2 => issueCount > 0

\* The run ends, whatever the file holds.
Termination == <>(pc = "exit")

\* The run as its outside sees it.  issueCount stays 0 in a run that panics.
Completed == exitCode = 0 \/ (exitCode = 2 /\ issueCount > 0)

RunPhase ==
    CASE pc = "main" -> "start"
      [] pc \notin {"main", "exit"} -> "open"
      [] pc = "exit" /\ exitCode = 1 -> "refused"
      [] pc = "exit" /\ exitCode = 0 -> "clean"
      [] OTHER -> IF issueCount > 0 THEN "malformed" ELSE "crashed"
KindsOf(issues) == {issues[k] : k \in DOMAIN issues}

RunVerdict == IF Completed THEN [i \in 1..N |-> KindsOf(entries[i].issues)] ELSE << >>
RunHeadVerdict == IF Completed THEN KindsOf(archiveIssues) ELSE {}

Verdict == INSTANCE ArchiveVerdict WITH
    phase <- RunPhase, verdict <- RunVerdict, headVerdict <- RunHeadVerdict

\* The passes, loops and tables of the program deliver the verdict that
\* ArchiveVerdict states of the file itself.
ImplementsVerdict == Verdict!Spec
============================================================================
