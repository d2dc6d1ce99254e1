# A formal model of androidzip

androidzip reads an APK as Android does, from the Central Directory, reads the local
header of every entry as well, and reports where the two differ. Its answer is an exit
code: 0 for a clean archive, 2 for a malformed one, 1 for one that cannot be parsed.
A tool that is run over malware must keep three promises on *any* file: it ends, a
clean verdict means that parsers cannot be played against each other, and nothing found
by one pass is lost by a later one. This project models the program, states those
promises, model-checks them with TLC on small files and proves them with TLAPS for all files, but for
the first, which is liveness and stays with TLC.

## The system

The program is sequential: one process, one file, no goroutines, nothing persisted. What
is hard about it is not concurrency but **arithmetic on numbers read from the file**, **the
order of its passes**, which hand state to each other through fields of `Entry`, and
**what an error in the middle cuts short**.

| component (source) | state it keeps | operations | what makes it correct |
|---|---|---|---|
| program and exit code (`main.go`) | the archive, the report | open, `OpenReader`, `BuildReport`, print, exit | exit 0 only when nothing is wrong; the run ends |
| `OpenReader` and its passes (`zip/reader.go`) | `cdOffset`, `entryCount`, `archiveIssues`, `entries`, each with `LFH`, `DataOffset`, `Issues` | `findZIP64EOCD`, `readCentralDirectory`, `readLocalHeaders`, `detectDuplicates`, `detectDirectoryConflicts`, `analyzeManifest` | every pass flags exactly what it is for, in any order of entries; the manifest analysed is the one meant |
| binary records, ZIP64 (`zip/structures.go`, `zip/reader.go`) | none | `parseZIP64Extra`, `parseZIP64Block`, effective sizes, `diffEntries`, `canReadData`, `readEntryData` | equal fields are equal *after* expansion |
| APK Signing Block (`zip/sigblock.go`) | position, pairs, issues | `FindSigningBlock`, `parseSigningBlockPairs` | the pairs tile the block; sums that wrap do no harm |
| EOCD scan (`zip/reader.go`) | position of the scan, the record and the locator found | `findEOCD`, `findZIP64EOCD` | the last record whose comment fits is taken, and no read leaves the file |
| filename audit (`zip/filename.go`) | none | `auditFilename` | a clean name shows what it is and stays in its directory |
| AXML analysis (`zip/axml.go`) | position of the walk, offsets seen, issues | `ParseAXML`, `parseAXMLStringPool`, `parseAXMLStartElement` | the chunks tile the data; no read outside a chunk; each offset judged once |
| report (`zip/report.go`) | `IssueCount`, the entries reported | `BuildReport`, `WriteText`, `WriteJSON` | the count is that of the issues |
| MalwareBazaar scanner (`bazaar.py`) | `malformed`, `errors`, a temporary directory | query, download, `extract_apk`, `scan`, count by exit code | a sample is counted as what it is and does not stay on the disk; the exit code tells what was found |

**How they interact.** `main` calls `OpenReader`, which calls the passes in a fixed order;
they communicate through the slice of entries alone. Three of these channels are easy
to break: `canReadData` decides by issues that `readLocalHeaders` left on the entry;
`DataOffset` is set by `readLocalHeaders` or stays zero when it takes its `continue`;
`detectDuplicates` writes to an entry it has already passed. `bazaar.py` sees the program
through its exit code and the bytes it writes, which it decodes.

**The behaviours that are hard.** 64-bit offsets, counts and sizes converted to signed
integers (reader.go:48, 222, 571; sigblock.go:103, 163, 173); two allocations whose size
comes out of the file (reader.go:184, 559); end records that lead to different
directories (reader.go:160); errors that end the whole analysis next to issues that end
nothing (reader.go:239 and 247); a first copy flagged by a later one (reader.go:480); a
count kept apart from what it counts (report.go:377, 387); a backward scan for a signature
that may stand in a comment (reader.go:100); a chunk walk and an offset table steered by the
data they check (axml.go:63, 126); and, around the program, a batch in which some failures
skip a sample and others end everything (bazaar.py:190, 198 and 116, 178). PROJECT.json lists them as
hazards, with the properties that watch over them.

## The modules

| module | models | extends |
|---|---|---|
| `ZipRecords` | the records, the pure functions, and the file as the set of answers its offsets give | |
| `OpenReader` | one run of the program, one action per call or loop iteration | `ZipRecords` |
| `ArchiveVerdict` | the abstract specification: what a run promises of a file, with no pass and no loop | `ZipRecords` |
| `SigningBlockReader` | `FindSigningBlock`, read by read | `ZipRecords` |
| `FilenameAudit` | `auditFilename` over code points, and what a name does to a tool that extracts it | `OpenReader` |
| `EndRecords` | `findEOCD` and `findZIP64EOCD`, position by position and read by read | `ZipRecords` |
| `AxmlWalk` | `ParseAXML` and the two chunk checks, chunk by chunk and offset by offset | `ZipRecords` |
| `BazaarScan` | one run of `bazaar.py`, one action per outcome of each step of `main` | |
| `OpenReaderProofs` | theorem: `TypeOK` | `OpenReader` |
| `OpenReaderInvariants` | theorems: `IssuesOnlyGrow`, `DuplicatesFlagged` | `OpenReaderProofs` |
| `PassProofs` | theorems: `HeadersAccounted`, `ConflictsFlagged`, `ManifestIsLastReadable`, `ReportComplete` | `OpenReaderInvariants` |
| `VerdictProofs` | theorems: `ImplementsVerdict`, `CleanMeansOneReading`, `CleanManifest`, `CleanNamesSafe` | `PassProofs`, `FilenameAudit` |
| `SigningBlockProofs`, `EndRecordsProofs`, `AxmlProofs`, `BazaarProofs` | theorems on the module of that name | `SigningBlockReader`, `EndRecords`, `AxmlWalk`, `BazaarScan` |
| `MCOpenReader`, `MCSigningBlockReader`, `MCEndRecords`, `MCAxmlWalk`, `MCBazaarScan` | small instances for TLC | |

**The file** (`ZipRecords`) is a record: what `findEOCD` returns, what stands at the ZIP64
locator, and four functions of the offset: the Central Directory records that can be
read one after the other from it (`cdAt`), the bytes at it read as a local header (`lfhAt`),
the outcome of `FindSigningBlock` for a directory at it (`sigAt`) and what `ParseAXML` says of
the bytes at it (`axmlAt`). Every offset has an answer, so overlapping, shared and
misplaced structures are in the model. To the passes, names are values; a directory name
has a `BaseOf`; `AuditOf` says what `auditFilename` reports of a name. `FilenameAudit` gives the three their
meaning: a name is the sequence of its code points (`Invalid` for bytes that are not UTF-8), a
directory name ends with `/`, and `AuditOf` is `auditFilename`, translated (`NameFormAssumption`, which
TLC evaluates).

**`OpenReader`** has one variable per variable of the code that outlives a call: `cdOffset`,
`entryCount`, `archiveIssues`, `entries`, `seen`, `fileNames`, `dirNames`, `manifest`, the report's
`issueCount`, and `pc`, `cur` for the position. Every error return is an action that calls
`Stop(1)`, every Go panic one that calls `Stop(2)`: the Go runtime exits with the
same code the program uses for issues. `nil` pointers are empty sequences.
`seen[n] = 0` is an absent key. Every `for` over the entries, that of `analyzeManifest` included, is one
action per iteration: `PickManifest` looks at one entry and keeps it or passes it by.

**`SigningBlockReader`** opens the box `sigAt`: the sizes are chosen when they are read, from
the whole of `U64`, offsets wrap at 2^63, and the call returns what `KeepsContract` compares
with `SigningBlockOf`, the operator through which `OpenReader` uses it. The two modules are
joined by that property: any outcome of the detailed call is one that the run's model
admits, at the offset where it was made.

**`ArchiveVerdict`** says of each entry, by set comprehension over the table, which kinds of
issue the file makes true of it, and when a run is refused or crashes. `OpenReader`'s
`ImplementsVerdict` is the refinement: `pc` and `exitCode` map to a phase, the issues of a
finished run to the verdict (`RunPhase`, `RunVerdict`, `RunHeadVerdict`).

**`EndRecords`** opens the first two boxes of `OpenReader`'s file, `eocd` and `zip64`. The file is the
set of records its offsets hold when read as an EOCD, a locator or a ZIP64 record, so that records may
overlap and stand in comments. `ImplementsReader` is the join: with `ReaderPC`, `ReaderCDOffset`,
`ReaderEntryCount` and `ReaderExitCode` as mapping, and a file whose `eocd` and `zip64` are what the scan must
find, each of its behaviours is one of `OpenReader`'s first steps. That file is computed by set
comprehension over all offsets, not by the scan.

**`AxmlWalk`** has the variables of `ParseAXML` and of the string pool check it calls. Types, sizes, counts
and offsets are chosen when they are read; the chunks walked over (`chunks`) and the offsets read
(`strings`) are kept for the properties. The pool's table is read where the code reads it, inside the
chunk or not: that no field is read outside is `ReadsInChunk`.

**`BazaarScan`** is given a batch of samples, each with what the service answers for it, the members of its
ZIP, and how androidzip would end on each of these; and a setup: key file, query, whether `pyzipper` is
there, `--json`, and where the binary is (`BinaryFound` is the check of bazaar.py:152, `BinaryRuns` what the
operating system does with the name: a file in the current directory passes the former and fails the
latter). An exception that a handler catches is an action that calls `Skip`; one that none catches calls
`Exit(1)`; both leave the `with` statement and remove the directory. The scan itself can raise in two ways:
`ExecFails`, of a binary that does not start, and `DecodeFails`, of a report that is not UTF-8. `Interrupt` is a
SIGINT at any step, an exception like the others; `Terminate` is a SIGTERM, SIGHUP or SIGKILL, which Python
handles not at all: the directory stays. The next-state relation separates what the script does by itself (`OwnStep`) from
what an answer of the service or the end of androidzip makes possible (`Answered`).
The ends of androidzip and their exit codes are those of `OpenReader`: `clean` 0, `refused` 1, `malformed`
and `crashed` 2; a signal gives a negative code.

### Numbers and their scale

| constant | stands for | in the runs |
|---|---|---|
| `Sentinel16`, `Sentinel32` | 2^16-1, 2^32-1 | 4, 5; 3, 5 in `eocd_scan`; 3, 10 in `axml` |
| `Half` | 2^63, where `int64` wraps | 8; 32 for the signing block; 16 in `eocd_scan` |
| `SigBlockMinSize` | 32 bytes | 2; 5 = 1 + 2 + 2 in the signing block |
| `SigBlockMagicLen`, `SigBlockSizeLen`, `BlockIDLen` | 16, 8, 4 bytes | 1, 2, 1 |
| `AxmlMinLen` | 8 bytes | 2 |
| `MaxEntryCap`, `MaxByteLen` | the longest slices the Go runtime can allocate | 4; 7, or 12 |
| `EOCDFixedSize`, `EOCDSigLen`, `LocatorSize` | 22, 4, 20 bytes | 3, 2, 2; the longest comment is `Sentinel16` = 3 |
| `PoolHeaderLen`, `ElementLen`, `OffsetLen`, `Alignment` | 28, 36, 4 bytes, 4 | 3, 4, 1, 2 |
| `DataLens` | the length of the manifest | 1, 9 |

Scaled values keep the order of the real ones: the 32-bit sentinel lies below `Half`, sizes
exist on both sides of the allocation limit and of `Half`, and the file is shorter than both.
Go's `int` is taken to have 64 bits, as on every platform Android tools run on. The theorems
assume only the order (`WidthAssumption`, `LengthAssumption`, `SizeAssumption`) and cover the real values.

## The runs

| run | files | asks |
|---|---|---|
| `archives` | five families. Tables: up to three entries out of eight records, whose names and offsets collide, leave the file, or meet a bad or truncated header. Headers: one entry whose two headers range over flags, methods, checksums, sizes, sentinels and ZIP64 blocks whole, short, overrunning, preceded and followed by others. Names: over a hundred of every make-up, in both headers or in one. Manifests: three methods by sizes by contents with and without faults, which inflate or not. End records: 17 ZIP32 by 49 ZIP64 records (negative offsets and counts among them) with a signing block or none, and its other outcomes by two ZIP64 choices | the passes: types, headers, duplicates, conflicts, manifest, report, growth; what a clean exit means of headers, directories, names and manifests; the verdict; termination |
| `signing_block` | two file sizes, every offset, every size field, up to the pairs that fit | tiling, reads inside, issues, contract, return |
| `eocd_scan` | files of 2, 3, 5 and 8 bytes, up to three places with the signature, every comment length, locators at even, odd or no offsets with targets inside, outside and negative | which record is taken, reads inside, the refinement of `OpenReader`, return |
| `axml` | data of 1 and 9 bytes; every size, count, start and offset | tiling, reads inside, offsets, alignment, return |
| `bazaar` | every batch of up to three samples out of fifteen kinds, nine setups, a signal at any step | counters, exit code, disk, output, end |
| `streaming`, `manifest`, `exit_two`, `signing_block_wrap`, `axml_strings`, `bazaar_exit`, `bazaar_zero` | part of one of the above | a statement of the repository each, refuted |

Three entries are enough for a duplicate of a duplicate, for a name between two
copies, for a directory before, between and after its file, and for an unreadable last
manifest behind a readable one. The passes look at an entry and one other at a time, so
that a fourth brings no new case. Where flags and methods vary, half of the entries are no manifests: the
comparisons of `diffEntries` alone then decide between exit 0 and 2. Two entry positions with distinct answers
are enough for end records that disagree. A signing block of 12 bytes holds up to
three pairs, and its sizes reach past `Half` from both sides. A file of 8 bytes is longer than the scan's
window of 6, and holds two records that overlap in front of a third; those of 2 and 3 bytes are shorter
than a record and exactly one. Data of 9 bytes holds three chunks behind the outer header, or a
pool with two offsets and strings. Three samples are enough for a malformed one before and behind any other
outcome.

What the properties say:

* `HeadersAccounted`: after `readLocalHeaders` an entry has a whole header inside the file, or the
  one issue that explains why not. Later passes seek without a test, relying on this.
* `DuplicatesFlagged`, `ConflictsFlagged`: *exactly* the entries concerned are flagged, at every
  moment of the pass, whatever the order.
* `ManifestIsLastReadable`: at every iteration of the loop, the entry held is the last manifest scanned whose record
  leads to a local header's signature *in the file*, and AXML findings are on no other entry. The code decides by issues that
  `readLocalHeaders` left on the entry (`canReadData`); the property does not look at them.
* `IssuesOnlyGrow`: no step takes back an issue, an entry or a header.
* `ReportComplete`: the count is zero only if nothing at all was flagged.
* `CleanMeansOneReading`: exit 0 means that a reader of local headers and one of the Central
  Directory, a first-wins and a last-wins reader, a ZIP32 and a ZIP64 reader see the same archive.
* `CleanManifest`: exit 0 means that every manifest whose content is there has been looked at and has no fault. `ContentThere` is
  said of the file: the data lies in it, inflates if it is to be inflated, and holds what a binary XML needs at least. The property
  binds the headers, the duplicates, the choice of the manifest, its method and the limit of the inflating reader. It leaves out
  declared sizes from 2^63-1 on: `int64(uncompSize)+1` (reader.go:571) is then not positive, the reader yields nothing and no error, and the
  content, whatever it is, passes unexamined. The model has these sizes. It also leaves out content that is cut off or does not inflate,
  of which reader.go:529 records nothing.
* `ImplementsVerdict`: the refinement of `ArchiveVerdict`.
* `PairsTile`, `PairReadsInside`, `IssuesTold`, `KeepsContract`: the signing block is parsed without a
  gap or an overlap, in the part of the file that is known to exist, and nothing unknown in it
  is kept quiet; its outcome is one that `OpenReader` expects.
* `CleanNamesSafe`: exit 0 means that no name in the Central Directory or in a local header, which is never
  audited itself, hides a character or leads out of the directory it is extracted to. `EscapesOnPosix` and `EscapesOnWindows` follow the
  name component by component, with the separators and the roots of each kind of system; `auditFilename` looks for a leading slash and
  three sequences. On POSIX systems no clean name escapes. On Windows none climbs out, but one that begins with a backslash or
  a drive letter does start elsewhere, and filename.go:92 does not look for either: the property names these two and shows that there is no
  third. `auditFilename` flags more than what escapes (`a./b`), and leaves a bare `..`, which names no file.
* `LastFittingTaken`, `WellFormedFound`: of all offsets of the window with a record whose comment fits, the
  last is taken; a file that ends as a well-formed archive does is never reported as having no EOCD.
* `ImplementsReader`: the refinement of `OpenReader`'s first steps.
* `ChunksTile`, `ReadsInChunk`: the chunks checked follow each other without a gap, and `ru16` and `ru32` never
  have to answer 0 for a field that is not there.
* `StringsJudged`, `MisalignmentTold`: one issue for each offset that deserves it, by its own value and those
  before it; one for each misaligned *size*, not for the chunks it displaces.
* `Accounted`, `ReportsKept`: counters and output of a batch against what the samples hold, wherever it stops.
* `ExitTold`: what the exit code does tell. 0: androidzip ended with 2 on no sample, and all are clean if none was skipped. 2: it ended
  with 2 on one. 1: no batch, or a failure that no handler covers. That 0 and 2 are documented to mean more is the business of
  `bazaar_zero` and `exit_two`.
* `SampleContained`: malware is on the disk only from its download to the end of its scan, unless a signal that runs no handler
  ends the script; and what is scanned is the member that was to be.
* `EndsUnlessHeld`: the batch ends, unless the service or androidzip keeps it waiting for ever.
* `ReadsInside`: no slice that `findEOCD` takes of its buffer leaves it, at a position of the scan or at the end of a comment. Where the
  ZIP64 record is read from is in `ImplementsReader`.
* `Termination`, `Returns`: every loop bounded by a number from the file ends.

**Fairness** is `WF_vars(Next)`: a sequential program on a regular file, whose every call returns,
keeps taking steps. Nothing stronger is assumed; which of several outcomes a step has
is never subject to fairness. For `bazaar.py` it is `WF_vars(OwnStep)`, on the steps that wait for nobody. The timeouts of
its requests (bazaar.py:56, 81) bound each wait on the socket and not the answer, which may drip in for ever, and `subprocess.run`
(bazaar.py:116) has none: neither is assumed to return, and a signal need never come. `TypeOK`, the invariants and the violation runs need none.

Every module's final state stutters explicitly (`Terminated`, `Returned`, `Done`), so that deadlock is
checked in every run and a missing case of a guard would show as one.

### What the repository says and the code does not do

| run | statement | what happens |
|---|---|---|
| `streaming` | "a well-formed single-entry archive produces no issues" (zip_test.go:258) | an entry written to a stream has a zero checksum in its local header; sizes are compared only without a data descriptor (reader.go:420), the checksum always (reader.go:410): exit code 2 |
| `manifest` | the manifest is the "last entry with that name" (reader.go:515) | the last copy that `canReadData` accepts is analysed; a bad signature on the last copy hands the analysis to another |
| `exit_two` | "exit 2 = issues found" (main.go:13) | `make` with a size from the file panics, and a panic exits with 2; bazaar.py:213 counts it as a malformed sample, against its own documentation of 2 (bazaar.py:12) |
| `signing_block_wrap` | the block stands "immediately before the Central Directory" (sigblock.go:51) | a trailing size of 2^63 or more turns negative, the block starts *behind* the directory, and with equal sizes no issue is raised |
| `axml_strings` | "Validate each string offset: must be within the string data region" (axml.go:146) | a pool that declares strings and whose `stringsStart` leaves no room for them returns at axml.go:149, with no offset looked at and no issue |
| `bazaar_exit` | exit code 2: "one or more samples had malformations" (bazaar.py:12) | the text report prints a flagged name as raw bytes (report.go:420); one that is not UTF-8 makes `subprocess.run(text=True)` raise, nothing catches it, and the batch ends with 1 and without the malformations counted before |
| `bazaar_zero` | exit code 0: "all samples clean (or no samples returned)" (bazaar.py:10) | a sample that could not be downloaded, unpacked or parsed only adds to `errors`; line 221 looks at `malformed` alone, and the batch ends with 0 |

## The proofs

All theorems hold for every value of the constants that satisfies the named assumptions: any
names, any set of files, any widths. Nothing is assumed of a file but its shape (`IsFile`).

* `TypeCorrect`: `Spec => []TypeOK`. The part that is not bookkeeping is that `seen`, `manifest` and
  `reported` hold indices of the table, which makes the accesses of later passes legal. The lemmas
  type the pure functions (`NewEntry`, `AttachLFH`, `diffEntries`, `ManifestIssues`), with one step per
  action.
* `IssuesOnlyGrowHolds`: an action property, from `TypeOK` and `LoopInv`. `LoopInv` says that an entry which
  `readLocalHeaders` has not reached has no header yet: without it `ReadLocalHeader` might replace
  one.
* `DuplicatesFlaggedHolds`: `DuplicatesFlagged` is not inductive by itself. `SeenInv` adds that `seen[n]` is the
  index of a scanned entry named `n`, and zero only when there is none; `LoopInv` says that no entry
  carries the flag before the passes begin. `PassIssues` says which kinds of issue each pass can add,
  `PassReports` that it says nothing of the others; with them the other passes leave the flags alone, and
  `RecordName` and `FlagDuplicate` are done by cases on the entry looked at.
* `HeadersAccountedHolds`: inductive together with `LoopInv`, since a header is only ever attached to an entry
  that is still as `readCDRecord` left it.
* `ConflictsFlaggedHolds`: `GatherInv` says that `fileNames` and `dirNames` hold exactly the names gathered so
  far; at the loop that reads them, those are all.
* `ManifestIsLastReadableHolds`: `ReadableIsLocated` shows from `HeadersAccounted` that what `canReadData` concludes from issues
  and from `DataOffset` is what the file says: the record leads to a signature in it. `PickStep` is one iteration of the loop, and
  `LocatedKept` that no later pass changes which entries are meant. `ManifestInv` adds that no manifest is chosen before its pass.
* `ReportCompleteHolds`: `ReportInv` relates the count and the entries reported to the entries looked at.
* `RunCorrect`: `Spec => []RunInv`, the inductive invariant of a whole run. To the invariants above it adds, for each pass, that
  what it has left behind is *what the file determines*, in the terms of `ArchiveVerdict`:
  `HeadInv` (offset, count and the archive's own issues, once the end records and the signing block are read), `TableInv` (the
  entries are the rows of the file's table, as far as it is read), `HeaderInv` (the header kinds of an entry looked at are those of its
  row, and its data begins where its header ends), `AuditInv` (the filename kinds), `AnalysisInv` (the AXML kinds, on the manifest
  alone) and `KindInv` (no entry carries an archive's issue). None of them can be dropped: the verdict of an entry is the union
  of six groups of kinds, each written by one pass and left alone by the others, and the last step needs all of them.
* `ImplementsVerdictHolds`: every initial state of a run maps to one of `ArchiveVerdict`'s, and every step to `Publish`, `Refuse`,
  `Crash` or a stutter. `StepMaps` goes through the actions. The passes, loops and tables are silent (`Silent`, `StaysOpen`).
  Each error return maps to a `Refuse` and each panic to a `Crash`, with the guard of the abstract action taken from `HeadInv`,
  `TableInv` or `AnalysisInv` (`StopMaps`). The output maps to the one `Publish`: `AllRead` says that a run which gets there has read
  everything, `EntryTold` that the kinds of each entry are those of the verdict, and `CountTells` that the count is zero just when
  the verdict is clean. The set comprehensions of the abstract specification (duplicates, conflicts, the manifest as a maximum)
  meet the state of the loops in `RowsOfTable`, `ManifestsFound` and `ManifestFits`.
* `CleanMeansOneReadingHolds`: `CountTells` turns exit code 0 into empty lists of issues; `EntryClean` reads `HeadersAccounted` for an
  entry without any, and `DiffClean` shows that a `diffEntries` that says nothing leaves no difference in the name, flags, method,
  checksum and *effective* sizes; `NamesDiffer` is `DuplicatesFlagged` without a flag; `EndsAgree` follows from `HeadInv`. No assumption
  on names is needed.
* `CleanManifestHolds`: a clean archive has one manifest at most (`NamesDiffer`), its header has its signature (`EntryClean`), so that it is the one chosen
  (`ManifestChosen`); its data begins where the file says (`HeaderInv`), and `ContentAnalysed` shows that what is then analysed is its
  content: a limit below `Half` does not wrap (`NoWrap`). `AnalysisInv` carries the findings to its list of issues, which is empty.
* `CleanNamesSafeHolds`: by the same invariant the name of the local header is the audited one, and its audit is empty. `AuditClean` is
  the lemma on `auditFilename`: a name without the three sequences and without a leading slash has no component `..` that a separator
  of either kind ends (`NoUps`), so that the walk never goes up more often than down. This is the one theorem that uses
  `NameFormAssumption`.

* `PairsTileHolds`, `PairReadsInsideHolds`: the inductive invariant is `TypeOK /\ ReadInv /\ PairsTile`.
  `ReadInv` bounds the Central Directory by the file once the magic is read, and the next pair by the
  directory. The arithmetic shows that a pair which passes the boundary test by wrapping can never be
  allocated: the only way through is the panic. This rests on `SizeAssumption`, that a file and an
  allocatable slice together are shorter than 2^63 bytes.
* `KeepsContractHolds`: from the same invariant.
* `IssuesToldHolds`: `ToldInv` counts, for the pairs read so far, the unknown ones and the issues that tell of them; one step adds
  one of both or none of either, and counting is by cardinality.
* `TypeCorrect` of `SigningBlockProofs`, `EndRecordsProofs` and `AxmlProofs`: `Spec => []TypeOK`, with the invariants of the module where `TypeOK` is
  not inductive alone: that the position of the signing block stays in `Nat` rests on `ReadInv`.
* `LastFittingTakenHolds`, `WellFormedFoundHolds`, `ReadsInsideHolds`: inductive with the position of the scan: no offset
  above it that is still in the window holds an acceptable record. That a well-formed archive is always found then only
  needs the window to be as long as the longest comment and a record, and the record at the end of it to be acceptable.
* `ImplementsReaderHolds`: every initial state maps to one of `OpenReader`'s, and every step to `OpenFile`, `FindEOCD`,
  `NoEOCD`, `NotZIP64`, `FindZIP64EOCD`, `BadZIP64EOCD` or a stutter. The step that takes a record uses `LastFittingTaken` to show
  that it is the `eocd` of the mapped file.
* `ChunksTileHolds`, `ReadsInChunkHolds`, `StringsJudgedHolds`, `MisalignmentToldHolds`: for data of any length. The first is inductive
  with `TypeOK`; the second follows from it and from the tests in front of the offset table; the others relate the issues to
  the history of what was read, where one step adds one offset or one chunk, and counting is by cardinality.
* `AccountedHolds`, `ExitToldHolds`, `SampleContainedHolds`, `ReportsKeptHolds`: for batches of any length. `StepInv` says what the
  script knows of the current sample at each step, and what a signal without a handler leaves; `OneMoreSample` that the sets counted grow by the current sample or not at
  all. `ExitTold` follows from `Accounted` at the end of the loop.

Every invariant, the action property and both refinements that a passing run checks are theorems.
Model-checked only: `Termination`, `Returns` and `EndsUnlessHeld`, which are liveness under fairness and out of the prover's reach, like
`ENABLED` and induction over data. The refuted statements have no theorem. What `NewEntry`, `diffEntries` or `auditFilename` compute is
proved as far as the properties tell it apart; their fidelity to the code is a matter of reading.

## What is left out

* Wording, severities, layout of the report, CD comments and `DiskStart`, which nothing reads.
* I/O errors of a regular file other than reads that meet its end, and a file that
  changes while it is read.
* `OpenReader` takes the outcome of `findEOCD`, `findZIP64EOCD`, `FindSigningBlock` and `ParseAXML` from the file. The first three are
  joined to their modules by a property (`ImplementsReader`, `KeepsContract`); of `ParseAXML`, `OpenReader` uses no more than that it
  returns a list of AXML issues, and none for data shorter than 8 bytes.
* In `AxmlWalk`, 32-bit sizes and counts are converted to `int` without loss, as on 64-bit platforms; sums do not wrap.
* In `BazaarScan`, what the requests contain, the names and tags that are logged, a `print` that fails or blocks, and a member name that
  `pyzipper` stores under another path than the one joined to it: androidzip then refuses a file that is not there.
* `WriteText` and `WriteJSON`: wording and layout. Of `WriteText` the bytes of a name matter to `BazaarScan` (`garbled`).
* Command lines `flag.Parse` rejects, on which the flag package exits by itself.
* In the signing block, the bytes two reads share: the leading size is constrained where it overlaps the
  footer (`Leading`); elsewhere it is free. Reads in front of the magic cannot fail; `PairReadsInside`
  shows that they need not be modelled as failing.

## Plan

1. The safety half of `Termination` and `Returns`: for each module a measure in the natural numbers (entries left, positions left, passes left) that
   no step raises and every step but the final stutter lowers, as an action property checked by TLC and proved. With fairness this is
   termination; only the last inference is the prover's limit.
2. A contract of `AxmlWalk` for `OpenReader`, as `KeepsContract` is for the signing block: the outcome of `ParseAXML` on data of any length is one
   that `IsFile` admits for `axmlAt`.
