-------------------------- MODULE ArchiveVerdict --------------------------
(***************************************************************************)
(* What androidzip promises of one run, with no pass, loop or table: the   *)
(* verdict is published in one step, and says of each entry exactly what   *)
(* the file itself makes true of it.  A run is refused when some structure *)
(* cannot be read, and crashes only on a size that cannot be allocated.    *)
(* OpenReader is shown to implement this.                                  *)
(***************************************************************************)
EXTENDS ZipRecords

VARIABLES
    file,
    phase,          \* "start", "open", then how the run ended
    verdict,        \* for each entry, the kinds of its issues
    headVerdict     \* the kinds of the archive's own issues

avars == <<file, phase, verdict, headVerdict>>

KindsOf(issues) == {issues[k] : k \in DOMAIN issues}

----------------------------------------------------------------------------
(* The entry table that the file's end records lead to.                    *)

DirectoryOffset(f) ==
    IF f.zip64 = << >> THEN f.eocd[1].cdOffset ELSE Int64(f.zip64[1].cdOffset)

DirectoryCount(f) ==
    IF f.zip64 = << >> THEN f.eocd[1].entries ELSE Int64(f.zip64[1].entries)

HeadReadable(f) ==
    /\ f.eocd # << >>
    /\ f.zip64 # << >> => ZIP64Readable(f.zip64[1])
    /\ SigningBlockOf(f, DirectoryOffset(f)).status \in {"absent", "found"}
    /\ DirectoryOffset(f) >= 0

\* The size of the entry table is one the runtime can allocate.
CountSane(f) == DirectoryCount(f) \in 0..MaxEntryCap

Table(f) == [i \in 1..DirectoryCount(f) |-> NewEntry(CDRecords(f, DirectoryOffset(f))[i])]

TableReadable(f) ==
    /\ DirectoryCount(f) <= Len(CDRecords(f, DirectoryOffset(f)))
    /\ \A i \in 1..DirectoryCount(f) :
          Table(f)[i].lfhOffset < f.size => LFHReadable(f, Table(f)[i].lfhOffset)

(* The verdict.                                                            *)

InRange(f, e) == e.lfhOffset < f.size

\* The issues of an entry that come from comparing its two headers.
HeaderKinds(f, e) ==
    IF InRange(f, e) THEN KindsOf(AttachLFH(e, f.lfhAt[e.lfhOffset]).issues)
    ELSE {"lfh_offset_out_of_range"}

SameName(t, i) == \E j \in DOMAIN t : j # i /\ t[j].cd.name = t[i].cd.name

\* One of the two is a directory, the other a file of the same name.
Clash(n1, n2) ==
    \/ IsDir(n1) /\ ~IsDir(n2) /\ BaseOf[n1] = n2
    \/ IsDir(n2) /\ ~IsDir(n1) /\ BaseOf[n2] = n1

Conflict(t, i) == \E j \in DOMAIN t : Clash(t[i].cd.name, t[j].cd.name)

\* The manifest entries whose data can be located, and the last of them.
Loadable(f, t) == {i \in DOMAIN t : /\ t[i].cd.name = ManifestName
                                    /\ InRange(f, t[i])
                                    /\ f.lfhAt[t[i].lfhOffset].sigOK}
IsManifest(f, t, i) == i \in Loadable(f, t) /\ \A j \in Loadable(f, t) : j <= i

EntryVerdict(f, t, i) ==
    HeaderKinds(f, t[i])
    \cup (IF SameName(t, i) THEN {"duplicate_name"} ELSE {})
    \cup (IF Conflict(t, i) THEN {"directory_file_conflict"} ELSE {})
    \cup KindsOf(AuditOf[t[i].cd.name])
    \cup (IF IsManifest(f, t, i)
          THEN KindsOf(ManifestIssues(f, AttachLFH(t[i], f.lfhAt[t[i].lfhOffset])))
          ELSE {})

\* The ZIP32 record leads a reader that ignores ZIP64 elsewhere.
Split(f) ==
    /\ f.zip64 # << >>
    /\ \/ f.eocd[1].cdOffset \notin {Sentinel32, f.zip64[1].cdOffset}
       \/ f.eocd[1].entries \notin {Sentinel16, f.zip64[1].entries}

HeadVerdict(f) ==
    (IF Split(f) THEN {"zip64_eocd_mismatch"} ELSE {})
    \cup (IF SigningBlockOf(f, DirectoryOffset(f)).status = "found"
          THEN KindsOf(SigningBlockOf(f, DirectoryOffset(f)).issues) ELSE {})

\* The data of the manifest has a size the runtime cannot allocate.
ManifestOversized(f) ==
    \E i \in DOMAIN Table(f) :
        IsManifest(f, Table(f), i) /\ CompSize(Table(f)[i]) > MaxByteLen

\* Every structure reads, and every size can be allocated.
Analysable(f) == HeadReadable(f) /\ CountSane(f) /\ TableReadable(f) /\ ~ManifestOversized(f)

----------------------------------------------------------------------------
Init ==
    /\ IsFile(file)
    /\ phase = "start"
    /\ verdict = << >>
    /\ headVerdict = {}

Open == phase = "start" /\ phase' = "open" /\ UNCHANGED <<file, verdict, headVerdict>>

\* Exit code 1: the file cannot be opened, something in it cannot be read, or the
\* JSON report cannot be written.
Refuse ==
    /\ \/ phase = "start"
       \/ phase = "open" /\ Analysable(file)
       \/ phase = "open" /\ ~HeadReadable(file)
       \/ phase = "open" /\ CountSane(file) /\ ~TableReadable(file)
    /\ phase' = "refused"
    /\ UNCHANGED <<file, verdict, headVerdict>>

\* A Go panic: exit code 2, and no report.
Crash ==
    /\ phase = "open"
    /\ file.eocd # << >>
    /\ \/ SigningBlockOf(file, DirectoryOffset(file)).status = "panic"
       \/ HeadReadable(file) /\ ~CountSane(file)
       \/ HeadReadable(file) /\ CountSane(file) /\ TableReadable(file) /\ ManifestOversized(file)
    /\ phase' = "crashed"
    /\ UNCHANGED <<file, verdict, headVerdict>>

\* Exit code 0 when nothing is wrong, 2 when something is.
Publish ==
    /\ phase = "open"
    /\ Analysable(file)
    /\ verdict' = [i \in DOMAIN Table(file) |-> EntryVerdict(file, Table(file), i)]
    /\ headVerdict' = HeadVerdict(file)
    /\ phase' = IF headVerdict' = {} /\ \A i \in DOMAIN verdict' : verdict'[i] = {}
                THEN "clean" ELSE "malformed"
    /\ UNCHANGED file

Next == Open \/ Refuse \/ Crash \/ Publish

Spec == Init /\ [][Next]_avars
============================================================================
