---------------------------- MODULE BazaarScan ----------------------------
(***************************************************************************)
(* The MalwareBazaar scanner (bazaar.py): it asks a service for samples,   *)
(* downloads and unpacks each into a temporary directory, runs androidzip  *)
(* on it, and counts what the program's exit code says of it.  A failure   *)
(* that the loop catches skips one sample; any other ends the batch.       *)
(***************************************************************************)
EXTENDS Integers, Sequences, FiniteSets

CONSTANTS
    Name,       \* names of the members of a downloaded ZIP
    Apk,        \* those that end in ".apk", whatever the case
    Setups,     \* the environments and command lines a batch is started in
    Samples     \* the batches of samples that the service may answer with

\* How one run of androidzip ends.  "garbled" is "malformed" with an entry name that
\* is not UTF-8 among those to report.
ProgramEnds == {"clean", "malformed", "garbled", "refused", "crashed", "killed"}

\* What the service sends for a hash: nothing, a status message, a ZIP that does not
\* unpack with the known password, or one that does.
Body == {"lost", "message", "broken", "zip"}

Sample == [hashed : BOOLEAN, body : Body, members : Seq(Name), ends : [Name -> ProgramEnds]]

\* The file that --bin names: with a directory in its name or not, in the current
\* directory (or where the name leads from there), in a directory of PATH, and executable.
Binary == [slash : BOOLEAN, here : BOOLEAN, onPath : BOOLEAN, executable : BOOLEAN]

Setup == [config : {"key", "no key", "unreadable"},
          query : {"ok", "fails"},
          pyzipper : BOOLEAN,
          asJson : BOOLEAN,
          bin : Binary]

ASSUME ApkAssumption == Apk \subseteq Name
ASSUME SetupsAssumption == Setups \subseteq Setup
ASSUME SamplesAssumption == Samples \subseteq Seq(Sample)

\* What the temporary directory holds when it exists and holds no member, and when it
\* does not exist.
Empty == "empty"
None == "none"
ASSUME NameAssumption == Empty \notin Name /\ None \notin Name

VARIABLES
    setup,      \* the environment of this batch
    samples,    \* what the query returns
    at,         \* the step of main() that comes next
    cur,        \* the sample the loop is at, numbered from 1
    tmpdir,     \* what is in the temporary directory
    rc,         \* the return code of the last run of androidzip
    printed,    \* the samples whose report has gone to standard output
    malformed,
    errors,
    exitCode    \* -1 while the script runs

counters == <<malformed, errors>>
vars == <<setup, samples, at, cur, tmpdir, rc, printed, counters, exitCode>>

\* The exit codes the shell shows for a script that SIGINT ended, and for one that SIGTERM
\* did: those of SIGHUP and SIGKILL, which end it in the same way, are other numbers.
Interrupted == 130
Terminated == 143
\* What subprocess.run returns for a program that SIGKILL ended.
Killed == -9

\* TypeOK: what each variable holds.
TypeOK ==
    /\ setup \in Setup
    /\ samples \in Seq(Sample)
    /\ at \in {"config", "binary", "query", "loop", "extract", "scan", "count", "done"}
    /\ cur \in 1..(Len(samples) + 1)
    /\ tmpdir \in {None, Empty} \cup Name
    /\ rc \in {0, 1, 2, Killed}
    /\ printed \in Seq(1..Len(samples))
    /\ malformed \in Nat
    /\ errors \in Nat
    /\ exitCode \in {-1, 0, 1, 2, Interrupted, Terminated}

Init ==
    /\ setup \in Setups
    /\ samples \in Samples
    /\ at = "config"
    /\ cur = 1
    /\ tmpdir = None
    /\ rc = 0
    /\ printed = << >>
    /\ malformed = 0
    /\ errors = 0
    /\ exitCode = -1

----------------------------------------------------------------------------
(* Helpers                                                                 *)

\* Mutant: the directory comes from mkdtemp, and nobody removes it on an exception.
Exit_NoContext(code) ==
    /\ at' = "done"
    /\ exitCode' = code
    /\ UNCHANGED <<setup, samples, cur, tmpdir, rc, printed, counters>>

\* sys.exit, or the interpreter's exit after an exception nobody catches; the with
\* statement removes the temporary directory on the way out.
Exit(code) ==
    /\ at' = "done"
    /\ exitCode' = code
    /\ tmpdir' = None
    /\ UNCHANGED <<setup, samples, cur, rc, printed, counters>>

GoTo(step) ==
    /\ at' = step
    /\ UNCHANGED <<setup, samples, cur, tmpdir, rc, printed, counters, exitCode>>

\* os.path.isfile(args.bin), or the name joined to a directory of PATH.
BinaryFound(b) == b.here \/ b.onPath

\* What the operating system does with the name: one without a slash is looked up in PATH.
BinaryRuns(b) == b.executable /\ IF b.slash THEN b.here ELSE b.onPath

Apks(members) == {k \in DOMAIN members : members[k] \in Apk}

\* The member that extract_apk unpacks: the first APK, and the first member if none is.
Target(members) ==
    IF Apks(members) = {} THEN members[1]
    ELSE members[CHOOSE k \in Apks(members) : \A j \in Apks(members) : k <= j]

\* Mutant: a signal is told as a shell tells it.
ExitStatus_Shell(end) ==
    CASE end = "clean" -> 0
      [] end = "refused" -> 1
      [] end \in {"malformed", "garbled", "crashed"} -> 2
      [] end = "killed" -> 137

\* The exit code of androidzip.  A Go panic leaves with 2 as a malformed archive does.
ExitStatus(end) ==
    CASE end = "clean" -> 0
      [] end = "refused" -> 1
      [] end \in {"malformed", "garbled", "crashed"} -> 2
      [] end = "killed" -> Killed

\* The report is decoded as UTF-8, and only the JSON encoder replaces what is not UTF-8.
Decodes(end) == end = "garbled" => setup.asJson

Current == samples[cur]

----------------------------------------------------------------------------
(* Before the loop                                                         *)

LoadKey == at = "config" /\ setup.config # "unreadable" /\ GoTo("binary")

\* Only FileNotFoundError is caught.
KeyUnreadable == at = "config" /\ setup.config = "unreadable" /\ Exit(1)

CheckBinary == at = "binary" /\ BinaryFound(setup.bin) /\ GoTo("query")

NoBinary == at = "binary" /\ ~BinaryFound(setup.bin) /\ Exit(1)

Query == at = "query" /\ setup.query = "ok" /\ samples # << >> /\ GoTo("loop")

QueryFails == at = "query" /\ setup.query = "fails" /\ Exit(1)

NoSamples == at = "query" /\ setup.query = "ok" /\ samples = << >> /\ Exit(0)

----------------------------------------------------------------------------
(* One sample                                                              *)

\* Mutant: the loop does not move on to the next sample, and a ZIP that does not unpack is
\* downloaded again without end.
Skip_Retry ==
    /\ errors' = errors
    /\ at' = "loop"
    /\ tmpdir' = None
    /\ UNCHANGED <<setup, samples, cur, rc, printed, malformed, exitCode>>

\* The sample is counted as skipped and the loop goes on; a temporary directory is removed.
Skip ==
    /\ errors' = errors + 1
    /\ cur' = cur + 1
    /\ at' = "loop"
    /\ tmpdir' = None
    /\ UNCHANGED <<setup, samples, rc, printed, malformed, exitCode>>

\* sample["sha256_hash"] is read outside every try.
NoHash == at = "loop" /\ cur <= Len(samples) /\ ~Current.hashed /\ Exit(1)

\* The answer is judged by its first bytes, whatever its content type says.  The timeout
\* bounds each wait on the socket, and no request as a whole: the answer may never be
\* complete.  FairSpec takes neither outcome for granted.
DownloadFails ==
    /\ at = "loop" /\ cur <= Len(samples)
    /\ Current.hashed
    /\ Current.body \in {"lost", "message"}
    /\ Skip

Download ==
    /\ at = "loop" /\ cur <= Len(samples)
    /\ Current.hashed
    /\ Current.body \in {"broken", "zip"}
    /\ at' = "extract"
    /\ tmpdir' = Empty
    /\ UNCHANGED <<setup, samples, cur, rc, printed, counters, exitCode>>

ExtractFails ==
    /\ at = "extract"
    /\ ~setup.pyzipper \/ Current.body = "broken"
    /\ Skip

NothingInside ==
    /\ at = "extract"
    /\ setup.pyzipper /\ Current.body = "zip"
    /\ Current.members = << >>
    /\ Skip

Extract ==
    /\ at = "extract"
    /\ setup.pyzipper /\ Current.body = "zip"
    /\ Current.members # << >>
    /\ tmpdir' = Target(Current.members)
    /\ at' = "scan"
    /\ UNCHANGED <<setup, samples, cur, rc, printed, counters, exitCode>>

\* Neither an exec that fails nor a report that does not decode is caught: the batch ends.
ExecFails == at = "scan" /\ ~BinaryRuns(setup.bin) /\ Exit(1)

DecodeFails ==
    /\ at = "scan"
    /\ BinaryRuns(setup.bin) /\ ~Decodes(Current.ends[tmpdir])
    /\ Exit(1)

\* androidzip runs to its end (no timeout), then the with statement is left.
Scan ==
    /\ at = "scan"
    /\ BinaryRuns(setup.bin) /\ Decodes(Current.ends[tmpdir])
    /\ rc' = ExitStatus(Current.ends[tmpdir])
    /\ tmpdir' = None
    /\ at' = "count"
    /\ UNCHANGED <<setup, samples, cur, printed, counters, exitCode>>

\* Mutant: any code but 0 is taken for a malformation.
CountScan_NonZero ==
    /\ malformed' = IF rc # 0 THEN malformed + 1 ELSE malformed
    /\ errors' = errors

\* Which counter a return code goes to.
CountScan ==
    /\ malformed' = IF rc = 2 THEN malformed + 1 ELSE malformed
    /\ errors' = IF rc \notin {0, 2} THEN errors + 1 ELSE errors

\* Mutant: a refusal is counted and not shown.
Count_HideRefusals ==
    /\ at = "count"
    /\ printed' = IF rc \in {0, 2} THEN Append(printed, cur) ELSE printed
    /\ CountScan
    /\ cur' = cur + 1
    /\ at' = "loop"
    /\ UNCHANGED <<setup, samples, tmpdir, rc, exitCode>>

\* A program that was killed has written nothing; any other has written a report, a
\* refusal or the trace of a panic.
Count ==
    /\ at = "count"
    /\ printed' = IF rc = Killed THEN printed ELSE Append(printed, cur)
    /\ CountScan
    /\ cur' = cur + 1
    /\ at' = "loop"
    /\ UNCHANGED <<setup, samples, tmpdir, rc, exitCode>>

\* Mutant: the batch ends with the verdict of its last scan.
Summary_LastScan ==
    /\ at = "loop" /\ cur > Len(samples)
    /\ Exit(IF rc = 2 THEN 2 ELSE 0)

Summary ==
    /\ at = "loop" /\ cur > Len(samples)
    /\ Exit(IF malformed = 0 THEN 0 ELSE 2)

\* KeyboardInterrupt is not an Exception: no handler of the script catches it.
Interrupt == at # "done" /\ Exit(Interrupted)

\* SIGTERM, SIGHUP and SIGKILL run no handler and leave no with statement: what is on the
\* disk stays there.
Terminate ==
    /\ at # "done"
    /\ at' = "done"
    /\ exitCode' = Terminated
    /\ UNCHANGED <<setup, samples, cur, tmpdir, rc, printed, counters>>

----------------------------------------------------------------------------
\* The steps that wait for nobody.
OwnStep ==
    \/ LoadKey \/ KeyUnreadable \/ CheckBinary \/ NoBinary
    \/ NoHash \/ ExtractFails \/ NothingInside \/ Extract
    \/ ExecFails \/ Count \/ Summary

\* Those that an answer of the service or the end of a run of androidzip makes possible.
Answered ==
    \/ Query \/ QueryFails \/ NoSamples
    \/ DownloadFails \/ Download
    \/ DecodeFails \/ Scan

Done == at = "done" /\ UNCHANGED vars

Next == OwnStep \/ Answered \/ Interrupt \/ Terminate \/ Done

Spec == Init /\ [][Next]_vars

\* The script goes on as long as it waits for nobody.  The service need not answer, a run
\* of androidzip need not end, and nobody need send a signal.
FairSpec == Spec /\ WF_vars(OwnStep)

----------------------------------------------------------------------------
(* What the batch makes of each sample                                     *)

Unpacks(s) == setup.pyzipper /\ s.body = "zip" /\ s.members # << >>

EndOf(s) == s.ends[Target(s.members)]

\* androidzip ended with 2: it found the sample malformed, or it crashed.
ExitsTwo(s) == Unpacks(s) /\ EndOf(s) \in {"malformed", "garbled", "crashed"}

IsSkipped(s) == ~Unpacks(s) \/ EndOf(s) \in {"refused", "killed"}

IsClean(s) == Unpacks(s) /\ EndOf(s) = "clean"

\* The sample on which the loop cannot go on.
Aborts(s) ==
    \/ ~s.hashed
    \/ Unpacks(s) /\ (~BinaryRuns(setup.bin) \/ ~Decodes(EndOf(s)))

\* Accounted: wherever the batch stops, every sample behind the cursor is in the counter
\* that its own download, contents and scan put it in, and in no other: none is counted
\* twice or lost by a skip.
Accounted ==
    /\ malformed = Cardinality({k \in 1..(cur - 1) : ExitsTwo(samples[k])})
    /\ errors = Cardinality({k \in 1..(cur - 1) : IsSkipped(samples[k])})

\* ExitTold: what the exit code does tell, as main() computes it; the documented meanings
\* that it does not keep are below.  0: androidzip ended with 2 on no sample, and
\* all are clean if none is counted as skipped.  2: all were looked at, and androidzip
\* ended with 2 on one.  1: the batch did not begin, or stopped at a sample that no
\* handler covers: none that is merely skipped is the cause.
ExitTold ==
    /\ exitCode \in {0, 2} => cur > Len(samples)
    /\ exitCode = 0 =>
          /\ \A k \in DOMAIN samples : ~ExitsTwo(samples[k])
          /\ errors = 0 => \A k \in DOMAIN samples : IsClean(samples[k])
    /\ exitCode = 2 => \E k \in DOMAIN samples : ExitsTwo(samples[k])
    /\ exitCode = 1 =>
          \/ setup.config = "unreadable" \/ setup.query = "fails"
          \/ ~BinaryFound(setup.bin)
          \/ cur \in DOMAIN samples /\ Aborts(samples[cur])

\* SampleContained: malware is on the disk only between the download of a sample and the
\* end of its scan, unless a signal without a handler ended the script, and what is scanned
\* is that sample's first APK, or its first member when it has none.
SampleContained ==
    /\ tmpdir # None => at \in {"extract", "scan"} \/ exitCode = Terminated
    /\ at = "scan" =>
          \E k \in DOMAIN samples[cur].members :
             /\ tmpdir = samples[cur].members[k]
             /\ \A j \in 1..(k - 1) : samples[cur].members[j] \notin Apk
             /\ tmpdir \in Apk \/ (k = 1 /\ Apks(samples[cur].members) = {})

\* ReportsKept: standard output holds one report of each sample whose scan was counted,
\* in the order of the query, that of a refusal or a panic included.
ReportsKept ==
    /\ \A j, k \in DOMAIN printed : j < k => printed[j] < printed[k]
    /\ {printed[j] : j \in DOMAIN printed}
          = {k \in 1..(cur - 1) : Unpacks(samples[k]) /\ EndOf(samples[k]) # "killed"}

\* The script waits: for the answer to its query, for a sample, or for androidzip.
Waiting ==
    \/ at = "query"
    \/ at = "loop" /\ cur <= Len(samples) /\ Current.hashed
    \/ at = "scan" /\ BinaryRuns(setup.bin)

\* EndsUnlessHeld: the batch ends, unless the service or androidzip keeps it waiting for
\* ever.  No failure brings it back to a sample, or to a step, that is behind it.
EndsUnlessHeld == <>(at = "done") \/ <>[]Waiting

\* The samples that a batch has run androidzip on.
Scanned ==
    {k \in DOMAIN samples :
        /\ setup.config # "unreadable" /\ setup.query = "ok" /\ BinaryRuns(setup.bin)
        /\ k < cur \/ (k = cur /\ at = "done")
        /\ samples[k].hashed /\ Unpacks(samples[k])}

\* MalformationsTold: a batch that no signal ended, and in which androidzip found a sample
\* malformed, ends with 2 (the exit codes that bazaar.py documents).
MalformationsTold ==
    exitCode \in {0, 1, 2} /\ (\E k \in Scanned : EndOf(samples[k]) \in {"malformed", "garbled"})
        => exitCode = 2

\* ZeroMeansAllClean: exit code 0 says that all samples are clean, or that there are none
\* (the exit codes that bazaar.py documents).
ZeroMeansAllClean == exitCode = 0 => \A k \in DOMAIN samples : IsClean(samples[k])
============================================================================
