--------------------------- MODULE BazaarProofs ---------------------------
(***************************************************************************)
(* What holds of a batch of any length, whatever the service answers and   *)
(* however the runs of androidzip end.                                     *)
(***************************************************************************)
EXTENDS BazaarScan, FiniteSetTheorems, WellFoundedInduction, TLAPS

\* A set of numbers from 1 to n that is not empty has a least one: of the initial parts
\* of the set that its members end, one has no other inside it.
LEMMA LeastExists ==
    ASSUME NEW n \in Nat, NEW A, A \subseteq 1..n, A # {}
    PROVE  \E k \in A : \A j \in A : k <= j
<1> DEFINE upTo(i) == {j \in A : j <= i}
           parts == {upTo(i) : i \in A}
<1>1. IsWellFoundedOn(StrictSubsetOrdering(A), FiniteSubsetsOf(A))
  BY FS_StrictSubsetOrderingWellFounded, Zenon
<1>2. IsFiniteSet(A)
  <2>1. IsFiniteSet(1..n)
    BY FS_Interval
  <2> QED BY <2>1, FS_Subset
<1>3. \A i \in A : upTo(i) \subseteq A /\ IsFiniteSet(upTo(i))
  BY <1>2, FS_Subset
<1>4. parts \subseteq FiniteSubsetsOf(A) /\ parts # {}
  BY <1>3 DEF FiniteSubsetsOf
<1>5. PICK x \in parts : \A y \in parts : <<y, x>> \notin StrictSubsetOrdering(A)
  <2> HIDE DEF parts
  <2> QED BY <1>1, <1>4, WFMin
<1>6. PICK k \in A : x = upTo(k)
  BY <1>5
<1>7. \A j \in A : k <= j
  <2> SUFFICES ASSUME NEW j \in A, ~(k <= j) PROVE FALSE
    OBVIOUS
  <2>0. j \in Int /\ k \in Int /\ j < k
    OBVIOUS
  <2>1. /\ upTo(j) \subseteq upTo(k)
        /\ k \in upTo(k)
        /\ k \notin upTo(j)
    <3>1. A \subseteq Int
      OBVIOUS
    <3>2. \A i \in A : i <= j => i <= k
      BY <2>0, <3>1
    <3>3. k <= k /\ ~(k <= j)
      BY <2>0
    <3> QED BY <3>2, <3>3, Zenon
  <2>2. upTo(j) # upTo(k) /\ upTo(j) \in SUBSET A /\ upTo(k) \in SUBSET A
    BY <2>1
  <2>3. <<upTo(j), upTo(k)>> \in StrictSubsetOrdering(A)
    <3> HIDE DEF upTo
    <3> QED BY <2>1, <2>2, Zenon DEF StrictSubsetOrdering
  <2> QED BY <2>3, <1>5, <1>6
<1> QED BY <1>7

\* The first APK, or the first member, is a member.
LEMMA TargetIsMember ==
    ASSUME NEW ms \in Seq(Name), ms # << >>
    PROVE  /\ Target(ms) \in Name
           /\ \E k \in DOMAIN ms :
                 /\ Target(ms) = ms[k]
                 /\ \A j \in 1..(k - 1) : ms[j] \notin Apk
                 /\ Target(ms) \in Apk \/ (k = 1 /\ Apks(ms) = {})
<1>1. DOMAIN ms = 1..Len(ms) /\ Len(ms) \in Nat /\ 1 \in DOMAIN ms
  OBVIOUS
<1>2. CASE Apks(ms) = {}
  <2>1. Target(ms) = ms[1]
    BY <1>2 DEF Target
  <2>2. \A j \in 1..0 : ms[j] \notin Apk
    OBVIOUS
  <2> QED BY <1>1, <1>2, <2>1, <2>2
<1>3. CASE Apks(ms) # {}
  <2>1. Apks(ms) \subseteq 1..Len(ms) /\ Apks(ms) # {}
    BY <1>1, <1>3 DEF Apks
  <2>2. \E k \in Apks(ms) : \A j \in Apks(ms) : k <= j
    BY <1>1, <2>1, LeastExists
  <2>3. PICK k \in Apks(ms) :
           /\ \A j \in Apks(ms) : k <= j
           /\ Target(ms) = ms[k]
    BY <2>2, <1>3 DEF Target
  <2>4. k \in 1..Len(ms) /\ ms[k] \in Apk
    BY <2>1, <1>1, <2>3 DEF Apks
  <2>5. \A j \in 1..(k - 1) : ms[j] \notin Apk
    BY <2>3, <2>4, <1>1 DEF Apks
  <2> QED BY <1>1, <2>3, <2>4, <2>5
<1> QED BY <1>2, <1>3

----------------------------------------------------------------------------
(* The steps and what they keep                                            *)

\* What the script knows of the current sample at each step of its loop.
StepInv ==
    /\ at \in {"extract", "scan", "count"} =>
          cur \in DOMAIN samples /\ samples[cur].hashed
    /\ at = "extract" => tmpdir = Empty /\ samples[cur].body \in {"broken", "zip"}
    /\ at = "scan" => Unpacks(samples[cur]) /\ tmpdir = Target(samples[cur].members)
    /\ at = "count" => /\ Unpacks(samples[cur])
                      /\ rc = ExitStatus(EndOf(samples[cur]))
    /\ at \notin {"extract", "scan"} /\ exitCode # Terminated => tmpdir = None
    /\ at # "done" => exitCode = -1

\* A sample of a batch, and what it holds.
LEMMA SampleTypes ==
    ASSUME TypeOK, NEW k \in DOMAIN samples
    PROVE  /\ k \in 1..Len(samples) /\ Len(samples) \in Nat
           /\ samples[k] \in Sample
           /\ samples[k].members \in Seq(Name)
           /\ samples[k].body \in Body
           /\ Unpacks(samples[k]) => /\ Target(samples[k].members) \in Name
                                    /\ EndOf(samples[k]) \in ProgramEnds
<1>1. k \in 1..Len(samples) /\ Len(samples) \in Nat /\ samples[k] \in Sample
  BY DEF TypeOK
<1>2. /\ samples[k].members \in Seq(Name)
      /\ samples[k].body \in Body
      /\ samples[k].ends \in [Name -> ProgramEnds]
  BY <1>1 DEF Sample
<1>3. Unpacks(samples[k]) => Target(samples[k].members) \in Name
  BY <1>2, TargetIsMember DEF Unpacks
<1> QED BY <1>1, <1>2, <1>3 DEF EndOf

\* The exit codes of androidzip, and -9.
LEMMA StatusType ==
    ASSUME NEW end \in ProgramEnds
    PROVE  /\ ExitStatus(end) \in {0, 1, 2, Killed}
           /\ ExitStatus(end) = 2 <=> end \in {"malformed", "garbled", "crashed"}
           /\ ExitStatus(end) \in {1, Killed} <=> end \in {"refused", "killed"}
           /\ ExitStatus(end) = Killed <=> end = "killed"
BY DEF ProgramEnds, ExitStatus, Killed

\* Every step but the answers of the loop leaves the setup and the samples alone.
LEMMA InputsKept ==
    ASSUME [Next]_vars
    PROVE  setup' = setup /\ samples' = samples
BY DEF vars, Next, OwnStep, Answered, LoadKey, KeyUnreadable, CheckBinary, NoBinary, Query,
       QueryFails, NoSamples, NoHash, DownloadFails, Download, ExtractFails, NothingInside,
       Extract, ExecFails, DecodeFails, Scan, Count, Summary, Interrupt, Terminate, Done, GoTo,
       Exit, Skip

\* TypeCorrect: each variable holds what TypeOK says, and the script knows of the current
\* sample what StepInv says.
THEOREM TypeCorrect == Spec => [](TypeOK /\ StepInv)
<1>1. Init => TypeOK /\ StepInv
  <2> SUFFICES ASSUME Init PROVE TypeOK /\ StepInv
    OBVIOUS
  <2>1. samples \in Seq(Sample) /\ setup \in Setup /\ Len(samples) \in Nat
    BY SamplesAssumption, SetupsAssumption DEF Init
  <2>2. TypeOK
    BY <2>1 DEF Init, TypeOK
  <2> QED BY <2>2 DEF Init, StepInv
<1>2. TypeOK /\ StepInv /\ [Next]_vars => (TypeOK /\ StepInv)'
  <2> SUFFICES ASSUME TypeOK, StepInv, [Next]_vars PROVE TypeOK' /\ StepInv'
    OBVIOUS
  <2>0. setup' = setup /\ samples' = samples
    BY InputsKept
  <2>1. ASSUME NEW code \in {0, 1, 2, Interrupted}, Exit(code)
        PROVE  TypeOK' /\ StepInv'
    BY <2>1 DEF Exit, TypeOK, StepInv, counters, Interrupted, Terminated
  <2>2. ASSUME NEW step \in {"binary", "query", "loop"}, GoTo(step),
               at \in {"config", "binary", "query"}
        PROVE  TypeOK' /\ StepInv'
    BY <2>2 DEF GoTo, TypeOK, StepInv, counters
  <2>3. ASSUME Skip, cur \in DOMAIN samples, at \in {"loop", "extract"}
        PROVE  TypeOK' /\ StepInv'
    <3>1. cur + 1 \in 1..(Len(samples) + 1) /\ errors + 1 \in Nat
      BY <2>3, SampleTypes DEF TypeOK
    <3>2. exitCode = -1
      BY <2>3 DEF StepInv
    <3> QED BY <2>3, <3>1, <3>2 DEF Skip, TypeOK, StepInv
  <2>4. at = "loop" /\ cur <= Len(samples) => cur \in DOMAIN samples
    BY DEF TypeOK
  <2>5. CASE LoadKey \/ CheckBinary \/ Query
    BY <2>5, <2>2 DEF LoadKey, CheckBinary, Query
  <2>6. CASE KeyUnreadable \/ NoBinary \/ QueryFails \/ NoSamples \/ NoHash \/ ExecFails
             \/ DecodeFails \/ Interrupt
    BY <2>6, <2>1 DEF KeyUnreadable, NoBinary, QueryFails, NoSamples, NoHash, ExecFails,
       DecodeFails, Interrupt
  <2>7. CASE Summary
    BY <2>7, <2>1 DEF Summary
  <2>8. CASE DownloadFails
    BY <2>8, <2>3, <2>4 DEF DownloadFails
  <2>9. CASE ExtractFails \/ NothingInside
    BY <2>9, <2>3 DEF ExtractFails, NothingInside, StepInv
  <2>10. CASE Download
    BY <2>10, <2>4 DEF Download, TypeOK, StepInv, Current, counters
  <2>11. CASE Extract
    <3>1. cur \in DOMAIN samples /\ samples[cur].hashed /\ exitCode = -1
      BY <2>11 DEF Extract, StepInv
    <3>2. Unpacks(samples[cur]) /\ Target(samples[cur].members) \in Name
      BY <2>11, <3>1, SampleTypes DEF Extract, Unpacks, Current
    <3>3. /\ at' = "scan" /\ tmpdir' = Target(samples[cur].members)
          /\ UNCHANGED <<cur, rc, printed, malformed, errors, exitCode>>
      BY <2>11 DEF Extract, Current, counters
    <3>4. TypeOK'
      BY <2>0, <3>2, <3>3 DEF TypeOK
    <3>5. Unpacks(samples[cur])'
      BY <2>0, <3>2, <3>3 DEF Unpacks
    <3> QED BY <2>0, <3>1, <3>3, <3>4, <3>5 DEF StepInv
  <2>12. CASE Scan
    <3>1. cur \in DOMAIN samples /\ samples[cur].hashed /\ exitCode = -1
      BY <2>12 DEF Scan, StepInv
    <3>2. Unpacks(samples[cur]) /\ Current.ends[tmpdir] = EndOf(samples[cur])
      BY <2>12 DEF Scan, StepInv, Current, EndOf
    <3>3. rc' = ExitStatus(EndOf(samples[cur])) /\ rc' \in {0, 1, 2, Killed}
      BY <2>12, <3>1, <3>2, SampleTypes, StatusType DEF Scan
    <3>4. /\ at' = "count" /\ tmpdir' = None
          /\ UNCHANGED <<cur, printed, malformed, errors, exitCode>>
      BY <2>12 DEF Scan, counters
    <3>5. TypeOK'
      BY <2>0, <3>3, <3>4 DEF TypeOK
    <3>6. Unpacks(samples[cur])' /\ rc' = ExitStatus(EndOf(samples[cur]))'
      BY <2>0, <3>2, <3>3, <3>4 DEF Unpacks, EndOf
    <3> QED BY <2>0, <3>1, <3>4, <3>5, <3>6 DEF StepInv
  <2>13. CASE Count
    <3>1. cur \in DOMAIN samples /\ exitCode = -1 /\ tmpdir = None
      BY <2>13 DEF Count, StepInv, Terminated
    <3>2. cur \in 1..Len(samples) /\ cur + 1 \in 1..(Len(samples) + 1)
      BY <3>1, SampleTypes
    <3>3. malformed' \in Nat /\ errors' \in Nat
      BY <2>13 DEF Count, CountScan, TypeOK
    <3>4. printed' \in Seq(1..Len(samples))
      <4> DEFINE S == 1..Len(samples)
      <4>1. printed \in Seq(S) /\ cur \in S
        BY <3>2 DEF TypeOK
      <4>2. printed' = printed \/ printed' = Append(printed, cur)
        BY <2>13 DEF Count
      <4> HIDE DEF S
      <4>3. printed' \in Seq(S)
        BY <4>1, <4>2
      <4> QED BY <4>3 DEF S
    <3>5. at' = "loop" /\ cur' = cur + 1 /\ UNCHANGED <<tmpdir, rc, exitCode>>
      BY <2>13 DEF Count
    <3>6. TypeOK'
      BY <2>0, <3>2, <3>3, <3>4, <3>5 DEF TypeOK
    <3> QED BY <3>1, <3>5, <3>6 DEF StepInv
  <2>14. CASE UNCHANGED vars
    BY <2>14 DEF vars, counters, TypeOK, StepInv, Unpacks, EndOf
  <2>15. CASE Terminate
    BY <2>0, <2>15 DEF Terminate, TypeOK, StepInv, counters
  <2> QED BY <2>5, <2>6, <2>7, <2>8, <2>9, <2>10, <2>11, <2>12, <2>13, <2>14, <2>15
          DEF Next, OwnStep, Answered, Done
<1> QED BY <1>1, <1>2, PTL DEF Spec

----------------------------------------------------------------------------
(* The counters                                                            *)

MalformedBefore(c) == {k \in 1..(c - 1) : ExitsTwo(samples[k])}

SkippedBefore(c) == {k \in 1..(c - 1) : IsSkipped(samples[k])}

\* One sample more: the set before it grows by that sample, if it belongs there.
LEMMA OneMoreSample ==
    ASSUME NEW c \in Nat \ {0}
    PROVE  /\ IsFiniteSet(MalformedBefore(c)) /\ IsFiniteSet(SkippedBefore(c))
           /\ Cardinality(MalformedBefore(c + 1)) =
                 Cardinality(MalformedBefore(c)) + (IF ExitsTwo(samples[c]) THEN 1 ELSE 0)
           /\ Cardinality(SkippedBefore(c + 1)) =
                 Cardinality(SkippedBefore(c)) + (IF IsSkipped(samples[c]) THEN 1 ELSE 0)
<1>1. IsFiniteSet(1..(c - 1))
  BY FS_Interval
<1>2. MalformedBefore(c) \subseteq 1..(c - 1) /\ SkippedBefore(c) \subseteq 1..(c - 1)
  BY DEF MalformedBefore, SkippedBefore
<1>3. IsFiniteSet(MalformedBefore(c)) /\ IsFiniteSet(SkippedBefore(c))
  BY <1>1, <1>2, FS_Subset
<1>4. c \notin MalformedBefore(c) /\ c \notin SkippedBefore(c)
  BY <1>2
<1>5. 1..((c + 1) - 1) = (1..(c - 1)) \cup {c}
  OBVIOUS
<1>6. MalformedBefore(c + 1) =
         IF ExitsTwo(samples[c]) THEN MalformedBefore(c) \cup {c} ELSE MalformedBefore(c)
  BY <1>5, Zenon DEF MalformedBefore
<1>7. SkippedBefore(c + 1) =
         IF IsSkipped(samples[c]) THEN SkippedBefore(c) \cup {c} ELSE SkippedBefore(c)
  BY <1>5, Zenon DEF SkippedBefore
<1>8. /\ Cardinality(MalformedBefore(c)) \in Nat /\ Cardinality(SkippedBefore(c)) \in Nat
  BY <1>3, FS_CardinalityType
<1>9. /\ Cardinality(MalformedBefore(c) \cup {c}) = Cardinality(MalformedBefore(c)) + 1
      /\ Cardinality(SkippedBefore(c) \cup {c}) = Cardinality(SkippedBefore(c)) + 1
  BY <1>3, <1>4, FS_AddElement
<1> QED BY <1>3, <1>6, <1>7, <1>8, <1>9

\* A skipped sample is not a malformed one, and the return code tells which it is.
LEMMA SampleJudged ==
    ASSUME TypeOK, StepInv
    PROVE  /\ DownloadFails \/ ExtractFails \/ NothingInside =>
                 /\ cur \in DOMAIN samples
                 /\ ~Unpacks(samples[cur])
           /\ at = "count" =>
                 /\ cur \in DOMAIN samples
                 /\ Unpacks(samples[cur])
                 /\ ExitsTwo(samples[cur]) <=> rc = 2
                 /\ IsSkipped(samples[cur]) <=> rc \in {1, Killed}
                 /\ EndOf(samples[cur]) = "killed" <=> rc = Killed
<1>1. DownloadFails => cur \in DOMAIN samples /\ ~Unpacks(samples[cur])
  BY DEF DownloadFails, TypeOK, Unpacks, Current
<1>2. ExtractFails \/ NothingInside => cur \in DOMAIN samples /\ ~Unpacks(samples[cur])
  BY DEF ExtractFails, NothingInside, StepInv, Unpacks, Current
<1>3. ASSUME at = "count"
      PROVE  /\ cur \in DOMAIN samples
             /\ Unpacks(samples[cur])
             /\ ExitsTwo(samples[cur]) <=> rc = 2
             /\ IsSkipped(samples[cur]) <=> rc \in {1, Killed}
             /\ EndOf(samples[cur]) = "killed" <=> rc = Killed
  <2>1. cur \in DOMAIN samples /\ Unpacks(samples[cur]) /\ rc = ExitStatus(EndOf(samples[cur]))
    BY <1>3 DEF StepInv
  <2>2. EndOf(samples[cur]) \in ProgramEnds
    BY <2>1, SampleTypes
  <2> QED BY <2>1, <2>2, StatusType DEF ExitsTwo, IsSkipped
<1> QED BY <1>1, <1>2, <1>3

\* AccountedHolds: at every moment of every batch, each sample behind the cursor is in the
\* one counter that its own download, contents and scan put it in.
THEOREM AccountedHolds == Spec => []Accounted
<1>1. Init => Accounted
  <2> SUFFICES ASSUME Init PROVE Accounted
    OBVIOUS
  <2>1. cur = 1 /\ malformed = 0 /\ errors = 0
    BY DEF Init
  <2>2. 1..(cur - 1) = {}
    BY <2>1
  <2> QED BY <2>1, <2>2, FS_EmptySet DEF Accounted
<1>2. TypeOK /\ StepInv /\ Accounted /\ [Next]_vars => Accounted'
  <2> SUFFICES ASSUME TypeOK, StepInv, Accounted, [Next]_vars PROVE Accounted'
    OBVIOUS
  <2>0. setup' = setup /\ samples' = samples
    BY InputsKept
  <2>1. Accounted' <=> /\ malformed' = Cardinality(MalformedBefore(cur'))
                       /\ errors' = Cardinality(SkippedBefore(cur'))
    BY <2>0 DEF Accounted, MalformedBefore, SkippedBefore, ExitsTwo, IsSkipped, Unpacks, EndOf
  <2>2. /\ malformed = Cardinality(MalformedBefore(cur))
        /\ errors = Cardinality(SkippedBefore(cur))
    BY DEF Accounted, MalformedBefore, SkippedBefore
  <2>3. cur \in Nat \ {0} /\ malformed \in Nat /\ errors \in Nat
    BY DEF TypeOK
  <2>4. CASE DownloadFails \/ ExtractFails \/ NothingInside
    <3>1. ~ExitsTwo(samples[cur]) /\ IsSkipped(samples[cur])
      BY <2>4, SampleJudged DEF ExitsTwo, IsSkipped
    <3>2. malformed' = malformed /\ errors' = errors + 1 /\ cur' = cur + 1
      BY <2>4 DEF DownloadFails, ExtractFails, NothingInside, Skip
    <3> QED BY <2>1, <2>2, <2>3, <3>1, <3>2, OneMoreSample
  <2>5. CASE Count
    <3>1. at = "count" /\ cur' = cur + 1
      BY <2>5 DEF Count
    <3>2. /\ malformed' = malformed + (IF ExitsTwo(samples[cur]) THEN 1 ELSE 0)
          /\ errors' = errors + (IF IsSkipped(samples[cur]) THEN 1 ELSE 0)
      <4>1. rc \in {1, Killed} <=> rc \notin {0, 2}
        BY DEF TypeOK, Killed
      <4>2. /\ malformed' = IF rc = 2 THEN malformed + 1 ELSE malformed
            /\ errors' = IF rc \notin {0, 2} THEN errors + 1 ELSE errors
        BY <2>5 DEF Count, CountScan
      <4> QED BY <2>3, <3>1, <4>1, <4>2, SampleJudged
    <3> QED BY <2>1, <2>2, <2>3, <3>1, <3>2, OneMoreSample
  <2>6. CASE /\ ~(DownloadFails \/ ExtractFails \/ NothingInside \/ Count)
             /\ Next
    <3>1. UNCHANGED <<malformed, errors, cur>>
      BY <2>6 DEF Next, OwnStep, Answered, LoadKey, KeyUnreadable, CheckBinary, NoBinary, Query,
          QueryFails, NoSamples, NoHash, Download, Extract, ExecFails, DecodeFails, Scan,
          Summary, Interrupt, Terminate, Done, GoTo, Exit, vars, counters
    <3> QED BY <2>1, <2>2, <3>1
  <2>7. CASE UNCHANGED vars
    BY <2>1, <2>2, <2>7 DEF vars, counters
  <2> QED BY <2>4, <2>5, <2>6, <2>7
<1> QED BY <1>1, <1>2, TypeCorrect, PTL DEF Spec

----------------------------------------------------------------------------
(* The exit code, the disk and the output                                  *)

\* ExitToldHolds: in batches of any length, 0 and 2 tell whether androidzip ended with 2 on
\* a sample, whatever was skipped or crashed, 0 with nothing skipped tells that all are
\* clean, and 1 has a cause that no handler covers.
THEOREM ExitToldHolds == Spec => []ExitTold
<1>1. Init => ExitTold
  BY DEF Init, ExitTold
<1>2. TypeOK /\ StepInv /\ Accounted /\ ExitTold /\ [Next]_vars => ExitTold'
  <2> SUFFICES ASSUME TypeOK, StepInv, Accounted, ExitTold, [Next]_vars PROVE ExitTold'
    OBVIOUS
  <2>0. setup' = setup /\ samples' = samples
    BY InputsKept
  <2>1. ASSUME exitCode' \notin {0, 1, 2} PROVE ExitTold'
    BY <2>1 DEF ExitTold
  <2>2. CASE UNCHANGED <<cur, errors, exitCode>>
    BY <2>0, <2>2 DEF ExitTold, ExitsTwo, IsClean, Unpacks, EndOf, Aborts, BinaryRuns,
       BinaryFound, Decodes
  <2>3. CASE NoSamples
    BY <2>0, <2>3 DEF NoSamples, Exit, ExitTold, TypeOK
  <2>4. CASE KeyUnreadable \/ QueryFails \/ NoBinary
    BY <2>0, <2>4 DEF KeyUnreadable, QueryFails, NoBinary, Exit, ExitTold, BinaryFound
  <2>5. CASE NoHash \/ ExecFails \/ DecodeFails
    <3>1. cur \in DOMAIN samples /\ Aborts(samples[cur])
      <4>1. CASE NoHash
        BY <4>1 DEF NoHash, TypeOK, Aborts, Current
      <4>2. CASE ExecFails \/ DecodeFails
        BY <4>2 DEF ExecFails, DecodeFails, StepInv, Aborts, Current, EndOf
      <4> QED BY <2>5, <4>1, <4>2
    <3>2. cur' = cur /\ exitCode' = 1
      BY <2>5 DEF NoHash, ExecFails, DecodeFails, Exit
    <3>3. Aborts(samples[cur])'
      BY <2>0, <3>1, <3>2 DEF Aborts, Unpacks, EndOf, BinaryRuns, Decodes
    <3> QED BY <2>0, <3>1, <3>2, <3>3 DEF ExitTold
  <2>6. CASE Summary
    <3>1. /\ cur = Len(samples) + 1 /\ Len(samples) \in Nat
          /\ cur' = cur /\ errors' = errors
          /\ exitCode' = IF malformed = 0 THEN 0 ELSE 2
      BY <2>6 DEF Summary, Exit, TypeOK, counters
    <3>2. /\ MalformedBefore(cur) = {k \in DOMAIN samples : ExitsTwo(samples[k])}
          /\ SkippedBefore(cur) = {k \in DOMAIN samples : IsSkipped(samples[k])}
      BY <3>1 DEF MalformedBefore, SkippedBefore, TypeOK
    <3>3. /\ malformed = Cardinality(MalformedBefore(cur)) /\ IsFiniteSet(MalformedBefore(cur))
          /\ errors = Cardinality(SkippedBefore(cur)) /\ IsFiniteSet(SkippedBefore(cur))
      <4>1. /\ malformed = Cardinality(MalformedBefore(cur))
            /\ errors = Cardinality(SkippedBefore(cur))
        BY DEF Accounted, MalformedBefore, SkippedBefore
      <4>2. cur \in Nat \ {0}
        BY <3>1
      <4> QED BY <4>1, <4>2, OneMoreSample
    <3>4. /\ malformed = 0 <=> \A k \in DOMAIN samples : ~ExitsTwo(samples[k])
          /\ errors = 0 <=> \A k \in DOMAIN samples : ~IsSkipped(samples[k])
      <4>1. /\ malformed = 0 <=> MalformedBefore(cur) = {}
            /\ errors = 0 <=> SkippedBefore(cur) = {}
        BY <3>3, FS_EmptySet
      <4> QED BY <3>2, <4>1
    <3>5. \A k \in DOMAIN samples :
             IsClean(samples[k]) <=> ~ExitsTwo(samples[k]) /\ ~IsSkipped(samples[k])
      <4> SUFFICES ASSUME NEW k \in DOMAIN samples
                   PROVE  IsClean(samples[k])
                            <=> ~ExitsTwo(samples[k]) /\ ~IsSkipped(samples[k])
        OBVIOUS
      <4>1. Unpacks(samples[k]) => EndOf(samples[k]) \in ProgramEnds
        BY SampleTypes
      <4> QED BY <4>1 DEF ExitsTwo, IsSkipped, IsClean, ProgramEnds
    <3>6. ExitTold' <=>
             /\ exitCode' \in {0, 2} => cur' > Len(samples)
             /\ exitCode' = 0 =>
                   /\ \A k \in DOMAIN samples : ~ExitsTwo(samples[k])
                   /\ errors' = 0 => \A k \in DOMAIN samples : IsClean(samples[k])
             /\ exitCode' = 2 => \E k \in DOMAIN samples : ExitsTwo(samples[k])
      <4>1. exitCode' # 1
        BY <3>1
      <4> QED BY <2>0, <4>1 DEF ExitTold, ExitsTwo, IsClean, Unpacks, EndOf
    <3>7. CASE malformed = 0
      BY <3>1, <3>4, <3>5, <3>6, <3>7
    <3>8. CASE malformed # 0
      BY <3>1, <3>4, <3>6, <3>8
    <3> QED BY <3>7, <3>8
  <2>7. CASE Interrupt \/ Terminate
    BY <2>7, <2>1 DEF Interrupt, Terminate, Exit, Interrupted, Terminated
  <2>8. CASE DownloadFails \/ ExtractFails \/ NothingInside \/ Count
    <3>1. exitCode' = -1
      BY <2>8 DEF DownloadFails, ExtractFails, NothingInside, Skip, Count, StepInv
    <3> QED BY <3>1, <2>1
  <2>9. CASE LoadKey \/ CheckBinary \/ Query \/ Download \/ Extract \/ Scan \/ Done
             \/ UNCHANGED vars
    BY <2>9, <2>2 DEF LoadKey, CheckBinary, Query, Download, Extract, Scan, Done, GoTo, vars,
       counters
  <2> QED BY <2>3, <2>4, <2>5, <2>6, <2>7, <2>8, <2>9 DEF Next, OwnStep, Answered
<1> QED BY <1>1, <1>2, TypeCorrect, AccountedHolds, PTL DEF Spec

\* SampleContainedHolds: no end of the script but by a signal without a handler leaves a
\* sample on the disk, and what is scanned is the sample's first APK, or its first member.
THEOREM SampleContainedHolds == Spec => []SampleContained
<1>1. TypeOK /\ StepInv => SampleContained
  <2> SUFFICES ASSUME TypeOK, StepInv PROVE SampleContained
    OBVIOUS
  <2>1. tmpdir # None => at \in {"extract", "scan"} \/ exitCode = Terminated
    BY DEF StepInv
  <2>2. ASSUME at = "scan"
        PROVE  \E k \in DOMAIN samples[cur].members :
                  /\ tmpdir = samples[cur].members[k]
                  /\ \A j \in 1..(k - 1) : samples[cur].members[j] \notin Apk
                  /\ tmpdir \in Apk \/ (k = 1 /\ Apks(samples[cur].members) = {})
    <3>1. cur \in DOMAIN samples /\ Unpacks(samples[cur])
          /\ tmpdir = Target(samples[cur].members)
      BY <2>2 DEF StepInv
    <3>2. samples[cur].members \in Seq(Name) /\ samples[cur].members # << >>
      BY <3>1, SampleTypes DEF Unpacks
    <3> QED BY <3>1, <3>2, TargetIsMember
  <2> QED BY <2>1, <2>2 DEF SampleContained
<1> QED BY <1>1, TypeCorrect, PTL

\* ReportsKeptHolds: the reports of the samples behind the cursor, in their order.
THEOREM ReportsKeptHolds == Spec => []ReportsKept
<1> DEFINE Told(c) == {k \in 1..(c - 1) : Unpacks(samples[k]) /\ EndOf(samples[k]) # "killed"}
<1>1. Init => ReportsKept
  <2> SUFFICES ASSUME Init PROVE ReportsKept
    OBVIOUS
  <2>1. cur = 1 /\ printed = << >> /\ DOMAIN printed = {} /\ 1..(cur - 1) = {}
    BY DEF Init
  <2> QED BY <2>1 DEF ReportsKept
<1>2. TypeOK /\ StepInv /\ ReportsKept /\ [Next]_vars => ReportsKept'
  <2> SUFFICES ASSUME TypeOK, StepInv, ReportsKept, [Next]_vars PROVE ReportsKept'
    OBVIOUS
  <2>0. setup' = setup /\ samples' = samples
    BY InputsKept
  <2>1. /\ \A j, k \in DOMAIN printed : j < k => printed[j] < printed[k]
        /\ {printed[j] : j \in DOMAIN printed} = Told(cur)
    BY DEF ReportsKept
  <2>2. ReportsKept' <=>
           /\ \A j, k \in DOMAIN printed' : j < k => printed'[j] < printed'[k]
           /\ {printed'[j] : j \in DOMAIN printed'} = Told(cur')
    BY <2>0 DEF ReportsKept, Unpacks, EndOf
  <2>3. cur \in Nat \ {0} /\ 1..((cur + 1) - 1) = (1..(cur - 1)) \cup {cur}
    BY DEF TypeOK
  <2>4. Told(cur + 1) = IF Unpacks(samples[cur]) /\ EndOf(samples[cur]) # "killed"
                        THEN Told(cur) \cup {cur} ELSE Told(cur)
    BY <2>3, Zenon
  <2>5. CASE DownloadFails \/ ExtractFails \/ NothingInside
    <3>1. ~Unpacks(samples[cur]) /\ printed' = printed /\ cur' = cur + 1
      BY <2>5, SampleJudged DEF DownloadFails, ExtractFails, NothingInside, Skip
    <3> QED BY <2>1, <2>2, <2>4, <3>1
  <2>6. CASE Count /\ rc = Killed
    <3>1. EndOf(samples[cur]) = "killed" /\ printed' = printed /\ cur' = cur + 1
      BY <2>6, SampleJudged DEF Count
    <3> QED BY <2>1, <2>2, <2>4, <3>1
  <2>7. CASE Count /\ rc # Killed
    <3>1. /\ Unpacks(samples[cur]) /\ EndOf(samples[cur]) # "killed"
          /\ printed' = Append(printed, cur) /\ cur' = cur + 1
      BY <2>7, SampleJudged DEF Count
    <3>2. Told(cur') = Told(cur) \cup {cur}
      BY <2>4, <3>1
    <3>3. printed \in Seq(Nat) /\ Len(printed) \in Nat /\ DOMAIN printed = 1..Len(printed)
      BY DEF TypeOK
    <3>4. /\ DOMAIN printed' = 1..(Len(printed) + 1)
          /\ \A j \in DOMAIN printed : printed'[j] = printed[j]
          /\ printed'[Len(printed) + 1] = cur
      BY <2>3, <3>1, <3>3
    <3>5. \A j \in DOMAIN printed : printed[j] \in Nat /\ printed[j] < cur
      <4>1. \A j \in DOMAIN printed : printed[j] \in 1..(cur - 1)
        BY <2>1
      <4> QED BY <2>3, <4>1
    <3>6. \A j, k \in DOMAIN printed' : j < k => printed'[j] < printed'[k]
      BY <2>1, <3>3, <3>4, <3>5
    <3>7. DOMAIN printed' = DOMAIN printed \cup {Len(printed) + 1}
      BY <3>3, <3>4
    <3>8. {printed'[j] : j \in DOMAIN printed'} = {printed[j] : j \in DOMAIN printed} \cup {cur}
      BY <3>4, <3>7, Zenon
    <3> QED BY <2>1, <2>2, <3>2, <3>6, <3>8
  <2>8. CASE UNCHANGED <<printed, cur>>
    BY <2>1, <2>2, <2>8
  <2>9. CASE Next /\ ~(DownloadFails \/ ExtractFails \/ NothingInside \/ Count)
    BY <2>9, <2>8 DEF Next, OwnStep, Answered, LoadKey, KeyUnreadable, CheckBinary, NoBinary,
       Query, QueryFails, NoSamples, NoHash, Download, Extract, ExecFails, DecodeFails, Scan,
       Summary, Interrupt, Terminate, Done, GoTo, Exit, vars
  <2> QED BY <2>5, <2>6, <2>7, <2>8, <2>9 DEF vars
<1> QED BY <1>1, <1>2, TypeCorrect, PTL DEF Spec
============================================================================
