------------------------- MODULE OpenReaderProofs -------------------------
(***************************************************************************)
(* Proofs about OpenReader: its type invariant first, then the invariants  *)
(* of the passes, for every file and every width of the numbers.           *)
(***************************************************************************)
EXTENDS OpenReader, SequenceTheorems, WellFoundedInduction, TLAPS

\* A non-empty set of naturals has a least element.
LEMMA LeastExists ==
    ASSUME NEW T, T \subseteq Nat, T # {}
    PROVE  \E m \in T : \A k \in T : m <= k
<1> DEFINE R == {ss \in Nat \X Nat : ss[1] < ss[2]}
<1>1. IsWellFoundedOn(R, Nat)
    BY NatLessThanWellFounded, Zenon DEF OpToRel
<1>2. \A x, y \in Nat : y < x => <<y, x>> \in R
    OBVIOUS
<1> HIDE DEF R
<1>3. PICK x \in T : \A y \in T : ~ (<<y, x>> \in R)
    BY <1>1, WFMin
<1>4. \A k \in T : ~(k < x)
    BY <1>2, <1>3
<1> QED
    BY <1>4

\* A flag is a sequence of at most its one kind.
LEMMA FlagType ==
    ASSUME NEW S, NEW k \in S, NEW c
    PROVE  Flag(c, k) \in Seq(S)
BY DEF Flag

LEMMA ConcatType ==
    ASSUME NEW S, NEW s \in Seq(S), NEW t \in Seq(S)
    PROVE  s \o t \in Seq(S)
BY ConcatProperties

\* A sequence of kinds of H reports nothing outside H.
LEMMA NoReport ==
    ASSUME NEW H, NEW s \in Seq(H), NEW K, H \cap K = {}
    PROVE  ~Reports(s, K)
BY ElementOfSeq, LenProperties DEF Reports

LEMMA ReportsConcat ==
    ASSUME NEW S, NEW s \in Seq(S), NEW t \in Seq(S), NEW K
    PROVE  Reports(s \o t, K) <=> Reports(s, K) \/ Reports(t, K)
<1>1. /\ Len(s) \in Nat /\ DOMAIN s = 1..Len(s)
      /\ Len(t) \in Nat /\ DOMAIN t = 1..Len(t)
      /\ DOMAIN (s \o t) = 1..(Len(s) + Len(t))
      /\ \A i \in 1..(Len(s) + Len(t)) :
            (s \o t)[i] = IF i <= Len(s) THEN s[i] ELSE t[i - Len(s)]
    BY ConcatProperties, LenProperties
<1>2. ASSUME NEW k \in DOMAIN s, s[k] \in K PROVE Reports(s \o t, K)
    <2>1. k \in DOMAIN (s \o t) /\ (s \o t)[k] = s[k]
        BY <1>1, <1>2
    <2> QED
        BY <1>2, <2>1 DEF Reports
<1>3. ASSUME NEW k \in DOMAIN t, t[k] \in K PROVE Reports(s \o t, K)
    <2>1. /\ k + Len(s) \in DOMAIN (s \o t)
          /\ ~(k + Len(s) <= Len(s))
          /\ (k + Len(s)) - Len(s) = k
        BY <1>1, <1>3
    <2>2. (s \o t)[k + Len(s)] = t[k]
        BY <1>1, <2>1
    <2> QED
        BY <1>3, <2>1, <2>2 DEF Reports
<1>4. ASSUME NEW k \in DOMAIN (s \o t), (s \o t)[k] \in K
      PROVE  Reports(s, K) \/ Reports(t, K)
    BY <1>1, <1>4 DEF Reports
<1> QED
    BY <1>2, <1>3, <1>4 DEF Reports

LEMMA Int64Type == ASSUME NEW u \in U64 PROVE Int64(u) \in Int
BY WidthAssumption DEF U64, Int64

\* The kinds that reading and comparing a local header can add.
HeaderKind == EntryKind \ {"duplicate_name", "directory_file_conflict"}
DiffKind == HeaderKind \ {"lfh_signature_bad", "lfh_offset_out_of_range"}

LEMMA ZIP64BlockType ==
    ASSUME NEW w \in Seq(U64), NEW u, NEW c, NEW o
    PROVE  parseZIP64Block(w, u, c, o) \in ZIP64ExtraField
<1> DEFINE demand(reg) == IF reg = Sentinel32 THEN 1 ELSE 0
           k1 == demand(u)
           k2 == k1 + demand(c)
           k3 == k2 + demand(o)
           field(reg, k) == IF reg = Sentinel32 /\ k <= Len(w) THEN <<w[k]>> ELSE << >>
<1>1. \A reg, k : k \in Nat /\ (reg = Sentinel32 => k >= 1) => field(reg, k) \in Ptr(U64)
    BY ElementOfSeq, LenProperties DEF Ptr
<1>2. /\ k1 \in Nat /\ k2 \in Nat /\ k3 \in Nat
      /\ u = Sentinel32 => k1 >= 1
      /\ c = Sentinel32 => k2 >= 1
      /\ o = Sentinel32 => k3 >= 1
    OBVIOUS
<1>3. field(u, k1) \in Ptr(U64) /\ field(c, k2) \in Ptr(U64) /\ field(o, k3) \in Ptr(U64)
    <2> HIDE DEF field, k1, k2, k3
    <2> QED BY <1>1, <1>2
<1> QED
    BY <1>3 DEF parseZIP64Block, ZIP64ExtraField

LEMMA ZIP64ExtraType ==
    ASSUME NEW x \in Seq(ExtraBlock), NEW u, NEW c, NEW o
    PROVE  parseZIP64Extra(x, u, c, o) \in Ptr(ZIP64ExtraField)
<1> DEFINE hits == {i \in 1..Len(x) : x[i].zip64 /\ \A j \in 1..i : ~x[j].overrun}
           first == CHOOSE i \in hits : \A j \in hits : i <= j
<1>1. CASE hits = {}
    BY <1>1 DEF parseZIP64Extra, Ptr
<1>2. CASE hits # {}
    <2>1. hits \subseteq Nat
        BY LenProperties
    <2>2. first \in hits
        <3>1. \E m \in hits : \A k \in hits : m <= k
            <4> HIDE DEF hits
            <4> QED BY <1>2, <2>1, LeastExists
        <3> HIDE DEF hits
        <3> QED BY <3>1
    <2>3. x[first].words \in Seq(U64)
        <3>1. first \in 1..Len(x)
            BY <2>2 DEF hits
        <3> HIDE DEF first
        <3>2. x[first] \in ExtraBlock
            BY <3>1, ElementOfSeq
        <3> QED BY <3>2 DEF ExtraBlock
    <2>4. parseZIP64Block(x[first].words, u, c, o) \in ZIP64ExtraField
        BY <2>3, ZIP64BlockType
    <2>5. parseZIP64Extra(x, u, c, o) = <<parseZIP64Block(x[first].words, u, c, o)>>
        BY <1>2 DEF parseZIP64Extra
    <2> QED
        BY <2>4, <2>5 DEF Ptr
<1> QED
    BY <1>1, <1>2

\* readCDRecord builds an entry, with no issue and no local header.
LEMMA NewEntryType ==
    ASSUME NEW rec \in CentralDirectoryRecord
    PROVE  /\ NewEntry(rec) \in Entry
           /\ NewEntry(rec).cd = rec
           /\ NewEntry(rec).issues = << >>
           /\ NewEntry(rec).lfh = << >>
           /\ NewEntry(rec).dataOffset = 0
<1> DEFINE z == parseZIP64Extra(rec.extra, rec.uncomp, rec.comp, rec.lfhOffset)
           off == IF rec.lfhOffset = Sentinel32 /\ z # << >> /\ z[1].lfhOffset # << >>
                  THEN Int64(z[1].lfhOffset[1]) ELSE rec.lfhOffset
<1>1. z \in Ptr(ZIP64ExtraField)
    BY ZIP64ExtraType DEF CentralDirectoryRecord
<1>2. off \in Int
    <2>1. rec.lfhOffset \in Int
        BY WidthAssumption DEF CentralDirectoryRecord, U32
    <2>2. ASSUME z # << >>, z[1].lfhOffset # << >>
          PROVE  z[1].lfhOffset[1] \in U64
        <3>1. z[1] \in ZIP64ExtraField
            BY <1>1, <2>2, ElementOfSeq, EmptySeq DEF Ptr
        <3>2. z[1].lfhOffset \in Seq(U64)
            BY <3>1 DEF ZIP64ExtraField, Ptr
        <3> QED
            BY <3>2, <2>2, ElementOfSeq, EmptySeq
    <2> QED
        BY <2>1, <2>2, Int64Type
<1>3. NewEntry(rec) = [cd |-> rec, zip64 |-> z, lfhOffset |-> off, lfh |-> << >>,
                       dataOffset |-> 0, issues |-> << >>]
    BY DEF NewEntry
<1> HIDE DEF z, off
<1>4. << >> \in Ptr(LocalFileHeader) /\ << >> \in Seq(IssueKind)
    BY DEF Ptr
<1> QED
    BY <1>1, <1>2, <1>3, <1>4 DEF Entry

\* An effective size is the 32-bit field or a 64-bit value.
LEMMA EffectiveSizeType ==
    ASSUME NEW reg \in U32, NEW z \in Ptr(ZIP64ExtraField)
    PROVE  /\ effectiveCompressedSize(reg, z) \in U64
           /\ effectiveUncompressedSize(reg, z) \in U64
<1>1. reg \in U64
    BY WidthAssumption DEF U32, U64
<1>2. ASSUME z # << >> PROVE z[1] \in ZIP64ExtraField
    BY <1>2, ElementOfSeq, EmptySeq DEF Ptr
<1>3. ASSUME NEW p \in Ptr(U64), p # << >> PROVE p[1] \in U64
    BY <1>3, ElementOfSeq, EmptySeq DEF Ptr
<1>4. ASSUME z # << >> PROVE z[1].comp \in Ptr(U64) /\ z[1].uncomp \in Ptr(U64)
    BY <1>2, <1>4 DEF ZIP64ExtraField
<1> QED
    BY <1>1, <1>3, <1>4 DEF effectiveCompressedSize, effectiveUncompressedSize

\* Comparing two headers adds header kinds only.
LEMMA DiffType ==
    ASSUME NEW cd, NEW cz, NEW lfh, NEW lz
    PROVE  diffEntries(cd, cz, lfh, lz) \in Seq(DiffKind)
<1> DEFINE S == DiffKind
<1>1. \A c : /\ Flag(c, "zip64_sentinel_mismatch") \in Seq(S)
             /\ Flag(c, "compressed_size_mismatch") \in Seq(S)
             /\ Flag(c, "uncompressed_size_mismatch") \in Seq(S)
             /\ Flag(c, "encryption_mismatch") \in Seq(S)
             /\ Flag(c, "gpbf_mismatch") \in Seq(S)
             /\ Flag(c, "compression_mismatch") \in Seq(S)
             /\ Flag(c, "unsupported_compression") \in Seq(S)
             /\ Flag(c, "crc32_mismatch") \in Seq(S)
             /\ Flag(c, "name_mismatch") \in Seq(S)
    BY FlagType DEF DiffKind, HeaderKind, EntryKind
<1>2. diffSizes(cd, cz, lfh, lz) \in Seq(S)
    <2> HIDE DEF S
    <2> QED BY <1>1, ConcatType DEF diffSizes
<1> HIDE DEF S
<1>3. (IF "dataDescriptor" \in cd.gpbf THEN << >> ELSE diffSizes(cd, cz, lfh, lz)) \in Seq(S)
    BY <1>2
<1>4. diffEntries(cd, cz, lfh, lz) \in Seq(S)
    BY <1>1, <1>3, ConcatType DEF diffEntries
<1> QED
    BY <1>4 DEF S

\* A local header is attached with the header kinds alone, and its data begins
\* len bytes after it.
LEMMA AttachType ==
    ASSUME NEW e \in Entry, NEW l \in LocalFileHeader, e.lfhOffset >= 0
    PROVE  /\ AttachLFH(e, l) \in Entry
           /\ AttachLFH(e, l).cd = e.cd
           /\ AttachLFH(e, l).zip64 = e.zip64
           /\ AttachLFH(e, l).lfhOffset = e.lfhOffset
           /\ AttachLFH(e, l).lfh = <<l>>
           /\ AttachLFH(e, l).dataOffset = e.lfhOffset + l.len
           /\ \E s \in Seq(HeaderKind) :
                 /\ AttachLFH(e, l).issues = e.issues \o s
                 /\ Reports(s, {"lfh_signature_bad"}) <=> ~l.sigOK
                 /\ ~Reports(s, {"lfh_offset_out_of_range"})
<1> DEFINE d == diffEntries(e.cd, e.zip64, l, LocalZIP64(l))
           b == Flag(~l.sigOK, "lfh_signature_bad")
           s == b \o d
<1>1. d \in Seq(DiffKind)
    BY DiffType
<1>2. d \in Seq(HeaderKind) /\ b \in Seq(HeaderKind)
    <2>1. DiffKind \subseteq HeaderKind /\ "lfh_signature_bad" \in HeaderKind
        BY DEF DiffKind, HeaderKind, EntryKind
    <2>2. d \in Seq(HeaderKind)
        BY <1>1, <2>1, SeqMonotonic
    <2>3. b \in Seq(HeaderKind)
        BY <2>1, FlagType
    <2> QED
        BY <2>2, <2>3
<1>3. /\ Reports(b, {"lfh_signature_bad"}) <=> ~l.sigOK
      /\ ~Reports(b, {"lfh_offset_out_of_range"})
    BY DEF b, Flag, Reports
<1>4. /\ ~Reports(d, {"lfh_signature_bad"})
      /\ ~Reports(d, {"lfh_offset_out_of_range"})
    BY <1>1, NoReport DEF DiffKind
<1> HIDE DEF d, b
<1>5. /\ s \in Seq(HeaderKind)
      /\ Reports(s, {"lfh_signature_bad"}) <=> ~l.sigOK
      /\ ~Reports(s, {"lfh_offset_out_of_range"})
    BY <1>2, <1>3, <1>4, ConcatType, ReportsConcat
<1>6. e.issues \in Seq(IssueKind) /\ b \in Seq(IssueKind) /\ d \in Seq(IssueKind)
    BY <1>2, SeqMonotonic DEF Entry, HeaderKind, IssueKind
<1>7. (e.issues \o b) \o d = e.issues \o s /\ e.issues \o s \in Seq(IssueKind)
    <2>1. (e.issues \o b) \o d = e.issues \o (b \o d)
        <3>1. ASSUME NEW x \in Seq(IssueKind), NEW y \in Seq(IssueKind),
                     NEW z \in Seq(IssueKind)
              PROVE  (x \o y) \o z = x \o (y \o z)
            BY ConcatAssociative, SMT
        <3> QED
            BY <1>6, <3>1, Zenon
    <2>2. e.issues \o (b \o d) \in Seq(IssueKind)
        BY <1>6, ConcatType
    <2> QED
        BY <2>1, <2>2
<1>8. AttachLFH(e, l) = [e EXCEPT !.lfh = <<l>>, !.dataOffset = e.lfhOffset + l.len,
                                  !.issues = e.issues \o s]
    BY <1>7 DEF AttachLFH, b, d
<1>9. <<l>> \in Ptr(LocalFileHeader) /\ e.lfhOffset + l.len \in Nat
    BY DEF Ptr, Entry, LocalFileHeader
<1> HIDE DEF s
<1> QED
    BY <1>5, <1>7, <1>8, <1>9 DEF Entry

\* Appending issues to an entry changes nothing else.
LEMMA AppendType ==
    ASSUME NEW es \in Seq(Entry), NEW i \in 1..Len(es), NEW s \in Seq(IssueKind)
    PROVE  /\ AppendIssues(es, i, s) \in Seq(Entry)
           /\ Len(AppendIssues(es, i, s)) = Len(es)
           /\ \A j \in 1..Len(es) :
                 /\ AppendIssues(es, i, s)[j] \in Entry
                 /\ AppendIssues(es, i, s)[j].cd = es[j].cd
                 /\ AppendIssues(es, i, s)[j].zip64 = es[j].zip64
                 /\ AppendIssues(es, i, s)[j].lfhOffset = es[j].lfhOffset
                 /\ AppendIssues(es, i, s)[j].lfh = es[j].lfh
                 /\ AppendIssues(es, i, s)[j].dataOffset = es[j].dataOffset
                 /\ AppendIssues(es, i, s)[j].issues
                      = IF j = i THEN es[j].issues \o s ELSE es[j].issues
<1> DEFINE e == [es[i] EXCEPT !.issues = es[i].issues \o s]
<1>1. es[i] \in Entry
    BY ElementOfSeq
<1>2. es[i].issues \o s \in Seq(IssueKind)
    BY <1>1, ConcatType DEF Entry
<1>3. e \in Entry
    BY <1>1, <1>2 DEF Entry
<1>4. AppendIssues(es, i, s) = [es EXCEPT ![i] = e]
    BY <1>1, LenProperties DEF AppendIssues
<1>5. /\ e.cd = es[i].cd /\ e.zip64 = es[i].zip64 /\ e.lfhOffset = es[i].lfhOffset
      /\ e.lfh = es[i].lfh /\ e.dataOffset = es[i].dataOffset
      /\ e.issues = es[i].issues \o s
    BY <1>1 DEF Entry
<1> HIDE DEF e
<1>6. /\ [es EXCEPT ![i] = e] \in Seq(Entry)
      /\ Len([es EXCEPT ![i] = e]) = Len(es)
      /\ \A j \in 1..Len(es) : [es EXCEPT ![i] = e][j] = IF j = i THEN e ELSE es[j]
    BY <1>3, ExceptSeq
<1> QED
    BY <1>3, <1>4, <1>5, <1>6, ElementOfSeq

\* What the file yields at any moment of a run is of its type.
LEMMA FileTypes ==
    ASSUME IsFile(file)
    PROVE  /\ file.eocd # << >> => file.eocd[1] \in EndOfCentralDirectory
           /\ file.zip64 # << >> => file.zip64[1] \in ZIP64EOCD
           /\ \A o \in Int : SigningBlockOf(file, o).issues \in Seq(ArchiveKind)
           /\ \A o \in Int : CDRecords(file, o) \in Seq(CentralDirectoryRecord)
           /\ \A o \in 0..file.size : file.lfhAt[o] \in LocalFileHeader
           /\ \A o \in 0..file.size : /\ file.axmlAt[o].raw \in Seq(AXMLKind)
                                      /\ file.axmlAt[o].inflated \in Seq(AXMLKind)
<1> DEFINE n == file.size
<1>1. /\ n \in Nat
      /\ file.eocd \in Seq(EndOfCentralDirectory)
      /\ file.zip64 \in Seq(ZIP64EOCD)
      /\ file.sigAt \in [0..n -> SigningBlock]
      /\ file.cdAt \in [0..n -> Seq(CentralDirectoryRecord)]
      /\ file.lfhAt \in [0..n -> LocalFileHeader]
      /\ file.axmlAt \in [0..n -> Content]
    BY DEF IsFile, FileOfSize, Ptr
<1>2. /\ file.eocd # << >> => file.eocd[1] \in EndOfCentralDirectory
      /\ file.zip64 # << >> => file.zip64[1] \in ZIP64EOCD
    BY <1>1, EmptySeq, ElementOfSeq
<1>3. ASSUME NEW o \in Int PROVE SigningBlockOf(file, o).issues \in Seq(ArchiveKind)
    <2>1. CASE o < SigBlockMinSize \/ o > n
        <3>1. SigningBlockOf(file, o).issues = << >>
            BY <2>1 DEF SigningBlockOf
        <3> QED
            BY <3>1
    <2>2. CASE ~(o < SigBlockMinSize \/ o > n)
        <3>1. o \in 0..n
            BY <1>1, <2>2, WidthAssumption
        <3>2. file.sigAt[o] \in SigningBlock
            BY <1>1, <3>1
        <3>3. SigningBlockOf(file, o) = file.sigAt[o]
            BY <2>2 DEF SigningBlockOf
        <3> QED
            BY <3>2, <3>3 DEF SigningBlock
    <2> QED
        BY <2>1, <2>2
<1>4. ASSUME NEW o \in Int PROVE CDRecords(file, o) \in Seq(CentralDirectoryRecord)
    <2>1. \A p \in 0..n : file.cdAt[p] \in Seq(CentralDirectoryRecord)
        BY <1>1
    <2> QED
        BY <2>1 DEF CDRecords
<1>5. \A o \in 0..n : /\ file.lfhAt[o] \in LocalFileHeader
                      /\ file.axmlAt[o] \in Content
    BY <1>1
<1> QED
    BY <1>2, <1>3, <1>4, <1>5 DEF Content

LEMMA ManifestIssuesType ==
    ASSUME IsFile(file), NEW e \in Entry
    PROVE  ManifestIssues(file, e) \in Seq(AXMLKind)
<1>1. CompSize(e) \in Nat
    <2>1. e.cd.comp \in U32 /\ e.zip64 \in Ptr(ZIP64ExtraField)
        BY DEF Entry, CentralDirectoryRecord
    <2> QED
        <3>1. CompSize(e) \in U64
            BY <2>1, EffectiveSizeType DEF CompSize
        <3> QED
            BY <3>1, WidthAssumption DEF U64
<1>2. ASSUME ~DataUnreadable(file, e) PROVE e.dataOffset \in 0..file.size
    BY <1>1, <1>2 DEF DataUnreadable, Entry, IsFile
<1>3. CASE DataUnreadable(file, e)
    BY <1>3 DEF ManifestIssues
<1>4. CASE ~DataUnreadable(file, e)
    <2>1. /\ file.axmlAt[e.dataOffset].raw \in Seq(AXMLKind)
          /\ file.axmlAt[e.dataOffset].inflated \in Seq(AXMLKind)
        BY <1>2, <1>4, FileTypes
    <2>2. ManifestIssues(file, e) \in {<< >>, file.axmlAt[e.dataOffset].raw,
                                       file.axmlAt[e.dataOffset].inflated}
        BY <1>4 DEF ManifestIssues
    <2>3. << >> \in Seq(AXMLKind)
        OBVIOUS
    <2> HIDE DEF AXMLKind
    <2> QED
        BY <2>1, <2>2, <2>3
<1> QED
    BY <1>3, <1>4

\* A stop changes where the program is and what it returns.
LEMMA StopType ==
    ASSUME TypeOK, NEW code \in {0, 1, 2}, Stop(code)
    PROVE  TypeOK'
BY DEF TypeOK, Stop, Label, headVars, nameVars, reportVars

LEMMA LoopDoneType ==
    ASSUME TypeOK, NEW label, NEW next \in Label, LoopDone(label, next)
    PROVE  TypeOK'
BY DEF TypeOK, LoopDone, headVars, nameVars, reportVars

\* The steps up to the end of the Central Directory keep the types.
LEMMA TypeHeads ==
    ASSUME TypeOK, Heads
    PROVE  TypeOK'
<1> USE DEF headVars, nameVars, reportVars
<1>1. CASE OpenFile
    BY <1>1 DEF OpenFile, TypeOK, Label
<1>2. CASE FindEOCD
    <2>1. cdOffset' \in Int /\ entryCount' \in Int
        <3>1. file.eocd[1] \in EndOfCentralDirectory
            BY <1>2, FileTypes DEF FindEOCD, TypeOK
        <3> QED
            BY <1>2, <3>1, WidthAssumption DEF FindEOCD, EndOfCentralDirectory, U32, U16
    <2> QED
        BY <1>2, <2>1 DEF FindEOCD, TypeOK, Label
<1>3. CASE NotZIP64
    BY <1>3 DEF NotZIP64, TypeOK, Label
<1>4. CASE FindZIP64EOCD
    <2>1. file.zip64[1] \in ZIP64EOCD
        BY <1>4, FileTypes DEF FindZIP64EOCD, TypeOK
    <2>2. cdOffset' \in Int /\ entryCount' \in Int
        BY <1>4, <2>1, Int64Type DEF FindZIP64EOCD, ZIP64EOCD
    <2>3. archiveIssues' \in Seq(ArchiveKind)
        <3>1. \A c : Flag(c, "zip64_eocd_mismatch") \in Seq(ArchiveKind)
            BY FlagType DEF ArchiveKind
        <3> QED
            BY <1>4, <3>1, ConcatType DEF FindZIP64EOCD, TypeOK
    <2> QED
        BY <1>4, <2>2, <2>3 DEF FindZIP64EOCD, TypeOK, Label
<1>5. CASE FindSigningBlock
    <2>1. archiveIssues' \in Seq(ArchiveKind)
        BY <1>5, FileTypes, ConcatType DEF FindSigningBlock, TypeOK
    <2> QED
        BY <1>5, <2>1 DEF FindSigningBlock, TypeOK, Label
<1>6. CASE AllocateEntries
    BY <1>6 DEF AllocateEntries, TypeOK, Label
<1>7. CASE ReadCDRecord
    <2>1. N + 1 \in 1..Len(CDRecords(file, cdOffset))
        BY <1>7, FileTypes, LenProperties DEF ReadCDRecord, TypeOK, N
    <2>2. CDRecords(file, cdOffset)[N + 1] \in CentralDirectoryRecord
        BY <2>1, FileTypes, ElementOfSeq DEF TypeOK
    <2>3. entries' \in Seq(Entry) /\ Len(entries') = Len(entries) + 1
        BY <1>7, <2>2, NewEntryType, AppendProperties DEF ReadCDRecord, TypeOK
    <2>4. Len(entries) \in Nat
        BY LenProperties DEF TypeOK
    <2>5. /\ seen \in [Name -> 0..Len(entries')]
          /\ manifest \in 0..Len(entries')
          /\ reported \in SUBSET (1..Len(entries'))
        BY <2>3, <2>4 DEF TypeOK
    <2> QED
        BY <1>7, <2>3, <2>5 DEF ReadCDRecord, TypeOK
<1>8. CASE CentralDirectoryRead
    BY <1>8 DEF CentralDirectoryRead, TypeOK, Label
<1> QED
    BY <1>1, <1>2, <1>3, <1>4, <1>5, <1>6, <1>7, <1>8 DEF Heads

\* The passes over the entries keep the types.
LEMMA TypePasses ==
    ASSUME TypeOK, Passes
    PROVE  TypeOK'
<1> USE DEF headVars, nameVars, reportVars
<1>0. /\ N \in Nat
      /\ \A i \in 1..N : entries[i] \in Entry /\ NameOf(i) \in Name
    <2>1. N \in Nat /\ \A i \in 1..N : entries[i] \in Entry
        BY ElementOfSeq, LenProperties DEF TypeOK, N
    <2> QED
        BY <2>1 DEF NameOf, Entry, CentralDirectoryRecord
<1>1. ASSUME NEW i \in 1..N, NEW s \in Seq(IssueKind)
      PROVE  /\ AppendIssues(entries, i, s) \in Seq(Entry)
             /\ Len(AppendIssues(entries, i, s)) = N
    BY AppendType DEF TypeOK, N
<1>2. ASSUME NEW l, InLoop(l) PROVE cur \in 1..N
    BY <1>0, <1>2 DEF InLoop, TypeOK, N
<1>3. CASE FlagOffsetOutOfRange
    <2>1. <<"lfh_offset_out_of_range">> \in Seq(IssueKind)
        BY DEF IssueKind, EntryKind
    <2>2. entries' \in Seq(Entry) /\ Len(entries') = N
        BY <1>1, <1>2, <1>3, <2>1 DEF FlagOffsetOutOfRange
    <2> QED
        BY <1>3, <2>2 DEF FlagOffsetOutOfRange, TypeOK, N
<1>4. CASE ReadLocalHeader
    <2> DEFINE e == entries[cur]
    <2>1. cur \in 1..N /\ e \in Entry
        BY <1>0, <1>2, <1>4 DEF ReadLocalHeader
    <2>2. e.lfhOffset \in 0..file.size
        BY <1>4, <2>1 DEF ReadLocalHeader, LFHReadable, Entry, TypeOK, IsFile
    <2>3. AttachLFH(e, file.lfhAt[e.lfhOffset]) \in Entry
        <3>1. file.lfhAt[e.lfhOffset] \in LocalFileHeader
            BY <2>2, FileTypes DEF TypeOK
        <3>2. e.lfhOffset >= 0
            BY <2>2
        <3> HIDE DEF e
        <3> QED
            BY <2>1, <3>1, <3>2, AttachType
    <2>4. entries' \in Seq(Entry) /\ Len(entries') = N
        BY <1>4, <2>1, <2>3, ExceptSeq DEF ReadLocalHeader, TypeOK, N
    <2> QED
        BY <1>4, <2>4 DEF ReadLocalHeader, TypeOK, N
<1>5. CASE RecordName
    BY <1>0, <1>2, <1>5 DEF RecordName, TypeOK, N
<1>6. CASE FlagDuplicate
    <2> DEFINE i == seen[NameOf(cur)]
               dup == <<"duplicate_name">>
               es == AppendIssues(entries, i, dup)
    <2>1. cur \in 1..N /\ i \in 1..N
        BY <1>0, <1>2, <1>6 DEF FlagDuplicate, TypeOK, N
    <2>2. dup \in Seq(IssueKind)
        BY DEF IssueKind, EntryKind
    <2>3. es \in Seq(Entry) /\ Len(es) = N
        BY <1>1, <2>1, <2>2
    <2>4. entries' = AppendIssues(es, cur, dup)
        BY <1>6 DEF FlagDuplicate
    <2> HIDE DEF es, dup
    <2>5. entries' \in Seq(Entry) /\ Len(entries') = N
        BY <2>1, <2>2, <2>3, <2>4, AppendType
    <2> QED
        BY <1>6, <2>5 DEF FlagDuplicate, TypeOK, N
<1>7. CASE GatherName
    BY <1>0, <1>2, <1>7, NameAssumption DEF GatherName, IsDir, TypeOK, N
<1>8. CASE FlagConflict
    <2>1. \A c : Flag(c, "directory_file_conflict") \in Seq(IssueKind)
        BY FlagType DEF IssueKind, EntryKind
    <2>2. entries' \in Seq(Entry) /\ Len(entries') = N
        BY <1>1, <1>2, <1>8, <2>1 DEF FlagConflict
    <2> QED
        BY <1>8, <2>2 DEF FlagConflict, TypeOK, N
<1>9. CASE AuditFilename
    <2>1. AuditOf[NameOf(cur)] \in Seq(FilenameKind)
        BY <1>0, <1>2, <1>9, NameAssumption DEF AuditFilename
    <2>2. AuditOf[NameOf(cur)] \in Seq(IssueKind)
        BY <2>1, SeqMonotonic DEF IssueKind
    <2>3. entries' \in Seq(Entry) /\ Len(entries') = N
        BY <1>1, <1>2, <1>9, <2>2 DEF AuditFilename
    <2> QED
        BY <1>9, <2>3 DEF AuditFilename, TypeOK, N
<1>10. CASE PickManifest
    BY <1>0, <1>2, <1>10 DEF PickManifest, TypeOK, N
<1>11. CASE NoManifest
    BY <1>11 DEF NoManifest, TypeOK, Label
<1>12. CASE AnalyzeManifest
    <2>1. manifest \in 1..N
        BY <1>0, <1>12 DEF AnalyzeManifest, TypeOK, N
    <2>2. ManifestIssues(file, entries[manifest]) \in Seq(IssueKind)
        BY <1>0, <2>1, ManifestIssuesType, SeqMonotonic DEF TypeOK, IssueKind
    <2>3. entries' \in Seq(Entry) /\ Len(entries') = N
        BY <1>1, <1>12, <2>1, <2>2 DEF AnalyzeManifest
    <2> QED
        BY <1>12, <2>3 DEF AnalyzeManifest, TypeOK, Label, N
<1>13. CASE CountArchiveIssues
    BY <1>13, LenProperties DEF CountArchiveIssues, TypeOK, Label
<1>14. CASE ReportEntry
    <2>1. cur \in 1..N /\ Len(entries[cur].issues) \in Nat
        BY <1>0, <1>2, <1>14, LenProperties DEF ReportEntry, Entry
    <2> QED
        BY <1>14, <2>1 DEF ReportEntry, TypeOK, N
<1>15. ASSUME NEW label, NEW next \in Label, LoopDone(label, next) PROVE TypeOK'
    BY <1>15, LoopDoneType
<1> QED
    BY <1>3, <1>4, <1>5, <1>6, <1>7, <1>8, <1>9, <1>10, <1>11, <1>12, <1>13, <1>14, <1>15
    DEF Passes, Label

\* Every way to stop is Stop with one of the three exit codes.
LEMMA StopsStop ==
    ASSUME Stops
    PROVE  \E code \in {0, 1, 2} : Stop(code)
BY DEF Stops, UsageOrOpenError, NoEOCD, BadZIP64EOCD, BadSigningBlock, SigningBlockPanic,
       SeekCDError, AllocateEntriesPanic, BadCDRecord, BadLocalHeader, ManifestPanic, Exit,
       WriteJSONError

LEMMA TypeInit ==
    ASSUME Init
    PROVE  TypeOK
<1>1. entries \in Seq(Entry) /\ Len(entries) = 0 /\ archiveIssues \in Seq(ArchiveKind)
    BY DEF Init
<1>2. IsFile(file)
    BY FilesAssumption DEF Init
<1> QED
    BY <1>1, <1>2 DEF Init, TypeOK, Label

LEMMA TypeStep ==
    ASSUME TypeOK, [Next]_vars
    PROVE  TypeOK'
<1>1. CASE Heads
    BY <1>1, TypeHeads
<1>2. CASE Passes
    BY <1>2, TypePasses
<1>3. CASE Stops
    BY <1>3, StopsStop, StopType
<1>4. CASE UNCHANGED vars
    BY <1>4 DEF vars, headVars, nameVars, reportVars, TypeOK
<1> QED
    BY <1>1, <1>2, <1>3, <1>4 DEF Next, Terminated

\* In every run on any file, whatever the widths, the variables keep their types:
\* no index that a pass holds points outside the entry table.
THEOREM TypeCorrect == Spec => []TypeOK
BY TypeInit, TypeStep, PTL DEF Spec
============================================================================
