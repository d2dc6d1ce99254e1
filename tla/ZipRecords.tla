---------------------------- MODULE ZipRecords ----------------------------
(***************************************************************************)
(* The records of a ZIP file as zip/structures.go declares them, the pure  *)
(* functions zip/reader.go applies to them, and the file as the analyser   *)
(* sees it: what each offset reads as.  Numbers keep their width, scaled   *)
(* down for TLC: Sentinel32 stands for 2^32-1, Sentinel16 for 2^16-1 and   *)
(* Half for 2^63.                                                          *)
(***************************************************************************)
EXTENDS Integers, Sequences, FiniteSets

CONSTANTS
    Name,           \* the names in the headers, and the bases of the directory names
    DirName,        \* the names that end in '/'
    BaseOf,         \* such a name without its last character
    ManifestName,   \* "AndroidManifest.xml"
    AuditOf,        \* what auditFilename reports of a name
    OtherFlag,      \* the general purpose bits other than encryption and data descriptor
    OtherMethod,    \* the compression methods other than Stored and Deflated
    Sentinel16, Sentinel32, Half,
    SigBlockMinSize, AxmlMinLen,
    MaxEntryCap,    \* the longest entry slice the runtime can allocate
    MaxByteLen      \* the longest byte slice the runtime can allocate

U16 == 0..Sentinel16
U32 == 0..Sentinel32
U64 == 0..(2 * Half - 1)

\* The conversion int64(u) of an unsigned 64-bit value: it wraps.
Int64(u) == IF u < Half THEN u ELSE u - 2 * Half

\* A pointer or an optional result: << >> is nil, << v >> points to v.
Ptr(S) == {p \in Seq(S) : Len(p) <= 1}

EntryKind == {"encryption_mismatch", "gpbf_mismatch", "compression_mismatch",
              "unsupported_compression", "crc32_mismatch", "compressed_size_mismatch",
              "uncompressed_size_mismatch", "name_mismatch", "duplicate_name",
              "directory_file_conflict", "lfh_signature_bad", "lfh_offset_out_of_range",
              "zip64_sentinel_mismatch"}
ArchiveKind == {"zip64_eocd_mismatch", "signing_block_size_mismatch",
                "signing_block_unknown_id"}
FilenameKind == {"filename_control_char", "filename_invalid_utf8",
                 "filename_dangerous_unicode", "filename_path_traversal"}
AXMLKind == {"axml_bad_magic", "axml_string_count_mismatch",
             "axml_string_duplicate_offset", "axml_chunk_misaligned",
             "axml_attribute_size_invalid", "axml_attribute_start_invalid",
             "axml_offset_out_of_bounds"}
IssueKind == EntryKind \cup ArchiveKind \cup FilenameKind \cup AXMLKind

GPBF == SUBSET ({"encrypted", "dataDescriptor"} \cup OtherFlag)
Compression == {"stored", "deflated"} \cup OtherMethod

\* One block of an extra field: its ID is 0x0001 or another, its declared size
\* runs past the field or not, and it holds so many whole 64-bit words.
ExtraBlock == [zip64 : BOOLEAN, overrun : BOOLEAN, words : Seq(U64)]

\* A Central Directory record with its name and extra field.
CentralDirectoryRecord ==
    [name : Name, gpbf : GPBF, compression : Compression, crc32 : U32,
     comp : U32, uncomp : U32, lfhOffset : U32, extra : Seq(ExtraBlock)]

\* What reads as a local header at some offset; len is lfhFixedSize + NameLen +
\* ExtraLen.
LocalFileHeader ==
    [sigOK : BOOLEAN, name : Name, gpbf : GPBF, compression : Compression,
     crc32 : U32, comp : U32, uncomp : U32, extra : Seq(ExtraBlock), len : Nat \ {0}]

ZIP64ExtraField == [uncomp : Ptr(U64), comp : Ptr(U64), lfhOffset : Ptr(U64)]

Entry == [cd : CentralDirectoryRecord, zip64 : Ptr(ZIP64ExtraField), lfhOffset : Int,
          lfh : Ptr(LocalFileHeader), dataOffset : Nat, issues : Seq(IssueKind)]

(***************************************************************************)
(* The file.  eocd is what findEOCD returns, zip64 what stands at the      *)
(* ZIP64 locator's place; cdAt[o] is the longest run of whole Central      *)
(* Directory records that begins at o, lfhAt[o] the bytes at o read as a   *)
(* local header, sigAt[o] the outcome of FindSigningBlock for a Central    *)
(* Directory at o, and axmlAt[o] what ParseAXML says of the bytes at o as  *)
(* they stand and after inflation, as far as the record's size lets it go. *)
(***************************************************************************)
EndOfCentralDirectory == [cdOffset : U32, entries : U16]
ZIP64EOCD == [at : U64, readable : BOOLEAN, cdOffset : U64, entries : U64]
SigningBlock == [status : {"absent", "found", "error", "panic"}, issues : Seq(ArchiveKind)]
Content == [inflates : BOOLEAN, raw : Seq(AXMLKind), inflated : Seq(AXMLKind)]

FileOfSize(n) ==
    [size : {n},
     eocd : Ptr(EndOfCentralDirectory),
     zip64 : Ptr(ZIP64EOCD),
     sigAt : [0..n -> SigningBlock],
     cdAt : [0..n -> Seq(CentralDirectoryRecord)],
     lfhAt : [0..n -> LocalFileHeader],
     axmlAt : [0..n -> Content]]
IsFile(f) == f.size \in Nat /\ f \in FileOfSize(f.size)

ASSUME WidthAssumption ==
    /\ Sentinel16 \in Nat \ {0}
    /\ Sentinel32 \in Nat \ {0}
    /\ Half \in Nat
    /\ Sentinel16 < Half
    /\ Sentinel32 < Half
    /\ SigBlockMinSize \in Nat
    /\ AxmlMinLen \in Nat \ {0}
    /\ MaxEntryCap \in Nat
    /\ MaxByteLen \in Nat

ASSUME NameAssumption ==
    /\ DirName \subseteq Name
    /\ BaseOf \in [DirName -> Name]
    /\ \A d1, d2 \in DirName : BaseOf[d1] = BaseOf[d2] => d1 = d2
    /\ ManifestName \in Name \ DirName
    /\ AuditOf \in [Name -> Seq(FilenameKind)]

----------------------------------------------------------------------------
(* Pure functions of reader.go.                                            *)

\* parseZIP64Block: a field is read only when its 32-bit value is the sentinel,
\* in this order; a read that comes short consumes what is left, so the fields
\* found are a prefix of the fields demanded.  DiskStart, read last and used
\* nowhere, is left out.
parseZIP64Block(words, uncompSize, compSize, lfhOffset) ==
    LET demand(reg) == IF reg = Sentinel32 THEN 1 ELSE 0
        k1 == demand(uncompSize)
        k2 == k1 + demand(compSize)
        k3 == k2 + demand(lfhOffset)
        field(reg, k) == IF reg = Sentinel32 /\ k <= Len(words) THEN <<words[k]>> ELSE << >>
    IN  [uncomp |-> field(uncompSize, k1),
         comp |-> field(compSize, k2),
         lfhOffset |-> field(lfhOffset, k3)]

\* parseZIP64Extra: the first ZIP64 block, unless a block before it, or it
\* itself, runs past the end of the field.
parseZIP64Extra(extra, uncompSize, compSize, lfhOffset) ==
    LET hits == {i \in 1..Len(extra) :
                    extra[i].zip64 /\ \A j \in 1..i : ~extra[j].overrun}
    IN  IF hits = {} THEN << >>
        ELSE LET first == CHOOSE i \in hits : \A j \in hits : i <= j
             IN  <<parseZIP64Block(extra[first].words, uncompSize, compSize, lfhOffset)>>

effectiveUncompressedSize(reg, z) ==
    IF reg = Sentinel32 /\ z # << >> /\ z[1].uncomp # << >> THEN z[1].uncomp[1] ELSE reg

effectiveCompressedSize(reg, z) ==
    IF reg = Sentinel32 /\ z # << >> /\ z[1].comp # << >> THEN z[1].comp[1] ELSE reg

Flag(condition, kind) == IF condition THEN <<kind>> ELSE << >>

\* Mutant: the 32-bit fields are compared as they stand.
diffSizes_Raw(cd, cz, lfh, lz) ==
    Flag((cd.uncomp = Sentinel32) # (lfh.uncomp = Sentinel32), "zip64_sentinel_mismatch")
    \o Flag((cd.comp = Sentinel32) # (lfh.comp = Sentinel32), "zip64_sentinel_mismatch")
    \o Flag(cd.comp # lfh.comp, "compressed_size_mismatch")
    \o Flag(cd.uncomp # lfh.uncomp, "uncompressed_size_mismatch")

\* The size comparisons of diffEntries, made only when the Central Directory's
\* data descriptor bit is clear.
diffSizes(cd, cz, lfh, lz) ==
    Flag((cd.uncomp = Sentinel32) # (lfh.uncomp = Sentinel32), "zip64_sentinel_mismatch")
    \o Flag((cd.comp = Sentinel32) # (lfh.comp = Sentinel32), "zip64_sentinel_mismatch")
    \o Flag(effectiveCompressedSize(cd.comp, cz)
              # effectiveCompressedSize(lfh.comp, lz), "compressed_size_mismatch")
    \o Flag(effectiveUncompressedSize(cd.uncomp, cz)
              # effectiveUncompressedSize(lfh.uncomp, lz), "uncompressed_size_mismatch")

diffEntries(cd, cz, lfh, lz) ==
    Flag(("encrypted" \in cd.gpbf) # ("encrypted" \in lfh.gpbf), "encryption_mismatch")
    \o Flag(cd.gpbf # lfh.gpbf, "gpbf_mismatch")
    \o Flag(cd.compression # lfh.compression, "compression_mismatch")
    \o Flag({cd.compression, lfh.compression} \cap OtherMethod # {}, "unsupported_compression")
    \o Flag(cd.crc32 # lfh.crc32, "crc32_mismatch")
    \o (IF "dataDescriptor" \in cd.gpbf THEN << >> ELSE diffSizes(cd, cz, lfh, lz))
    \o Flag(cd.name # lfh.name, "name_mismatch")

\* The ZIP64 block of a local header carries sizes only.
LocalZIP64(lfh) == parseZIP64Extra(lfh.extra, lfh.uncomp, lfh.comp, 0)

\* readCDRecord: the entry built from one Central Directory record.
NewEntry(rec) ==
    LET z == parseZIP64Extra(rec.extra, rec.uncomp, rec.comp, rec.lfhOffset)
    IN  [cd |-> rec, zip64 |-> z,
         lfhOffset |-> IF rec.lfhOffset = Sentinel32 /\ z # << >> /\ z[1].lfhOffset # << >>
                       THEN Int64(z[1].lfhOffset[1]) ELSE rec.lfhOffset,
         lfh |-> << >>, dataOffset |-> 0, issues |-> << >>]

IsDir(name) == name \in DirName

\* Some issue of the sequence is of one of these kinds.
Reports(issues, kinds) == \E k \in DOMAIN issues : issues[k] \in kinds

\* Mutant: a header with a bad signature is taken for the manifest's.
canReadData_AnySignature(e) ==
    /\ ~Reports(e.issues, {"lfh_offset_out_of_range"})
    /\ e.dataOffset > 0

canReadData(e) ==
    /\ ~Reports(e.issues, {"lfh_offset_out_of_range", "lfh_signature_bad"})
    /\ e.dataOffset > 0
----------------------------------------------------------------------------
(* What a read of the file yields.                                         *)

\* findZIP64EOCD: the locator's target is a whole ZIP64 EOCD.
ZIP64Readable(z) == Int64(z.at) >= 0 /\ z.readable

\* FindSigningBlock: no block can precede a Central Directory this near the
\* start of the file; past its end the magic cannot be read.
SigningBlockOf(f, offset) ==
    IF offset < SigBlockMinSize THEN [status |-> "absent", issues |-> << >>]
    ELSE IF offset > f.size THEN [status |-> "error", issues |-> << >>]
    ELSE f.sigAt[offset]

\* The records that can be read one after the other from the CD offset.
CDRecords(f, offset) == IF offset \in 0..f.size THEN f.cdAt[offset] ELSE << >>

\* Seek and the three reads succeed.
LFHReadable(f, offset) == offset >= 0 /\ offset + f.lfhAt[offset].len <= f.size

\* The signature is checked, yet a header with a bad one is kept and compared.
AttachLFH(e, lfh) ==
    [e EXCEPT !.lfh = <<lfh>>,
              !.dataOffset = e.lfhOffset + lfh.len,
              !.issues = @ \o Flag(~lfh.sigOK, "lfh_signature_bad")
                           \o diffEntries(e.cd, e.zip64, lfh, LocalZIP64(lfh))]

CompSize(e) == effectiveCompressedSize(e.cd.comp, e.zip64)
UncompSize(e) == effectiveUncompressedSize(e.cd.uncomp, e.zip64)

\* Mutant: the content is cut at the size it has while compressed.
InflateLimit_Compressed(e) == Int64((CompSize(e) + 1) % (2 * Half))

\* The limit of the reader that inflates: int64(uncompSize)+1, which wraps.
InflateLimit(e) == Int64((UncompSize(e) + 1) % (2 * Half))

\* readEntryData returns an error: its caller drops it.
DataUnreadable(f, e) ==
    \/ e.dataOffset + CompSize(e) > f.size
    \/ e.cd.compression = "deflated" /\ InflateLimit(e) > 0 /\ ~f.axmlAt[e.dataOffset].inflates

\* readEntryData and ParseAXML: data of fewer than 8 bytes says nothing.
ManifestIssues(f, e) ==
    IF DataUnreadable(f, e) THEN << >>
    ELSE IF e.cd.compression = "deflated"
         THEN IF InflateLimit(e) < AxmlMinLen THEN << >> ELSE f.axmlAt[e.dataOffset].inflated
         ELSE IF CompSize(e) < AxmlMinLen THEN << >> ELSE f.axmlAt[e.dataOffset].raw
============================================================================
