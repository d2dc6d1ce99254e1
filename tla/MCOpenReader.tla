--------------------------- MODULE MCOpenReader ---------------------------
(***************************************************************************)
(* Small files for TLC.  Five families of them: tables of up to three      *)
(* entries whose names and offsets vary, single entries whose two headers  *)
(* vary, single entries whose names vary, manifests whose contents vary,   *)
(* and files whose end records lead to different directories.              *)
(***************************************************************************)
EXTENDS FilenameAudit, TLC, SequencesExt

\* nA, nDir, a name of one control character, and the manifest's.
nA == <<97>>
nDir == <<97, Slash>>
nB == <<7>>
nM == <<109>>
TableNames == {nA, nDir, nB, nM}

\* Names of every make-up: plain, dot, the separators, a drive, control, RLO, no UTF-8.
AuditedNames ==
    TableNames
    \cup BoundedSeq({97, Dot, Slash, Backslash, Colon}, 2)
    \cup TupleOf({Dot, Slash, Backslash}, 3)
    \cup {<<97>> \o n : n \in BoundedSeq({Dot, Slash, Backslash}, 3)}
    \cup {<<97, Colon>> \o n : n \in TupleOf({Dot, Backslash}, 2)}
    \cup BoundedSeq({31, 8238, Invalid}, 2) \cup {<<DEL>>, <<97, Invalid>>, <<97, 8238>>}

mcDirName == {n \in Name : n # << >> /\ n[Len(n)] = Slash}
mcBaseOf == [d \in mcDirName |-> SubSeq(d, 1, Len(d) - 1)]
mcAuditOf == [n \in Name |-> auditFilename(n)]

\* Real archives have Sentinel16 <= MaxEntryCap and no file longer than MaxByteLen.
NoBlock == [status |-> "absent", issues |-> << >>]
BadMagic == [inflates |-> TRUE, raw |-> <<"axml_bad_magic">>,
             inflated |-> <<"axml_chunk_misaligned">>]

Rec(name, offset) ==
    [name |-> name, gpbf |-> {}, compression |-> "stored", crc32 |-> 1,
     comp |-> 2, uncomp |-> 2, lfhOffset |-> offset, extra |-> << >>]

LFH(name, ok, len) ==
    [sigOK |-> ok, name |-> name, gpbf |-> {}, compression |-> "stored", crc32 |-> 1,
     comp |-> 2, uncomp |-> 2, extra |-> << >>, len |-> len]

\* A file of size n whose directory, at offset c, holds the records recs.
MkFile(n, c, recs, lfhs) ==
    [size |-> n, eocd |-> <<[cdOffset |-> c, entries |-> Len(recs)]>>, zip64 |-> << >>,
     sigAt |-> [o \in 0..n |-> NoBlock],
     cdAt |-> [o \in 0..n |-> IF o = c THEN recs ELSE << >>],
     lfhAt |-> lfhs,
     axmlAt |-> [o \in 0..n |-> BadMagic]]

\* Tables.  The local headers of "a", the manifest and "a/" are at 0, 1 and 2; the one
\* at 1 may have a bad signature, the one at 2 may be cut short, 5 is past the end.
TableLFHs == {[o \in 0..4 |-> LFH(IF o = 0 THEN nA ELSE IF o = 1 THEN nM ELSE nDir,
                                  o # 1 \/ ok, IF o = 2 /\ cut THEN 4 ELSE 1)] :
                 ok, cut \in BOOLEAN}
TableRecs == {Rec(nA, 0), Rec(nA, 5), Rec(nDir, 2), Rec(nDir, 0),
              Rec(nM, 1), Rec(nM, 0), Rec(nM, 5), Rec(nB, 0)}
TableFiles == {MkFile(4, 3, recs, lfhs) :
                 recs \in BoundedSeq(TableRecs, 3), lfhs \in TableLFHs}

\* Headers.  One entry; the two headers take each pair of values of the fields that one
\* comparison of diffEntries, or the reading of the manifest, looks at.  An entry of
\* another name than the manifest's has no findings of its contents, so that the
\* comparisons alone decide the exit code.
Header1 == Rec(nM, 0)
Local1 == LFH(nM, TRUE, 1)
Words == {<< >>, <<2>>, <<6, 2>>, <<15, 2>>, <<7, 2>>}
Blocks(w) == {<<[zip64 |-> TRUE, overrun |-> FALSE, words |-> w]>>,
              <<[zip64 |-> FALSE, overrun |-> FALSE, words |-> <<1>>],
                [zip64 |-> TRUE, overrun |-> FALSE, words |-> w],
                [zip64 |-> TRUE, overrun |-> FALSE, words |-> <<3, 3>>]>>,
              <<[zip64 |-> TRUE, overrun |-> TRUE, words |-> w]>>}
Extras == {<< >>} \cup UNION {Blocks(w) : w \in Words}
One(rec, lfh) == [MkFile(4, 3, <<rec>>, [o \in 0..4 |-> lfh]) EXCEPT !.axmlAt =
                    [o \in 0..4 |-> [BadMagic EXCEPT !.inflates = (lfh.crc32 = 1)]]]

FlagFiles ==
    {One([Header1 EXCEPT !.name = n, !.gpbf = g1, !.comp = c, !.crc32 = k],
         [Local1 EXCEPT !.name = n, !.gpbf = g2, !.comp = 2]) :
       n \in {nA, nM}, g1, g2 \in GPBF, c \in {2, 3}, k \in {0, 1}}
MethodFiles ==
    {One([Header1 EXCEPT !.name = n, !.compression = m1, !.uncomp = u, !.comp = c],
         [Local1 EXCEPT !.name = n, !.compression = m2, !.crc32 = k]) :
       n \in {nA, nM}, m1, m2 \in Compression, u \in {0, 2}, c \in {1, 2, 4}, k \in {0, 1}}
SizeFiles ==
    {One([Header1 EXCEPT !.compression = m, !.comp = c1, !.uncomp = u1, !.extra = x1,
                         !.gpbf = g],
         [Local1 EXCEPT !.comp = c2, !.uncomp = u2, !.extra = x2, !.gpbf = g,
                        !.compression = m]) :
       m \in {"stored", "deflated"}, g \in {{}, {"dataDescriptor"}},
       c1, c2 \in {2, 5}, u1, u2 \in {2, 5},
       x1 \in Extras, x2 \in {<< >>, <<[zip64 |-> TRUE, overrun |-> FALSE, words |-> <<2, 6>>]>>}}
OffsetFiles ==
    {One([Header1 EXCEPT !.lfhOffset = 5, !.comp = c, !.extra = x], Local1) :
       c \in {2, 5}, x \in Extras}
\* A data descriptor follows the data: checksum and sizes are zero in front of it.
StreamFiles ==
    {One([Header1 EXCEPT !.name = nA, !.gpbf = {"dataDescriptor"}, !.compression = m],
         [Local1 EXCEPT !.name = nA, !.gpbf = {"dataDescriptor"}, !.compression = m,
                        !.crc32 = 0, !.comp = 0, !.uncomp = 0]) : m \in Compression}
\* Names.  One entry of each name, and one whose local header has another name.
NameFiles == {One([Header1 EXCEPT !.name = n1], [Local1 EXCEPT !.name = n2]) :
                n1 \in AuditedNames, n2 \in {nA}}
             \cup {One([Header1 EXCEPT !.name = n], [Local1 EXCEPT !.name = n]) :
                    n \in AuditedNames}
\* Manifests.  Both headers agree; the content, as it stands and inflated, varies with
\* the method and the sizes.
Clean == [BadMagic EXCEPT !.raw = << >>, !.inflated = << >>]
ManifestFiles ==
    {[One([Header1 EXCEPT !.compression = m, !.comp = c, !.uncomp = u],
          [Local1 EXCEPT !.compression = m, !.comp = c, !.uncomp = u]) EXCEPT
        !.axmlAt = [o \in 0..4 |-> x]] :
       m \in Compression, c \in 0..4, u \in 0..3,
       x \in {Clean, [Clean EXCEPT !.raw = BadMagic.raw],
              [Clean EXCEPT !.inflated = BadMagic.inflated], [Clean EXCEPT !.inflates = FALSE]}}
HeaderFiles == StreamFiles \cup FlagFiles \cup MethodFiles \cup SizeFiles \cup OffsetFiles

\* End records.  Directories of one entry stand at 1 and 3; the ZIP64 record may
\* lead elsewhere than the ZIP32 one, or nowhere.
Directory == [o \in 0..4 |-> IF o = 1 THEN <<Rec(nA, 0)>>
                             ELSE IF o = 3 THEN <<Rec(nM, 0)>> ELSE << >>]
Sig(status, issues) == [status |-> status, issues |-> issues]
EOCDs == {<<[cdOffset |-> c, entries |-> n]>> : c \in {1, 3, 4, 5}, n \in {0, 1, 2, 4}}
ZIP64s == {<<[at |-> p[1], readable |-> p[2], cdOffset |-> c, entries |-> n]>> :
             p \in {<<0, TRUE>>, <<0, FALSE>>, <<9, TRUE>>},
             c \in {1, 3, 5, 11}, n \in {0, 1, 5, 12}}
\* Every pair of end records, with and without a block to report of; the other outcomes of
\* the signing block with those of one ZIP64 record.
EndFile(e, z, s) ==
    [MkFile(4, 3, << >>, [o \in 0..4 |-> LFH(nA, TRUE, 1)]) EXCEPT
        !.eocd = e, !.zip64 = z, !.cdAt = Directory, !.sigAt = [o \in 0..4 |-> s]]
EndFiles ==
    {EndFile(e, z, s) : e \in EOCDs \cup {<< >>}, z \in ZIP64s \cup {<< >>},
        s \in {NoBlock, Sig("found", <<"signing_block_unknown_id">>)}}
    \cup {EndFile(e, z, s) : e \in EOCDs,
            z \in {<< >>, <<[at |-> 0, readable |-> TRUE, cdOffset |-> 1, entries |-> 1]>>},
            s \in {Sig("error", << >>), Sig("panic", << >>), Sig("found", << >>)}}

AllFiles == TableFiles \cup HeaderFiles \cup NameFiles \cup ManifestFiles \cup EndFiles
============================================================================
