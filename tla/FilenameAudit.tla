--------------------------- MODULE FilenameAudit ---------------------------
(***************************************************************************)
(* zip/filename.go: what auditFilename says of one name, with a name as    *)
(* the sequence of its code points, and what the names of an archive that  *)
(* passes can still do.  It gives OpenReader's names, directory names and  *)
(* AuditOf their meaning.                                                  *)
(***************************************************************************)
EXTENDS OpenReader

Invalid == -1       \* a byte that is no part of well-formed UTF-8
Dot == 46
Slash == 47
Colon == 58
Backslash == 92
DEL == 127

dangerousRanges == {<<8203, 8207>>, <<8234, 8238>>, <<8288, 8292>>,
                    <<8298, 8303>>, <<65279, 65279>>, <<65529, 65531>>}

\* Mutant: the Windows form is forgotten.
pathTraversalSequences_Unix == {<<Dot, Dot, Slash>>, <<Dot, Slash>>}

pathTraversalSequences == {<<Dot, Dot, Slash>>, <<Dot, Dot, Backslash>>, <<Dot, Slash>>}

isControl(c) == c \in 0..31 \/ c = DEL
isDangerousUnicode(c) == \E r \in dangerousRanges : c >= r[1] /\ c <= r[2]
isValid(name) == \A k \in DOMAIN name : name[k] # Invalid
hasPrefixSlash(name) == name # << >> /\ name[1] = Slash
contains(name, seq) ==
    \E k \in 0..(Len(name) - Len(seq)) : \A j \in DOMAIN seq : name[k + j] = seq[j]

\* Four tests, each told once; the third is made of valid names only.
auditFilename(name) ==
    Flag(\E k \in DOMAIN name : isControl(name[k]), "filename_control_char")
    \o Flag(~isValid(name), "filename_invalid_utf8")
    \o Flag(isValid(name) /\ \E k \in DOMAIN name : isDangerousUnicode(name[k]),
            "filename_dangerous_unicode")
    \o Flag(hasPrefixSlash(name) \/ \E seq \in pathTraversalSequences : contains(name, seq),
            "filename_path_traversal")

ASSUME NameFormAssumption ==
    /\ Name \subseteq Seq(Nat \cup {Invalid})
    /\ DirName = {n \in Name : n # << >> /\ n[Len(n)] = Slash}
    /\ \A d \in DirName : BaseOf[d] = SubSeq(d, 1, Len(d) - 1)
    /\ \A n \in Name : AuditOf[n] = auditFilename(n)

----------------------------------------------------------------------------
(* What a name does to the tool that extracts it.                          *)

\* The characters that separate directories on either kind of system.
Posix == {Slash}
Windows == {Slash, Backslash}

\* The directories a name passes through, each from its first character to the
\* separator behind it.
DirParts(name, separators) ==
    {p \in (DOMAIN name) \X (DOMAIN name) :
        /\ p[1] <= p[2]
        /\ name[p[2]] \in separators
        /\ \A k \in p[1]..(p[2] - 1) : name[k] \notin separators
        /\ p[1] = 1 \/ name[p[1] - 1] \in separators}

IsUp(name, p) == p[2] - p[1] = 2 /\ name[p[1]] = Dot /\ name[p[1] + 1] = Dot
IsHere(name, p) == p[2] = p[1] \/ (p[2] - p[1] = 1 /\ name[p[1]] = Dot)

Ups(name, separators, k) ==
    {p \in DirParts(name, separators) : p[2] <= k /\ IsUp(name, p)}
Downs(name, separators, k) ==
    {p \in DirParts(name, separators) : p[2] <= k /\ ~IsUp(name, p) /\ ~IsHere(name, p)}

\* Followed from the left, the name goes up further than it has come down.
Climbs(name, separators) ==
    \E k \in DOMAIN name :
        Cardinality(Ups(name, separators, k)) > Cardinality(Downs(name, separators, k))

\* The name does not start from the directory it is extracted to.
RootedOnPosix(name) == hasPrefixSlash(name)
RootedOnWindows(name) ==
    \/ name # << >> /\ name[1] \in Windows
    \/ Len(name) >= 2 /\ name[2] = Colon        \* a drive

EscapesOnPosix(name) == RootedOnPosix(name) \/ Climbs(name, Posix)
EscapesOnWindows(name) == RootedOnWindows(name) \/ Climbs(name, Windows)

\* A renderer shows what is there.
ShownAsIs(name) ==
    \A k \in DOMAIN name : /\ name[k] # Invalid
                           /\ ~isControl(name[k])
                           /\ ~isDangerousUnicode(name[k])

\* The name hides no character and leads out of the directory it is extracted to on
\* no POSIX system, and on Windows only by a backslash or a drive at its beginning.
Harmless(name) ==
    /\ ShownAsIs(name)
    /\ ~EscapesOnPosix(name)
    /\ ~Climbs(name, Windows)
    /\ EscapesOnWindows(name) => name[1] = Backslash \/ name[2] = Colon

NamesOf(i) == {NameOf(i)} \cup {l.name : l \in {entries[i].lfh[k] : k \in DOMAIN entries[i].lfh}}

\* Exit code 0 means that every name in the Central Directory, and every name in a
\* local header, which is never audited itself, is harmless (filename.go:8, 25).  The
\* two beginnings that can still lead a name out of the directory on Windows are not
\* looked for by auditFilename (filename.go:92).
CleanNamesSafe == exitCode = 0 => \A i \in 1..N : \A name \in NamesOf(i) : Harmless(name)
============================================================================
