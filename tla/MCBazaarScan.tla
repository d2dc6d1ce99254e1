--------------------------- MODULE MCBazaarScan ---------------------------
(* Small batches for TLC: up to MaxSamples of the samples below.            *)
EXTENDS BazaarScan

CONSTANTS apk, split, note, MaxSamples

Members == {<< >>, <<note>>, <<apk>>, <<note, apk>>, <<split, apk>>}

\* Each member has an end of its own, so that the wrong member tells.
Ends(first, other) == [n \in Name |-> IF n = apk THEN first ELSE other]

Scannable(members, ends) ==
    [hashed |-> TRUE, body |-> "zip", members |-> members, ends |-> ends]

Unscannable ==
    {[hashed |-> h, body |-> b, members |-> <<apk>>, ends |-> Ends("malformed", "clean")] :
        <<h, b>> \in {<<FALSE, "zip">>, <<TRUE, "lost">>, <<TRUE, "message">>, <<TRUE, "broken">>}}

SampleKinds ==
    Unscannable
    \cup {Scannable(<<apk>>, Ends(e, "refused")) : e \in ProgramEnds}
    \cup {Scannable(m, Ends("malformed", "clean")) : m \in Members}

Batches == UNION {[1..n -> SampleKinds] : n \in 0..MaxSamples}

Settings ==
    LET good == [config |-> "key", query |-> "ok", pyzipper |-> TRUE, asJson |-> FALSE,
                 bin |-> [slash |-> TRUE, here |-> TRUE, onPath |-> FALSE, executable |-> TRUE]]
    IN {good, [good EXCEPT !.asJson = TRUE], [good EXCEPT !.pyzipper = FALSE],
        [good EXCEPT !.config = "no key"], [good EXCEPT !.config = "unreadable"],
        [good EXCEPT !.query = "fails"], [good EXCEPT !.bin.here = FALSE],
        [good EXCEPT !.bin.slash = FALSE], [good EXCEPT !.bin.executable = FALSE]}
============================================================================
