--------------------------- MODULE MCEndRecords ---------------------------
(***************************************************************************)
(* Small files for TLC: a record is 3 bytes with a signature of 2, a       *)
(* comment has up to 3 bytes, a locator 2.                                 *)
(***************************************************************************)
EXTENDS EndRecords, TLC

mcBaseOf == ("a/" :> "a")
mcAuditOf == [n \in Name |-> << >>]

\* Up to three places for a record, each with any comment length; records of even
\* and odd offsets lead to different directories, one of them by a sentinel.
Places(n) == {P \in SUBSET (0..(n - EOCDFixedSize)) :
                 Cardinality(P) <= 3 /\ \A p, q \in P : p < q => q - p >= EOCDSigLen}
Records(n) ==
    {[o \in 0..n |->
        IF o \in DOMAIN lens
        THEN <<[commentLen |-> lens[o], cdOffset |-> IF o % 2 = 0 THEN 1 ELSE Sentinel32,
                entries |-> o % 3]>>
        ELSE << >>] : lens \in UNION {[P -> U16] : P \in Places(n)}}

\* A locator stands at each offset of one parity or at none; ZIP64 records are at
\* offset 1 alone.
Locators(n) == {[o \in 0..n |-> IF o % 2 = r THEN <<t>> ELSE << >>] :
                  r \in {0, 1}, t \in {0, 1, n + 1, Half + 1}}
               \cup {[o \in 0..n |-> << >>]}
SmallTails ==
    UNION {[size : {n}, eocdAt : Records(n), locatorAt : Locators(n),
            zip64At : {[o \in 0..n |-> IF o = 1 THEN <<[cdOffset |-> c, entries |-> 1]>>
                                       ELSE << >>] : c \in {1, Half + 2}}] :
           n \in {2, 3, 5, 8}}
============================================================================
