------------------------ MODULE SigningBlockProofs ------------------------
(***************************************************************************)
(* Proofs about SigningBlockReader: the pairs of a block tile it, no read  *)
(* of a pair leaves the file, and OpenReader's view of the call holds.     *)
(***************************************************************************)
EXTENDS SigningBlockReader, FiniteSetTheorems, SequenceTheorems, TLAPS

\* What the reads made so far have established.
ReadInv ==
    /\ at \in {"magic", "trailing", "leading"} => pairs = << >> /\ issues = << >>
    /\ at # "done" => status = "running"
    /\ at \in {"trailing", "leading", "pairs"} => cdOffset \in SigBlockMinSize..size
    /\ at = "pairs" =>
          /\ BlockStart >= 0
          /\ pos >= PairsStart
          /\ pairs = << >> => pos = PairsStart
          /\ pairs # << >> => pos <= PairsEnd
    /\ status \in {"found", "error", "panic"} => cdOffset >= SigBlockMinSize
    /\ cdOffset > size => status \in {"running", "absent", "error"}
    /\ cdOffset > size /\ cdOffset >= SigBlockMinSize => status # "absent"
    /\ status \in {"absent", "error", "panic"} => issues = << >>

IInv == TypeOK /\ ReadInv /\ PairsTile

LEMMA Widths ==
    /\ Half \in Nat /\ MaxByteLen \in Nat /\ SigBlockMinSize \in Nat
    /\ SigBlockMagicLen \in Nat \ {0} /\ SigBlockSizeLen \in Nat \ {0}
    /\ BlockIDLen \in 1..SigBlockMagicLen
    /\ SigBlockFooterLen = SigBlockMagicLen + SigBlockSizeLen
    /\ SigBlockMinSize = SigBlockFooterLen + SigBlockSizeLen
    /\ \A n \in FileSizes : n \in Nat /\ n + MaxByteLen + SigBlockMinSize < Half
BY WidthAssumption, LengthAssumption, SizeAssumption DEF SigBlockFooterLen

LEMMA Int64Range == ASSUME NEW u \in U64 PROVE Int64(u) \in (-Half)..(Half - 1)
BY Widths DEF U64, Int64

LEMMA FlagType ==
    /\ \A c : Flag(c, "signing_block_size_mismatch") \in Seq(ArchiveKind)
    /\ \A c : Flag(c, "signing_block_unknown_id") \in Seq(ArchiveKind)
<1>1. ASSUME NEW k \in ArchiveKind, NEW c PROVE Flag(c, k) \in Seq(ArchiveKind)
    BY DEF Flag
<1> QED
    BY <1>1 DEF ArchiveKind

LEMMA PlaceTypes ==
    ASSUME TypeOK
    PROVE  /\ size \in Nat /\ cdOffset \in Int /\ pos \in Nat
           /\ BlockStart \in Int /\ PairsStart = BlockStart + SigBlockSizeLen
           /\ PairsEnd = cdOffset - SigBlockFooterLen
<1>1. Int64(trailingSize) \in Int /\ cdOffset \in Int /\ size \in Nat /\ pos \in Nat
    BY Int64Range, Widths DEF TypeOK
<1>2. BlockStart \in Int
    BY <1>1, Widths DEF BlockStart, Wrap
<1> QED
    BY <1>1, <1>2 DEF PairsStart, PairsEnd

\* A pair that is read has the length it says, and ends within the block.
LEMMA PairFits ==
    ASSUME IInv, at = "pairs", pos < PairsEnd, NEW n \in U64,
           ~TooSmall(n), ~PastBoundary(n), Allocatable(n)
    PROVE  /\ n >= BlockIDLen
           /\ ValuePos + BlockIDLen + ValueLen(n) = ValuePos + n
           /\ ValuePos + n <= PairsEnd
           /\ ValuePos \in Nat
<1>1. /\ pos \in Nat /\ size \in FileSizes /\ cdOffset \in SigBlockMinSize..size
      /\ n \in 0..(2 * Half - 1) /\ n >= BlockIDLen
    BY Widths, PlaceTypes DEF IInv, ReadInv, TypeOK, U64, TooSmall
<1>2. n < Half /\ ValueLen(n) = n - BlockIDLen /\ n - BlockIDLen <= MaxByteLen
    BY <1>1, Widths DEF Allocatable, ValueLen, Wrap, Int64
<1>3. pos < size /\ ValuePos + n \in 0..(Half - 1)
    BY <1>1, <1>2, Widths DEF ValuePos, PairsEnd
<1>4. Wrap(ValuePos + Int64(n)) = ValuePos + n
    BY <1>1, <1>2, <1>3, Widths DEF Wrap, Int64
<1> QED
    BY <1>1, <1>2, <1>3, <1>4, Widths, PlaceTypes DEF PastBoundary, ValuePos, IInv

LEMMA InitIInv ==
    ASSUME Init
    PROVE  IInv
<1>1. cdOffset \in (-Half)..(Half - 1)
    BY Int64Range DEF Init
<1>2. 0 \in U64
    BY WidthAssumption DEF U64
<1>3. pairs \in Seq(Pair) /\ Len(pairs) = 0 /\ issues \in Seq(ArchiveKind)
    BY DEF Init
<1> QED
    BY <1>1, <1>2, <1>3 DEF Init, IInv, TypeOK, ReadInv, PairsTile

LEMMA ReturnStep ==
    ASSUME IInv, NEW outcome \in {"absent", "found", "error", "panic"}, Return(outcome),
           outcome # "absent" => cdOffset >= SigBlockMinSize,
           cdOffset > size => outcome \in {"absent", "error"},
           cdOffset > size /\ cdOffset >= SigBlockMinSize => outcome # "absent",
           outcome = "found" => at = "pairs" /\ pos >= PairsEnd
    PROVE  IInv'
<1> USE DEF Return
<1>1. TypeOK'
    BY DEF IInv, TypeOK
<1>2. ReadInv'
    BY DEF IInv, ReadInv, TypeOK
<1>3. PairsStart' = PairsStart /\ PairsEnd' = PairsEnd
    BY DEF PairsStart, PairsEnd, BlockStart
<1>4. outcome = "found" /\ PairsStart <= PairsEnd => pos = PairsEnd
    BY Widths DEF IInv, ReadInv, TypeOK, PairsStart, PairsEnd
<1>5. PairsTile'
    BY <1>3, <1>4 DEF IInv, PairsTile, PairEnd
<1> QED
    BY <1>1, <1>2, <1>5 DEF IInv

LEMMA PairStep ==
    ASSUME IInv, ReadPair
    PROVE  IInv'
<1>1. PICK n \in U64, known \in BOOLEAN :
          /\ ~TooSmall(n) /\ ~PastBoundary(n) /\ Allocatable(n)
          /\ pairs' = Append(pairs, [at |-> pos, size |-> n, known |-> known])
          /\ pos' = ValuePos + BlockIDLen + ValueLen(n)
          /\ issues' = issues \o Flag(~known, "signing_block_unknown_id")
    BY DEF ReadPair
<1>2. /\ at = "pairs" /\ pos < PairsEnd
      /\ UNCHANGED <<size, cdOffset, at, trailingSize, leadingSize, status>>
    BY DEF ReadPair
<1> DEFINE p == [at |-> pos, size |-> n, known |-> known]
<1>3. /\ n >= BlockIDLen /\ pos' = ValuePos + n /\ pos' <= PairsEnd /\ ValuePos \in Nat
    BY <1>1, <1>2, PairFits
<1>4. /\ pos \in Nat /\ n \in Nat /\ p \in Pair /\ PairEnd(p) = pos' /\ p.at = pos
      /\ p.size = n
    BY <1>3 DEF IInv, TypeOK, U64, Pair, PairEnd, ValuePos
<1>5. /\ BlockStart' = BlockStart /\ PairsStart' = PairsStart /\ PairsEnd' = PairsEnd
    BY <1>2 DEF PairsStart, PairsEnd, BlockStart
<1>6. pairs \in Seq(Pair) /\ pairs' = Append(pairs, p)
    BY <1>1 DEF IInv, TypeOK
<1> HIDE DEF p
<1>7. /\ pairs' \in Seq(Pair)
      /\ Len(pairs) \in Nat
      /\ Len(pairs') = Len(pairs) + 1
      /\ \A i \in 1..Len(pairs) : pairs'[i] = pairs[i]
      /\ pairs'[Len(pairs) + 1] = p
    BY <1>4, <1>6, AppendProperties, LenProperties
<1>8. TypeOK'
    <2>1. issues' \in Seq(ArchiveKind)
        BY <1>1, FlagType, ConcatProperties DEF IInv, TypeOK
    <2>2. pos' \in Nat
        BY <1>3, <1>4
    <2> QED
        BY <1>2, <1>7, <2>1, <2>2 DEF IInv, TypeOK
<1>9. ReadInv'
    <2>1. pos' >= PairsStart /\ PairsStart \in Int /\ PairsEnd \in Int
        BY <1>2, <1>3, <1>4, Widths, PlaceTypes DEF IInv, ReadInv, ValuePos
    <2>2. pairs' # << >>
        BY <1>7
    <2> QED
        BY <1>2, <1>3, <1>5, <2>1, <2>2 DEF IInv, ReadInv
<1>10. PairsTile'
    <2>1. ASSUME NEW i \in 1..Len(pairs')
          PROVE  /\ pairs'[i].at = IF i = 1 THEN PairsStart ELSE PairEnd(pairs'[i - 1])
                 /\ pairs'[i].size >= BlockIDLen
                 /\ PairEnd(pairs'[i]) <= PairsEnd
        <3>1. CASE i \in 1..Len(pairs)
            <4>1. pairs'[i] = pairs[i] /\ (i # 1 => pairs'[i - 1] = pairs[i - 1])
                BY <1>7, <3>1
            <4> QED
                BY <3>1, <4>1 DEF IInv, PairsTile
        <3>2. CASE i = Len(pairs) + 1
            <4>1. pairs'[i] = p
                BY <1>7, <3>2
            <4>2. pos = IF i = 1 THEN PairsStart ELSE PairEnd(pairs'[i - 1])
                <5>1. CASE i = 1
                    <6>1. pairs = << >>
                        BY <1>6, <1>7, <3>2, <5>1, EmptySeq
                    <6> QED
                        BY <1>2, <5>1, <6>1 DEF IInv, ReadInv
                <5>2. CASE i # 1
                    <6>1. pairs # << >> /\ pairs'[i - 1] = pairs[Len(pairs)]
                        BY <1>6, <1>7, <3>2, <5>2, EmptySeq
                    <6> QED
                        BY <5>2, <6>1 DEF IInv, PairsTile
                <5> QED
                    BY <5>1, <5>2
            <4> QED
                BY <1>3, <1>4, <4>1, <4>2
        <3> QED
            BY <1>7, <3>1, <3>2
    <2>2. pos' = PairEnd(pairs'[Len(pairs')])
        BY <1>4, <1>7
    <2>3. status' # "found"
        BY <1>2 DEF IInv, ReadInv
    <2> QED
        BY <1>5, <2>1, <2>2, <2>3 DEF PairsTile, PairEnd
<1> QED
    BY <1>8, <1>9, <1>10 DEF IInv

LEMMA StepIInv ==
    ASSUME IInv, [Next]_vars
    PROVE  IInv'
<1> USE DEF ReadInv
<1>1. CASE NoBlock
    BY <1>1, ReturnStep, Widths, PlaceTypes DEF NoBlock, IInv
<1>2. CASE MagicUnreadable
    BY <1>2, ReturnStep DEF MagicUnreadable
<1>3. CASE MagicFound
    <2>1. pairs = << >> /\ status = "running" /\ cdOffset \in SigBlockMinSize..size
        BY <1>3, Widths DEF MagicFound, IInv, TypeOK
    <2> QED
        BY <1>3, <2>1 DEF MagicFound, IInv, TypeOK, PairsTile
<1>4. CASE ReadTrailingSize
    <2>1. pairs = << >> /\ status = "running" /\ cdOffset \in SigBlockMinSize..size
        BY <1>4 DEF ReadTrailingSize, IInv
    <2> QED
        BY <1>4, <2>1 DEF ReadTrailingSize, IInv, TypeOK, PairsTile
<1>5. CASE StartBeforeFile
    BY <1>5, ReturnStep DEF StartBeforeFile, IInv
<1>6. CASE LeadingUnreadable
    BY <1>6, ReturnStep DEF LeadingUnreadable, IInv
<1>7. CASE ReadLeadingSize
    <2>1. /\ pairs = << >> /\ status = "running" /\ cdOffset \in SigBlockMinSize..size
          /\ BlockStart >= 0 /\ pos' = PairsStart /\ at' = "pairs"
          /\ UNCHANGED <<size, cdOffset, trailingSize, pairs, status>>
        BY <1>7 DEF ReadLeadingSize, IInv
    <2>2. leadingSize' \in U64
        BY <1>7 DEF ReadLeadingSize, Leading, IInv, TypeOK
    <2>3. BlockStart \in Int /\ PairsStart \in Nat
        BY <2>1, Widths, PlaceTypes DEF IInv
    <2>4. BlockStart' = BlockStart /\ PairsStart' = PairsStart
        BY <2>1 DEF BlockStart, PairsStart
    <2>5. issues' \in Seq(ArchiveKind)
        BY <1>7, FlagType DEF ReadLeadingSize
    <2> QED
        BY <2>1, <2>2, <2>3, <2>4, <2>5 DEF IInv, TypeOK, PairsTile
<1>8. CASE BadPair
    BY <1>8, ReturnStep, Widths, PlaceTypes DEF BadPair, IInv
<1>9. CASE PairPanic
    BY <1>9, ReturnStep, Widths, PlaceTypes DEF PairPanic, IInv
<1>10. CASE ReadPair
    BY <1>10, PairStep
<1>11. CASE PairsRead
    BY <1>11, ReturnStep, Widths, PlaceTypes DEF PairsRead, IInv
<1>12. CASE UNCHANGED vars
    BY <1>12 DEF vars, IInv, TypeOK, PairsTile, BlockStart, PairsStart, PairsEnd, PairEnd
<1> QED
    BY <1>1, <1>2, <1>3, <1>4, <1>5, <1>6, <1>7, <1>8, <1>9, <1>10, <1>11, <1>12
       DEF Next, Returned

LEMMA IInvHolds == Spec => []IInv
BY InitIInv, StepIInv, PTL DEF Spec

\* For every width of the fields, the variables of the call keep their types: the
\* place of the next pair is never negative, and what is returned is one of five.
THEOREM TypeCorrect == Spec => []TypeOK
BY IInvHolds, PTL DEF IInv

\* For every width of the fields: the pairs that parseSigningBlockPairs returns
\* tile the block, and fill it when the call finds one.
THEOREM PairsTileHolds == Spec => []PairsTile
BY IInvHolds, PTL DEF IInv

\* Once the magic has been read, no read of a pair's size or ID meets the end of
\* the file.
THEOREM PairReadsInsideHolds == Spec => []PairReadsInside
<1>1. IInv => PairReadsInside
    BY Widths DEF IInv, TypeOK, ReadInv, PairReadsInside, ValuePos, PairsEnd
<1> QED
    BY <1>1, IInvHolds, PTL

\* OpenReader's model of the call, SigningBlockOf, admits every outcome of it.
THEOREM KeepsContractHolds == Spec => []KeepsContract
<1>1. IInv => KeepsContract
    BY Widths DEF IInv, TypeOK, ReadInv, KeepsContract, SigningBlockOf, SigningBlock
<1> QED
    BY <1>1, IInvHolds, PTL

----------------------------------------------------------------------------
(* The issues of a block.                                                  *)

Places(s, T) == {k \in 1..Len(s) : s[k] \in T}
Mismatch == {"signing_block_size_mismatch"}
UnknownID == {"signing_block_unknown_id"}
UnknownPair == {p \in Pair : ~p.known}

\* From the first pair on, one issue tells of the sizes and one of each pair read
\* so far whose ID is unknown.
ToldInv ==
    at = "pairs" \/ status = "found" =>
        /\ Cardinality(Places(issues, Mismatch)) = IF leadingSize = trailingSize THEN 0 ELSE 1
        /\ Cardinality(Places(issues, UnknownID)) = Cardinality(Places(pairs, UnknownPair))

LEMMA PlacesFinite ==
    ASSUME NEW S, NEW s \in Seq(S), NEW T
    PROVE  /\ IsFiniteSet(Places(s, T))
           /\ Cardinality(Places(s, T)) \in Nat
<1>1. IsFiniteSet(1..Len(s))
    BY LenProperties, FS_Interval
<1>2. IsFiniteSet(Places(s, T))
    BY <1>1, FS_Subset DEF Places
<1> QED
    BY <1>2, FS_CardinalityType

LEMMA PlacesEmpty == \A T : Cardinality(Places(<< >>, T)) = 0
BY FS_EmptySet DEF Places

LEMMA PlacesAppend ==
    ASSUME NEW S, NEW s \in Seq(S), NEW x \in S, NEW T
    PROVE  Cardinality(Places(Append(s, x), T))
             = Cardinality(Places(s, T)) + (IF x \in T THEN 1 ELSE 0)
<1> DEFINE t == Append(s, x)
           n == Len(s) + 1
<1>1. /\ Len(s) \in Nat /\ Len(t) = n
      /\ \A k \in 1..Len(s) : t[k] = s[k]
      /\ t[n] = x
    BY AppendProperties, LenProperties
<1>2. /\ IsFiniteSet(Places(s, T)) /\ Cardinality(Places(s, T)) \in Nat
      /\ n \notin Places(s, T)
    <2>1. n \notin Places(s, T)
        BY <1>1 DEF Places
    <2> QED
        BY <2>1, PlacesFinite
<1>3. Places(t, T) = IF x \in T THEN Places(s, T) \cup {n} ELSE Places(s, T)
    <2>1. \A k \in Int : k \in 1..n <=> k \in 1..Len(s) \/ k = n
        BY <1>1
    <2> HIDE DEF t, n
    <2> QED
        BY <1>1, <2>1 DEF Places
<1>4. Cardinality(Places(s, T) \cup {n}) = Cardinality(Places(s, T)) + 1
    BY <1>2, FS_AddElement
<1> HIDE DEF n
<1> QED
    BY <1>2, <1>3, <1>4

LEMMA FlagIsAppend ==
    ASSUME NEW s \in Seq(ArchiveKind), NEW c, NEW kind \in ArchiveKind
    PROVE  s \o Flag(c, kind) = IF c THEN Append(s, kind) ELSE s
<1>1. CASE c
    BY <1>1, AppendIsConcat DEF Flag
<1>2. CASE ~c
    BY <1>2, ConcatEmptySeq DEF Flag
<1> QED
    BY <1>1, <1>2

LEMMA ToldStep ==
    ASSUME IInv, ToldInv, [Next]_vars
    PROVE  ToldInv'
<1>1. /\ pairs \in Seq(Pair) /\ issues \in Seq(ArchiveKind)
      /\ {"signing_block_size_mismatch", "signing_block_unknown_id"} \subseteq ArchiveKind
    BY DEF IInv, TypeOK, ArchiveKind
<1>2. CASE ReadLeadingSize
    <2> DEFINE kind == "signing_block_size_mismatch"
    <2>1. /\ pairs' = << >> /\ UNCHANGED <<trailingSize, status>>
          /\ issues' = Flag(leadingSize' # trailingSize, kind)
        BY <1>2 DEF ReadLeadingSize, IInv, ReadInv
    <2>2. kind \in ArchiveKind /\ kind \in Mismatch /\ kind \notin UnknownID
        BY <1>1 DEF Mismatch, UnknownID
    <2>3. issues' = IF leadingSize' # trailingSize THEN Append(<< >>, kind) ELSE << >>
        BY <2>1 DEF Flag
    <2> HIDE DEF kind
    <2>4. /\ Cardinality(Places(Append(<< >>, kind), Mismatch)) = 0 + 1
          /\ Cardinality(Places(Append(<< >>, kind), UnknownID)) = 0 + 0
        <3>1. << >> \in Seq(ArchiveKind)
            OBVIOUS
        <3>2. /\ Cardinality(Places(Append(<< >>, kind), UnknownID))
                   = Cardinality(Places(<< >>, UnknownID)) + 0
              /\ Cardinality(Places(Append(<< >>, kind), Mismatch))
                   = Cardinality(Places(<< >>, Mismatch)) + 1
            BY <2>2, <3>1, PlacesAppend
        <3> QED
            BY <3>2, PlacesEmpty
    <2> QED
        BY <2>1, <2>3, <2>4, PlacesEmpty DEF ToldInv
<1>3. CASE ReadPair
    <2>1. PICK n \in U64, known \in BOOLEAN :
              /\ pairs' = Append(pairs, [at |-> pos, size |-> n, known |-> known])
              /\ issues' = issues \o Flag(~known, "signing_block_unknown_id")
        BY <1>3 DEF ReadPair
    <2> DEFINE p == [at |-> pos, size |-> n, known |-> known]
    <2>2. p \in Pair /\ (p \in UnknownPair <=> ~known)
        BY DEF IInv, TypeOK, Pair, UnknownPair
    <2>3. pairs' = Append(pairs, p)
        BY <2>1
    <2> HIDE DEF p
    <2>4. Cardinality(Places(pairs', UnknownPair))
            = Cardinality(Places(pairs, UnknownPair)) + (IF ~known THEN 1 ELSE 0)
        BY <1>1, <2>2, <2>3, PlacesAppend
    <2>5. /\ Cardinality(Places(issues', UnknownID))
               = Cardinality(Places(issues, UnknownID)) + (IF ~known THEN 1 ELSE 0)
          /\ Cardinality(Places(issues', Mismatch)) = Cardinality(Places(issues, Mismatch))
        <3> DEFINE kind == "signing_block_unknown_id"
        <3>1. kind \in ArchiveKind /\ kind \notin Mismatch /\ kind \in UnknownID
            BY <1>1 DEF Mismatch, UnknownID
        <3>2. issues' = IF ~known THEN Append(issues, kind) ELSE issues
            BY <1>1, <2>1, <3>1, FlagIsAppend
        <3> HIDE DEF kind
        <3>3. /\ Cardinality(Places(issues, Mismatch)) \in Nat
              /\ Cardinality(Places(issues, UnknownID)) \in Nat
            BY <1>1, PlacesFinite
        <3>4. /\ Cardinality(Places(Append(issues, kind), UnknownID))
                   = Cardinality(Places(issues, UnknownID)) + 1
              /\ Cardinality(Places(Append(issues, kind), Mismatch))
                   = Cardinality(Places(issues, Mismatch)) + 0
            BY <1>1, <3>1, PlacesAppend
        <3> QED
            BY <3>2, <3>3, <3>4
    <2> QED
        BY <1>3, <2>4, <2>5 DEF ReadPair, ToldInv
<1>4. CASE PairsRead
    BY <1>4 DEF PairsRead, Return, ToldInv
<1>5. CASE ~ReadLeadingSize /\ ~ReadPair /\ ~PairsRead
    <2>1. /\ at' = "pairs" \/ status' = "found" => at = "pairs" \/ status = "found"
          /\ at' = "pairs" \/ status' = "found"
               => UNCHANGED <<issues, pairs, leadingSize, trailingSize>>
        BY <1>5 DEF Next, NoBlock, MagicUnreadable, MagicFound, ReadTrailingSize, StartBeforeFile,
           LeadingUnreadable, BadPair, PairPanic, Returned, Return, vars, IInv, ReadInv
    <2> QED
        BY <2>1 DEF ToldInv
<1> QED
    BY <1>2, <1>3, <1>4, <1>5

\* However many pairs there are: a block that is found has one issue for each pair of
\* unknown ID, and one for its sizes exactly when they differ.
THEOREM IssuesToldHolds == Spec => []IssuesTold
<1>1. Init => ToldInv
    BY DEF Init, ToldInv
<1>2. ASSUME IInv, ToldInv PROVE IssuesTold
    <2>1. pairs \in Seq(Pair) /\ issues \in Seq(ArchiveKind)
        BY <1>2 DEF IInv, TypeOK
    <2>2. {i \in 1..Len(pairs) : ~pairs[i].known} = Places(pairs, UnknownPair)
        <3>1. \A i \in 1..Len(pairs) : pairs[i] \in Pair
            BY <2>1, ElementOfSeq
        <3> QED
            BY <3>1 DEF Places, UnknownPair
    <2>3. /\ {k \in 1..Len(issues) : issues[k] = "signing_block_size_mismatch"}
               = Places(issues, Mismatch)
          /\ {k \in 1..Len(issues) : issues[k] = "signing_block_unknown_id"}
               = Places(issues, UnknownID)
        BY DEF Places, Mismatch, UnknownID
    <2>4. Places(issues, Mismatch) = {} <=> Cardinality(Places(issues, Mismatch)) = 0
        BY <2>1, PlacesFinite, FS_EmptySet
    <2> DEFINE sizes == Places(issues, Mismatch)
    <2> HIDE DEF sizes
    <2>5. status = "found" => (sizes = {} <=> leadingSize = trailingSize)
        BY <1>2, <2>4 DEF ToldInv, sizes
    <2> QED
        BY <1>2, <2>2, <2>3, <2>5 DEF IssuesTold, ToldInv, sizes
<1> QED
    BY <1>1, <1>2, ToldStep, IInvHolds, PTL DEF Spec
============================================================================
