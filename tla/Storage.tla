------------------------------ MODULE Storage -------------------------------
(***************************************************************************)
(* How blocks are hashed, located and stored: the tree of hashes over the  *)
(* transactions of a block and the locators of chains (main.h), and the    *)
(* files blocks are appended to with the scan that reads such a file       *)
(* without an index (LoadExternalBlockFile in main.cpp).                   *)
(***************************************************************************)
EXTENDS Integers, FiniteSetsExt, SequencesExt

CONSTANTS
    MaxAnswer,   \* the 500 of getblocks
    Sizes,       \* of the blocks of a file, in cells
    Wanted,      \* the blocks ProcessBlock accepts, the first time it is given them
    MaxRecords   \* bound: writes

-----------------------------------------------------------------------------
(***************************************************************************)
(* The tree of hashes of a block: its root in the header, and the branch   *)
(* of a transaction that the wallet keeps. A hash is what was hashed: <<t>> *)
(* for a transaction t, <<a, b>> for two hashes.                           *)
(***************************************************************************)
Leaves(vtx) == [i \in DOMAIN vtx |-> <<vtx[i]>>]

\* Each pair of a level gives a hash of the next; an odd last one is paired
\* with itself.
Above(level) ==
    [i \in 1 .. (Len(level) + 1) \div 2 |->
        <<level[2 * i - 1], level[Min({2 * i, Len(level)})]>>]

RECURSIVE Levels(_)
Levels(level) ==
    IF Len(level) <= 1 THEN <<level>> ELSE <<level>> \o Levels(Above(level))

BuildMerkleTree(vtx) == Last(Levels(Leaves(vtx)))[1]

\* The neighbour of place nIndex, counted from 0, in a level.
Sibling(level, nIndex) ==
    level[1 + Min({IF nIndex % 2 = 0 THEN nIndex + 1 ELSE nIndex - 1, Len(level) - 1})]

GetMerkleBranch(vtx, nIndex) ==
    LET levels == Levels(Leaves(vtx))
    IN  [k \in 1 .. Len(levels) - 1 |-> Sibling(levels[k], nIndex \div 2 ^ (k - 1))]

\* Mutant: the other side always stands on the right.
CheckOnTheRight(hash, branch, nIndex) ==
    FoldLeft(LAMBDA h, other : <<h, other>>, hash, branch)

CheckMerkleBranch(hash, branch, nIndex) ==
    FoldLeft(LAMBDA h, k : IF (nIndex \div 2 ^ (k - 1)) % 2 = 1
                           THEN <<branch[k], h>> ELSE <<h, branch[k]>>,
             hash, [k \in DOMAIN branch |-> k])

\* Mutant: a block may name a transaction twice.
AnyTransactions(vtx) == TRUE

\* CheckBlock: no two transactions have one hash.
UniqueTransactions(vtx) == IsInjective(vtx)

-----------------------------------------------------------------------------
(***************************************************************************)
(* CBlockLocator: a few blocks of a chain, ever farther apart, from which  *)
(* whoever has another chain finds where the two fork. Two chains have a   *)
(* fork, the height up to which they are the same; the receiver has the    *)
(* blocks of a locator up to there in its main chain.                      *)
(***************************************************************************)
\* Set: the heights of the blocks, the genesis block again at the end.
RECURSIVE Back(_, _, _)
Back(height, n, nStep) ==
    IF height < 0 THEN <<0>>
    ELSE <<height>> \o Back(height - nStep, n + 1, IF n > 10 THEN 2 * nStep ELSE nStep)
LocatorOf(tip) == Back(tip, 1, 1)

InMainChain(height, fork) == height <= fork

\* GetBlockIndex; the genesis block is in every chain.
FoundAt(vHave, fork) == SelectInSeq(vHave, LAMBDA h : InMainChain(h, fork))
FoundBlock(vHave, fork) == vHave[FoundAt(vHave, fork)]

\* Mutant: the steps are thought to grow one block later.
RetraceLate(n) ==
    LET step[i \in Nat] == IF i <= 12 THEN 1 ELSE 2 * step[i - 1]
        back[i \in Nat] == IF i = 1 THEN 0 ELSE back[i - 1] + step[i - 1]
    IN  back[n]

\* GetDistanceBack: how far back the n-th block of a locator is, found from the
\* distances alone.
Retrace(n) ==
    LET grow(s) == LET d == s.distance + s.step
                   IN  [distance |-> d, step |-> IF d > 10 THEN 2 * s.step ELSE s.step]
        after[i \in Nat] ==
            IF i = 1 THEN [distance |-> 0, step |-> 1] ELSE grow(after[i - 1])
    IN  after[n].distance
GetDistanceBack(vHave, fork) == Retrace(FoundAt(vHave, fork))

\* The getblocks message: the last height that is announced, by a receiver
\* whose chain is long enough.
AnnouncedUpTo(vHave, fork) ==
    FoundBlock(vHave, fork) + MaxAnswer + GetDistanceBack(vHave, fork)

-----------------------------------------------------------------------------
(***************************************************************************)
(* A file of blocks is a sequence of cells: the message start, the size,   *)
(* and the parts of a block; a write that is cut short leaves the first    *)
(* cells of a record, and perhaps part of one.                             *)
(***************************************************************************)
FileBlocks == DOMAIN Sizes
BlockParts(b) == [i \in 1 .. Sizes[b] |-> <<"block", b, i>>]
BlockRecord(b) == <<<<"start">>, <<"size", Sizes[b]>>>> \o BlockParts(b)
StandsAt(f, p, what) ==
    p + Len(what) - 1 <= Len(f.cells) /\ SubSeq(f.cells, p, p + Len(what) - 1) = what

\* What a death of the process leaves of a write.
Torn(b) ==
    LET whole == BlockRecord(b)
        cuts == {SubSeq(whole, 1, k) : k \in 1 .. Len(whole) - 1}
    IN  cuts \cup {Append(cut, <<"part">>) : cut \in cuts} \cup {<<<<"part">>>>}

EmptyFile == [kind |-> "file", cells |-> <<>>, records |-> 0, state |-> "writing",
              pos |-> 1, offered |-> {}, loaded |-> {}]

AppendWhole(f, b) ==
    [f EXCEPT !.cells = @ \o BlockRecord(b), !.records = @ + 1]
AppendTorn(f) ==
    {[f EXCEPT !.cells = @ \o cut, !.records = @ + 1] :
       cut \in UNION {Torn(b) : b \in FileBlocks}}

\* Where the next message start is found, 0 if it is nowhere.
NextStart(f) == SelectInSubSeq(f.cells, f.pos, Len(f.cells), LAMBDA c : c = <<"start">>)

\* A whole block at a place of the file.
BlockAtPlace(f, p) == {b \in FileBlocks : StandsAt(f, p, BlockParts(b))}

Done(f) == [f EXCEPT !.state = "done"]

\* A block was read whose size stands at p: ProcessBlock takes it or refuses
\* it, and only then is it passed over.
Offer(f, p, b) ==
    IF b \in Wanted \ f.loaded
    THEN [f EXCEPT !.offered = @ \cup {b}, !.loaded = @ \cup {b}, !.pos = p + 1 + Sizes[b]]
    ELSE [f EXCEPT !.offered = @ \cup {b}, !.pos = p]

\* Mutant: after garbage the scan goes on behind the size it read.
SkipGarbage(f, p) ==
    {[f EXCEPT !.pos = p + 1 + (IF f.cells[p][1] = "size" THEN f.cells[p][2] ELSE 0)],
     [f EXCEPT !.state = "broken"]}

\* What was read is no block: ProcessBlock refuses it, or reading it fails and
\* the exception ends the import. A size that is torn may also be out of range.
Garbage(f, p) == {[f EXCEPT !.pos = p], [f EXCEPT !.state = "broken"]}

\* One turn of the loop of LoadExternalBlockFile.
ImportTurns(f) ==
    LET start == NextStart(f)
        p == start + 1
    IN  IF Len(f.cells) - f.pos + 1 <= 2 \/ start = 0 THEN {Done(f)}
        ELSE IF p > Len(f.cells) THEN {[f EXCEPT !.state = "broken"]}
        ELSE IF f.cells[p] = <<"start">> THEN {[f EXCEPT !.pos = p]}
        ELSE IF f.cells[p][1] = "size" /\ BlockAtPlace(f, p + 1) # {}
        THEN {Offer(f, p, CHOOSE b \in BlockAtPlace(f, p + 1) : TRUE)}
        ELSE IF f.cells[p][1] = "size" /\ p + f.cells[p][2] > Len(f.cells)
        THEN {[f EXCEPT !.state = "broken"]}
        ELSE Garbage(f, p)
=============================================================================
