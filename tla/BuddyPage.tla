----------------------------- MODULE BuddyPage -----------------------------
(***************************************************************************)
(* buddy::page of gc_prototype.cpp: a buffer that is split into halves,    *)
(* down to blocks of 32 bytes, and merged again.  Each block begins with a *)
(* header, each level has a list of its free blocks.                       *)
(*                                                                         *)
(* Offsets count 32 bytes.  The list nodes, which are taken from a pool    *)
(* that grows and are linked with their headers both ways, are named by    *)
(* the block they are linked with.                                         *)
(***************************************************************************)
EXTENDS Integers, Sequences, SequencesExt

CONSTANTS
    TopLevel, \* _top_level: the buffer is 2^TopLevel blocks of 32 bytes
    Lengths   \* the lengths in bytes that are asked for

MinSize == 32
HeaderSize == 16

Levels  == 0 .. TopLevel
Offsets == 0 .. 2^TopLevel - 1

ASSUME TopLevelAssumption == TopLevel \in Nat

\* The code reads the list of the wanted level before it compares the level
\* with _top_level: no request is for more than the page.
ASSUME LengthsAssumption ==
    Lengths \subseteq Nat \ {0} /\ \A len \in Lengths : len + HeaderSize < MinSize * 2^TopLevel

\* level_of (next_pow_2 (len + sizeof (header))): next_pow_2 of a power of two
\* is the power after it.
LevelFor(len) == Min({l \in Levels : len + HeaderSize < MinSize * 2^l})

VARIABLES
    header,     \* what is at each offset: a header, or other bytes
    freeLevels, \* _free_levels: the free blocks of each level
    live,       \* ghost: the blocks that were handed out and not freed
    refused     \* ghost: the size, in blocks of 32 bytes, that the last call refused, or 0

pageVars == <<header, freeLevels, live, refused>>

Header(isFree, l) == [free |-> isFree, level |-> l]

\* Bytes that are not a header: never written, or an object's.
Bytes == [free |-> FALSE, level |-> -1]

PageTypeOK ==
    /\ header \in [Offsets -> [free : BOOLEAN, level : Levels] \cup {Bytes}]
    /\ freeLevels \in [Levels -> Seq(Offsets)]
    /\ live \subseteq Offsets
    /\ refused \in {2^l : l \in Levels} \cup {0}

PageInit ==
    /\ header = [o \in Offsets |-> IF o = 0 THEN Header(TRUE, TopLevel) ELSE Bytes]
    /\ freeLevels = [l \in Levels |-> IF l = TopLevel THEN <<0>> ELSE <<>>]
    /\ live = {}
    /\ refused = 0

\* find_buddy: the offset with bit l flipped.
Buddy(h, l) == IF (h \div 2^l) % 2 = 0 THEN h + 2^l ELSE h - 2^l

\* The levels at which a block of level want can be found.
Fitting(want) == {l \in want .. TopLevel : freeLevels[l] # <<>>}

\* The list from which a block of level want is taken, and the block.
FoundLevel(want) == Min(Fitting(want))
Found(want) == Head(freeLevels[FoundLevel(want)])

\* The block is taken from its list, its upper halves are given to the lists
\* below; then the object is written.
Allocate(len) ==
    LET want  == LevelFor(len)
        h     == Found(want)
        split == want .. FoundLevel(want) - 1
    IN  /\ Fitting(want) # {}
        /\ header' = [o \in Offsets |->
              IF o = h THEN Header(FALSE, want)
              ELSE IF \E l \in split : o = Buddy(h, l)
              THEN Header(TRUE, CHOOSE l \in split : o = Buddy(h, l))
              ELSE IF o \in h .. h + 2^want - 1 THEN Bytes ELSE header[o]]
        /\ freeLevels' = [l \in Levels |->
              IF l \in split THEN <<Buddy(h, l)>> \o freeLevels[l]
              ELSE IF l = FoundLevel(want) THEN Tail(freeLevels[l]) ELSE freeLevels[l]]
        /\ live' = live \cup {h}
        /\ refused' = 0

\* "out of memory" is thrown.
AllocateFails(len) ==
    /\ Fitting(LevelFor(len)) = {}
    /\ refused' = 2^LevelFor(len)
    /\ UNCHANGED <<header, freeLevels, live>>

\* Seeded defect: the header is not that of the left half.
LeftmostAsFreed(h, l) == h

\* The header of the block of level l that h is part of.
Leftmost(h, l) == h - (h % 2^l)

\* The block of level l that h has grown to can be merged with its buddy.
Merges(h, l) ==
    LET b == header[Buddy(Leftmost(h, l), l)]
    IN  b.free /\ b.level = l

\* remove: the node linked with block b is taken out of its list.
Without(list, b) == RemoveAt(list, CHOOSE i \in DOMAIN list : list[i] = b)

\* Seeded defect: a free block stays as it is.
FreeWithoutMerging(h) ==
    LET level == header[h].level
    IN  /\ h \in live
        /\ header' = [header EXCEPT ![h].free = TRUE]
        /\ freeLevels' = [freeLevels EXCEPT ![level] = <<h>> \o @]
        /\ live' = live \ {h}
        /\ refused' = 0

\* The buddies are taken from their lists as long as they are free and whole,
\* and the leftmost header becomes that of the merged block.
Free(h) ==
    LET level  == header[h].level
        top    == Min({l \in level .. TopLevel : l = TopLevel \/ ~Merges(h, l)})
        merged == level .. top - 1
    IN  /\ h \in live
        /\ header' = [o \in Offsets |->
              IF o = Leftmost(h, top) THEN Header(TRUE, top)
              ELSE IF \E l \in merged : o = Buddy(Leftmost(h, l), l)
              THEN [header[o] EXCEPT !.free = FALSE] ELSE header[o]]
        /\ freeLevels' = [l \in Levels |->
              IF l \in merged THEN Without(freeLevels[l], Buddy(Leftmost(h, l), l))
              ELSE IF l = top THEN <<Leftmost(h, l)>> \o freeLevels[l] ELSE freeLevels[l]]
        /\ live' = live \ {h}
        /\ refused' = 0

-----------------------------------------------------------------------------
\* The free blocks, with the level of their list.
FreeBlocks == {b \in Offsets \X Levels : b[1] \in ToSet(freeLevels[b[2]])}

Cells(h, l) == h .. h + 2^l - 1

\* The blocks handed out and the blocks of the free lists cover each offset of
\* the buffer once, and what their headers say is true: no block is lost,
\* listed twice, or listed while part of it is in use.
BlocksTile ==
    LET tiles == FreeBlocks \cup {<<h, header[h].level>> : h \in live}
    IN  /\ \A o \in Offsets : \E t \in tiles : o \in Cells(t[1], t[2])
        /\ \A s, t \in tiles : s # t => Cells(s[1], s[2]) \cap Cells(t[1], t[2]) = {}
        /\ \A h \in live : ~header[h].free
        /\ \A b \in FreeBlocks : header[b[1]] = Header(TRUE, b[2])
        /\ \A l \in Levels : \A i, j \in DOMAIN freeLevels[l] :
              freeLevels[l][i] = freeLevels[l][j] => i = j

Abstract == INSTANCE AbstractAllocator WITH
    Capacity <- 2^TopLevel,
    Sizes <- {2^l : l \in Levels},
    blocks <- {[at |-> h, size |-> 2^header[h].level] : h \in live}

\* The page hands out disjoint aligned blocks, and refuses only what no merging
\* of free blocks could satisfy: after any sequence of splits and merges, free
\* buddies are one block.
IsAllocator == Abstract!Spec
=============================================================================
