------------------------- MODULE AbstractAllocator -------------------------
(***************************************************************************)
(* What an allocator of aligned power-of-two blocks promises: the blocks   *)
(* it has handed out are disjoint, and it refuses a request only if no     *)
(* aligned hole of that size is left.                                      *)
(***************************************************************************)
EXTENDS Integers

CONSTANTS
    Capacity, \* the memory is 0 .. Capacity - 1
    Sizes     \* the sizes of blocks

VARIABLES
    blocks, \* the blocks handed out: records of a start and a size
    refused \* the size that the last call refused, or 0

vars == <<blocks, refused>>

Cells(b) == b.at .. b.at + b.size - 1

Aligned == {b \in [at : 0 .. Capacity - 1, size : Sizes] :
                b.at % b.size = 0 /\ b.at + b.size <= Capacity}

Free(b) == \A c \in blocks : Cells(b) \cap Cells(c) = {}

Init == blocks = {} /\ refused = 0

Allocate ==
    \E b \in Aligned :
        /\ Free(b)
        /\ blocks' = blocks \cup {b}
        /\ refused' = 0

Refuse ==
    \E size \in Sizes :
        /\ \A b \in Aligned : b.size = size => ~Free(b)
        /\ refused' = size
        /\ UNCHANGED blocks

Release ==
    \E b \in blocks :
        /\ blocks' = blocks \ {b}
        /\ refused' = 0

Next == Allocate \/ Refuse \/ Release

Spec == Init /\ [][Next]_vars
=============================================================================
