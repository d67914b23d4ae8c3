----------------------------- MODULE MCTypeMap -----------------------------
EXTENDS TypeMap

CONSTANTS SomeIds, MaxLength

\* All sequences of up to MaxLength ids, repeated ones among them.
ShortSequences == UNION {[1 .. n -> SomeIds] : n \in 0 .. MaxLength}

=============================================================================
