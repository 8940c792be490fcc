\* Pools of three and two slots, three strings: each pool fills, a small
\* string falls through to the second pool, strings move up a pool and to
\* the heap.
CONSTANTS
    SlotSizes <- MCSlotSizes
    SlotCounts <- MCSlotCounts
    Strs <- MCStrs
    Lens <- MCLens
    Align = 16
    Null = Null
    s1 = s1
    s2 = s2
    s3 = s3
SPECIFICATION Spec
INVARIANT TypeOK
INVARIANT ReallocCopiesString
PROPERTY ImplementsSlabArena
