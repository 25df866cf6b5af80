\* Both copy modes, from a nil slice or a retained array of up to two
\* bytes; four arrays in all, so that SetData reallocates, reuses m.data's
\* array and MarshalVT hands out copies, while the caller rewrites what it
\* owns.
CONSTANTS
    NBufs = 4
    MaxCap = 2
    Vals = {0, 1}
SPECIFICATION Spec
INVARIANT TypeOK
INVARIANT MessageIntact
INVARIANT CallerMemoryIntact
