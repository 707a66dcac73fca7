CONSTANTS
    Thread = {t1, t2}
    Source = {s1, s2}
    Context = {c1, c2}
    NoContext = NoContext
    MaxCalls = 4
    None = None

SPECIFICATION FairSpec

INVARIANTS
    TypeOK
    CompiledOnce

PROPERTIES
    MemoSpec
    CallsEnd
