\* Two threads, two blocks (a Realloc() can move one to the other, and the heap
\* still runs out), one pointer of the override hooks, and three changes of
\* the hooks.
CONSTANTS
    Threads = {t1, t2}
    Blocks = {b1, b2}
    Foreign = {f1}
    MaxHookChanges = 3
    Null = Null
SYMMETRY Symmetry
\* The process ends in OutOfMemory() when Alloc() finds the heap exhausted.
CHECK_DEADLOCK FALSE
SPECIFICATION Spec
INVARIANTS
    ObserverLedgerIsLive
    OverridePointersStayOutside
    ReallocKeepsOrReplaces
