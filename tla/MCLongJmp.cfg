SPECIFICATION ProcessSpec
CONSTANTS
    t1 = t1
    t2 = t2
    t3 = t3
    Threads <- MCThreads
    Controls <- MCControls
    Callers <- MCCallers
    Deep = 3
INVARIANT JumpReturns
