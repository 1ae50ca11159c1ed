---------------------------- MODULE MCPthrMutex -----------------------------
(* Two threads and two objects over a table of two entries: enough for two *)
(* first users of one object, for an address that is reused, and, with two *)
(* entries of one address, for a table that is full.  Beside them, the lock *)
(* of the table with three threads over two entries, a read-write lock of   *)
(* two threads, and two attributes over three heap blocks.                  *)
EXTENDS PthrMutex, TableLock, RwLock, ThreadAttr, TLC

CONSTANTS t1, t2, l1, l2, l3, o1, o2, b1, b2, b3

MCThreads == {t1, t2}
MCObjects == {o1, o2}
MCBlocks  == {b1, b2}
MCAttrBlocks == {b1, b2, b3}
MCLockUsers == {l1, l2, l3}
MCSymmetry == Permutations(MCThreads) \cup Permutations(MCObjects)
              \cup Permutations(MCBlocks) \cup Permutations(MCLockUsers)

\* The four share no variable: each moves while the others have not begun.
ObjectsInit == Init /\ LockInit /\ RwInit /\ AttrInit
ObjectsNext ==
    \/ LockInit /\ RwInit /\ AttrInit /\ Next /\ UNCHANGED <<lockVars, rwVars, attrVars>>
    \/ Init /\ RwInit /\ AttrInit /\ LockNext /\ UNCHANGED <<vars, rwVars, attrVars>>
    \/ Init /\ LockInit /\ AttrInit /\ RwNext /\ UNCHANGED <<vars, lockVars, attrVars>>
    \/ Init /\ LockInit /\ RwInit /\ AttrNext /\ UNCHANGED <<vars, lockVars, rwVars>>
ObjectsSpec == ObjectsInit /\ [][ObjectsNext]_<<vars, lockVars, rwVars, attrVars>>
=============================================================================
