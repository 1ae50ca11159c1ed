--------------------------- MODULE HookTrampoline ---------------------------
(***************************************************************************)
(* A call-through hook: hook_thumb, hook_arm (lib/so_util/so_util.c) and   *)
(* SO_CONTINUE (lib/so_util/so_util.h), as so_patch uses them for          *)
(* playMusic and handleTouchesMove, after which soloader_init_all flushes. *)
(* The traces that main() of a GDASH_TRACE build hooks in later are        *)
(* followed by no flush, and are not what this module is about.            *)
(*                                                                         *)
(* Hooking a function overwrites its first two words with a jump: a load   *)
(* of the program counter, and the address it loads.  A Thumb function     *)
(* that starts two bytes past a word boundary has a halfword before these  *)
(* two, the head, which hook_thumb turns into a NOP.  SO_CONTINUE writes   *)
(* the two original words back, flushes, calls the function, and writes    *)
(* the jump again.  The code is shared: any thread may be fetching while   *)
(* another one writes, and an instruction cache holds a line until it is   *)
(* flushed or refilled.                                                    *)
(*                                                                         *)
(* External: the two caches and the writes of                              *)
(* kuKernelCpuUnrestrictedMemcpy, word by word, which is taken not to      *)
(* touch the instruction cache (why the callers flush); and the original,  *)
(* which does not call itself.                                             *)
(***************************************************************************)
EXTENDS Naturals

CONSTANTS Threads,   \* the threads that call the function
          MaxDepth   \* bound: how deep hooks nest in one thread

ASSUME MaxDepthAssumption == MaxDepth \in Nat \ {0}

VARIABLES unaligned, \* constant: it is a Thumb function with a head
          serial,    \* constant: only one thread at a time ever calls it
          mem,     \* the words at the start of the function
          icache,  \* what an instruction fetch sees of them
          phase,   \* how far the loader is
          pc,      \* where a thread is
          depth,   \* how many SO_CONTINUEs a thread is inside of
          skipped, \* the head was a NOP when the thread last passed it
          hooks,   \* history: how often the hook ran for the current call
          ran      \* history: what ran of the original for the current call

setting == <<unaligned, serial>>
code    == <<mem, icache>>
history == <<skipped, hooks, ran>>
vars    == <<setting, code, phase, pc, depth, history>>

Window == {"first", "second"}
Words  == Window \cup {"head"}

\* hook.patch_instr, and the NOP; hook.orig_instr is "code".
Patch(w) == CASE w = "head"  -> "nop"
              [] w = "first" -> "ldr"
              [] w = "second" -> "dst"

CodeType == {m \in [Words -> {"code", "nop", "ldr", "dst"}] :
                \A w \in Words : m[w] \in {"code", Patch(w)}}

TypeOK ==
    /\ unaligned \in BOOLEAN /\ serial \in BOOLEAN
    /\ mem \in CodeType
    /\ icache \in CodeType
    /\ phase \in {"loaded", "hooked", "running"}
    /\ pc \in [Threads -> {"out", "head", "first", "second", "literal", "body",
                           "restore1", "restore2", "flush", "patch1", "patch2",
                           "reflush", "wild"}]
    /\ depth \in [Threads -> 0..MaxDepth]
    /\ skipped \in [Threads -> BOOLEAN]
    /\ hooks \in [Threads -> 0..MaxDepth]
    /\ ran \in [Threads -> {"nothing", "original", "damaged"}]

Init ==
    /\ unaligned \in BOOLEAN /\ serial \in BOOLEAN
    /\ mem = [w \in Words |-> "code"]
    /\ icache = mem
    /\ phase = "loaded"
    /\ pc = [t \in Threads |-> "out"]
    /\ depth = [t \in Threads |-> 0]
    /\ skipped = [t \in Threads |-> FALSE]
    /\ hooks = [t \in Threads |-> 0]
    /\ ran = [t \in Threads |-> "nothing"]

Goto(t, place) == pc' = [pc EXCEPT ![t] = place]
At(t, place)   == pc[t] = place

\* A thread that jumped to a wild address takes the process down.
Alive == \A t \in Threads : pc[t] # "wild"

-----------------------------------------------------------------------------
(* soloader_init_all, before any of the game's code runs.                  *)

\* hook_thumb / hook_arm.  A function without a head keeps what is before it.
Hook ==
    /\ phase = "loaded"
    /\ mem' = [w \in Words |-> IF w = "head" /\ ~unaligned THEN "code"
                              ELSE Patch(w)]
    /\ phase' = "hooked"
    /\ UNCHANGED <<setting, icache, pc, depth, history>>

\* so_flush_caches, after so_patch.
FlushAll ==
    /\ phase = "hooked"
    /\ icache' = mem
    /\ phase' = "running"
    /\ UNCHANGED <<setting, mem, pc, depth, history>>

-----------------------------------------------------------------------------
(* A call: of the game, or of SO_CONTINUE.                                 *)

Entry == IF unaligned THEN "head" ELSE "first"

Call(t) ==
    /\ phase = "running" /\ Alive
    /\ At(t, "out")
    /\ serial => \A u \in Threads : At(u, "out")
    /\ Goto(t, Entry)
    /\ skipped' = [skipped EXCEPT ![t] = FALSE]
    /\ hooks' = [hooks EXCEPT ![t] = 0]
    /\ ran' = [ran EXCEPT ![t] = "nothing"]
    /\ UNCHANGED <<setting, code, phase, depth>>

FetchHead(t) ==
    /\ At(t, "head") /\ Alive
    /\ skipped' = [skipped EXCEPT ![t] = icache["head"] = "nop"]
    /\ Goto(t, "first")
    /\ UNCHANGED <<setting, code, phase, depth, hooks, ran>>

FetchFirst(t) ==
    /\ At(t, "first") /\ Alive
    /\ Goto(t, IF icache["first"] = "ldr" THEN "literal" ELSE "second")
    /\ UNCHANGED <<setting, code, phase, depth, history>>

\* The second word is executed: an address is no instruction.
FetchSecond(t) ==
    /\ At(t, "second") /\ Alive
    /\ Goto(t, IF icache["second"] = "dst" THEN "wild" ELSE "body")
    /\ UNCHANGED <<setting, code, phase, depth, history>>

\* The second word is loaded, as data: an instruction is no address.
LoadLiteral(t) ==
    /\ At(t, "literal") /\ Alive
    /\ IF mem["second"] = "dst"
       THEN /\ hooks[t] < MaxDepth
            /\ hooks' = [hooks EXCEPT ![t] = @ + 1]
            /\ depth' = [depth EXCEPT ![t] = @ + 1]
            /\ Goto(t, "restore1")
       ELSE /\ Goto(t, "wild")
            /\ UNCHANGED <<setting, hooks, depth>>
    /\ UNCHANGED <<setting, code, phase, skipped, ran>>

\* Where a call goes when it returns: into the SO_CONTINUE that made it.
Back(t, level) == Goto(t, IF level > 0 THEN "patch1" ELSE "out")

\* The rest of the original, which is never written.
Body(t) ==
    /\ At(t, "body") /\ Alive
    /\ ran' = [ran EXCEPT ![t] = IF skipped[t] THEN "damaged" ELSE "original"]
    /\ Back(t, depth[t])
    /\ UNCHANGED <<setting, code, phase, depth, skipped, hooks>>

-----------------------------------------------------------------------------
(* SO_CONTINUE, one step per word written and per flush.                   *)

Write(t, place, w, value, next) ==
    /\ At(t, place) /\ Alive
    /\ mem' = [mem EXCEPT ![w] = value]
    /\ Goto(t, next)
    /\ UNCHANGED <<setting, icache, phase, depth, history>>

Flushed == [w \in Words |-> IF w \in Window THEN mem[w] ELSE icache[w]]

Restore1(t) == Write(t, "restore1", "first", "code", "restore2")
Restore2(t) == Write(t, "restore2", "second", "code", "flush")

\* Mutant: the function is called without a flush.
FlushAndCall_Unflushed(t) ==
    /\ At(t, "flush") /\ Alive
    /\ Goto(t, Entry)
    /\ UNCHANGED <<setting, code, phase, depth, history>>

FlushAndCall(t) ==
    /\ At(t, "flush") /\ Alive
    /\ icache' = Flushed
    /\ Goto(t, Entry)
    /\ UNCHANGED <<setting, mem, phase, depth, history>>

\* Mutant: the jump is written only by the outermost SO_CONTINUE.
RePatch1_Outermost(t) ==
    /\ At(t, "patch1") /\ Alive
    /\ mem' = [mem EXCEPT !["first"] =
                    IF \E u \in Threads : u # t /\ depth[u] > 0 THEN @ ELSE "ldr"]
    /\ Goto(t, "patch2")
    /\ UNCHANGED <<setting, icache, phase, depth, history>>

RePatch1(t) == Write(t, "patch1", "first", "ldr", "patch2")

RePatch2(t) == Write(t, "patch2", "second", "dst", "reflush")

FlushAndReturn(t) ==
    /\ At(t, "reflush") /\ Alive
    /\ icache' = Flushed
    /\ depth' = [depth EXCEPT ![t] = @ - 1]
    /\ Back(t, depth[t] - 1)
    /\ UNCHANGED <<setting, mem, phase, history>>

\* External: a line is evicted and read again.
Refill(w) ==
    /\ Alive
    /\ icache[w] # mem[w]
    /\ icache' = [icache EXCEPT ![w] = mem[w]]
    /\ UNCHANGED <<setting, mem, phase, pc, depth, history>>

-----------------------------------------------------------------------------
Fetch(t) == \/ FetchHead(t) \/ FetchFirst(t) \/ FetchSecond(t)
            \/ LoadLiteral(t) \/ Body(t)

Continue(t) == \/ Restore1(t) \/ Restore2(t) \/ FlushAndCall(t)
               \/ RePatch1(t) \/ RePatch2(t) \/ FlushAndReturn(t)

Next == \/ Hook \/ FlushAll
        \/ \E t \in Threads : Call(t) \/ Fetch(t) \/ Continue(t)
        \/ \E w \in Words : Refill(w)

Spec == Init /\ [][Next]_vars

-----------------------------------------------------------------------------
(* Properties.                                                             *)

\* Called one after the other, from any threads, the hook runs once for every call
\* and the original under it, and no stale or half-written word is ever executed,
\* wherever the instruction cache reads the code again.  An original without a head
\* runs as it was compiled; one with a head loses that halfword.
CallsAreClean ==
    serial => \A t \in Threads :
        /\ pc[t] # "wild"
        /\ At(t, "out") => hooks[t] = IF ran[t] = "nothing" THEN 0 ELSE 1
        /\ ~unaligned => ran[t] # "damaged"

\* However calls of several threads overlap, as long as none of them crashed:
\* when no thread is inside SO_CONTINUE the jump is in place, whole, in memory
\* and in the instruction cache.  The hook is never lost.
HookedWhenQuiet ==
    phase = "running" /\ Alive /\ (\A t \in Threads : depth[t] = 0) =>
        \A w \in Window : mem[w] = Patch(w) /\ icache[w] = Patch(w)

\* The hook survives any overlap of calls, and the code is at no time anything but
\* words of the jump and of the original.
HookInv == TypeOK /\ HookedWhenQuiet
=============================================================================
