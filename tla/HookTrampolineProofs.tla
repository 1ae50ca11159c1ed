------------------------ MODULE HookTrampolineProofs ------------------------
(***************************************************************************)
(* For any number of threads and any nesting: the words of a hooked        *)
(* function, that the hook survives any overlap of calls, and that calls   *)
(* one after the other execute no stale and no half-written word.          *)
(***************************************************************************)
EXTENDS HookTrampoline, TLAPS

-----------------------------------------------------------------------------
(* The inductive invariant.                                                *)

Places == {"out", "head", "first", "second", "literal", "body", "restore1",
           "restore2", "flush", "patch1", "patch2", "reflush", "wild"}
Inside == {"restore1", "restore2", "flush", "patch1", "patch2", "reflush"}

\* Only a call that reached the jump is inside SO_CONTINUE, and no oftener than
\* its hook ran; nobody calls before the caches were flushed.
Nesting ==
    /\ \A t \in Threads : /\ depth[t] =< hooks[t]
                          /\ pc[t] \in Inside => depth[t] > 0
                          /\ pc[t] = "out" => depth[t] = 0
    /\ phase # "running" => \A t \in Threads : pc[t] = "out"

\* A thread that has yet to write a word of the jump back, and one that has yet
\* to flush.
OwesFirst(t)  == depth[t] > 1 \/ (depth[t] = 1 /\ pc[t] \notin {"patch2", "reflush"})
OwesSecond(t) == depth[t] > 1 \/ (depth[t] = 1 /\ pc[t] # "reflush")

\* The loader's flush begins it; after that, what is not the jump is owed by
\* somebody, in memory and in the cache.
Owed ==
    /\ phase = "loaded" \/ mem["first"] = "ldr" \/ \E t \in Threads : OwesFirst(t)
    /\ phase = "loaded" \/ mem["second"] = "dst" \/ \E t \in Threads : OwesSecond(t)
    /\ phase = "running" =>
          \A w \in Window : icache[w] = Patch(w) \/ \E t \in Threads : depth[t] > 0

OverlapInv == TypeOK /\ Nesting /\ Owed

\* What memory and the cache hold while one thread alone is in a call, by how
\* far it is.  The cache may be ahead of a flush, a word at a time.
Patched(m)  == m["first"] = "ldr" /\ m["second"] = "dst"
Original(m) == m["first"] = "code" /\ m["second"] = "code"

Alone(t) ==
    /\ \A u \in Threads : u # t => pc[u] = "out"
    /\ hooks[t] = depth[t] /\ depth[t] =< 1
    /\ pc[t] \in {"second", "body"} => depth[t] = 1
    /\ pc[t] = "literal" => depth[t] = 0
    /\ pc[t] \notin {"patch1", "patch2", "reflush"} <=> ran[t] = "nothing"
    /\ pc[t] # "wild"
    /\ CASE depth[t] = 0 \/ pc[t] = "restore1" -> Patched(mem) /\ Patched(icache)
         [] pc[t] = "restore2" -> /\ mem["first"] = "code" /\ mem["second"] = "dst"
                                  /\ icache["second"] = "dst"
         [] pc[t] = "flush"    -> Original(mem)
         [] pc[t] = "patch2"   -> /\ mem["first"] = "ldr" /\ mem["second"] = "code"
                                  /\ icache["second"] = "code"
         [] pc[t] = "reflush"  -> Patched(mem)
         [] OTHER              -> Original(mem) /\ Original(icache)

SerialInv ==
    serial =>
        /\ \A t \in Threads :
              /\ pc[t] # "out" => Alone(t)
              /\ pc[t] = "out" => hooks[t] = IF ran[t] = "nothing" THEN 0 ELSE 1
        /\ phase = "running" /\ (\A t \in Threads : pc[t] = "out") =>
              Patched(mem) /\ Patched(icache)

\* A function without a head has nothing to skip.
Headless ==
    ~unaligned => \A t \in Threads :
        pc[t] # "head" /\ ~skipped[t] /\ ran[t] # "damaged"

LEMMA CodeRules ==
    /\ \A m \in CodeType : /\ m \in [Words -> {"code", "nop", "ldr", "dst"}]
                           /\ m["first"] \in {"code", "ldr"}
                           /\ m["second"] \in {"code", "dst"}
                           /\ m["head"] \in {"code", "nop"}
    /\ \A m \in [Words -> {"code", "nop", "ldr", "dst"}] :
          /\ m["first"] \in {"code", "ldr"} /\ m["second"] \in {"code", "dst"}
          /\ m["head"] \in {"code", "nop"}
          => m \in CodeType
    /\ Words = {"first", "second", "head"} /\ Window = {"first", "second"}
    /\ Patch("first") = "ldr" /\ Patch("second") = "dst" /\ Patch("head") = "nop"
BY DEF CodeType, Words, Window, Patch

LEMMA WriteType ==
    ASSUME NEW m \in CodeType, NEW w \in Words, NEW v \in {"code", Patch(w)}
    PROVE  [m EXCEPT ![w] = v] \in CodeType
BY DEF CodeType, Words, Window, Patch

LEMMA FlushedType ==
    ASSUME mem \in CodeType, icache \in CodeType
    PROVE  /\ Flushed \in CodeType
           /\ Flushed["first"] = mem["first"] /\ Flushed["second"] = mem["second"]
BY DEF CodeType, Words, Window, Flushed

LEMMA OverlapInitially == Init => OverlapInv
<1> SUFFICES ASSUME Init PROVE OverlapInv
  OBVIOUS
<1>1. TypeOK
  BY MaxDepthAssumption DEF Init, TypeOK, CodeType, Words, Window
<1>2. Nesting /\ Owed
  BY DEF Init, Nesting, Owed, Inside
<1> QED BY <1>1, <1>2 DEF OverlapInv


-----------------------------------------------------------------------------
(* Overlapping calls.                                                      *)

\* A step that leaves the code and the nesting alone moves a thread that owes
\* nothing, or not past the words it owes.
LEMMA MoveKeeps ==
    ASSUME OverlapInv, NEW t \in Threads, NEW place \in Places \ {"out"},
           pc' = [pc EXCEPT ![t] = place], phase = "running",
           UNCHANGED <<setting, code, phase, depth>>,
           skipped' \in [Threads -> BOOLEAN], hooks' \in [Threads -> 0..MaxDepth],
           ran' \in [Threads -> {"nothing", "original", "damaged"}],
           \A u \in Threads : depth[u] =< hooks'[u],
           place \in Inside => depth[t] > 0,
           depth[t] = 0 \/ place \notin {"patch2", "reflush"}
    PROVE  OverlapInv'
<1> USE DEF OverlapInv, setting, code
<1>1. TypeOK'
  BY DEF TypeOK, Places
<1>2. Nesting'
  BY DEF Nesting, TypeOK
<1>3. \A u \in Threads : /\ OwesFirst(u) => OwesFirst(u)'
                         /\ OwesSecond(u) => OwesSecond(u)'
  BY DEF OwesFirst, OwesSecond, TypeOK
<1>4. Owed'
  BY <1>3 DEF Owed
<1> QED BY <1>1, <1>2, <1>4

\* A thread that writes a word of the original still owes it; one that writes a
\* word of the jump owes it no more, and it is there.
LEMMA WriteKeeps ==
    ASSUME OverlapInv, NEW t \in Threads, NEW from \in Inside, NEW next \in Inside,
           NEW w \in Window, NEW v \in {"code", Patch(w)},
           Write(t, from, w, v, next),
           \/ v = "code" /\ from \in {"restore1", "restore2"} /\ next \in {"restore2", "flush"}
           \/ v = "ldr" /\ w = "first" /\ from = "patch1" /\ next = "patch2"
           \/ v = "dst" /\ w = "second" /\ from = "patch2" /\ next = "reflush"
    PROVE  OverlapInv'
<1> USE DEF OverlapInv
<1>1. /\ pc[t] = from /\ mem' = [mem EXCEPT ![w] = v] /\ pc' = [pc EXCEPT ![t] = next]
      /\ UNCHANGED <<unaligned, serial, icache, phase, depth, skipped, hooks, ran>>
  BY DEF Write, At, Goto, setting, history
<1>2. mem' \in CodeType /\ w \in Words
  BY <1>1, WriteType, CodeRules DEF TypeOK
<1>3. TypeOK'
  BY <1>1, <1>2 DEF TypeOK, Inside
<1>4. phase = "running" /\ depth[t] > 0 /\ depth[t] \in Nat
  BY <1>1 DEF Nesting, TypeOK, Inside
<1>5. Nesting'
  BY <1>1, <1>4 DEF Nesting, TypeOK, Inside
<1>6. /\ mem'[w] = v
      /\ w = "first" => mem'["second"] = mem["second"]
      /\ w = "second" => mem'["first"] = mem["first"]
  BY <1>1, CodeRules DEF TypeOK
<1>7. \A u \in Threads : u # t => /\ OwesFirst(u) => OwesFirst(u)'
                                  /\ OwesSecond(u) => OwesSecond(u)'
  BY <1>1 DEF OwesFirst, OwesSecond, TypeOK
<1>8. /\ next \in {"restore2", "flush"} => OwesFirst(t)' /\ OwesSecond(t)'
      /\ next = "patch2" => OwesSecond(t)'
      /\ next = "reflush" => (OwesFirst(t) => OwesFirst(t)')
  BY <1>1, <1>4 DEF OwesFirst, OwesSecond, TypeOK
<1>9. phase' # "loaded"
  BY <1>1, <1>4
<1>10. mem'["first"] = "ldr" \/ \E u \in Threads : OwesFirst(u)'
  <2>1. CASE next \in {"restore2", "flush"}
    BY <2>1, <1>8
  <2>2. CASE next = "patch2"
    BY <2>2, <1>6
  <2>3. CASE next = "reflush"
    BY <2>3, <1>4, <1>6, <1>7, <1>8 DEF Owed
  <2> QED BY <2>1, <2>2, <2>3
<1>11. mem'["second"] = "dst" \/ \E u \in Threads : OwesSecond(u)'
  <2>1. CASE next \in {"restore2", "flush", "patch2"}
    BY <2>1, <1>8
  <2>2. CASE next = "reflush"
    BY <2>2, <1>6
  <2> QED BY <2>1, <2>2
<1>12. \E u \in Threads : depth'[u] > 0
  BY <1>1, <1>4
<1>13. Owed'
  BY <1>10, <1>11, <1>12 DEF Owed
<1> QED BY <1>3, <1>5, <1>13

LEMMA CallOverlaps == ASSUME OverlapInv, NEW t \in Threads, Call(t) PROVE OverlapInv'
<1>1. /\ phase = "running" /\ pc[t] = "out" /\ pc' = [pc EXCEPT ![t] = Entry]
      /\ skipped' = [skipped EXCEPT ![t] = FALSE]
      /\ hooks' = [hooks EXCEPT ![t] = 0] /\ ran' = [ran EXCEPT ![t] = "nothing"]
      /\ UNCHANGED <<setting, code, phase, depth>>
  BY DEF Call, At, Goto
<1>2. depth[t] = 0
  BY <1>1 DEF OverlapInv, Nesting
<1>3. /\ skipped' \in [Threads -> BOOLEAN] /\ hooks' \in [Threads -> 0..MaxDepth]
      /\ ran' \in [Threads -> {"nothing", "original", "damaged"}]
  BY <1>1, MaxDepthAssumption DEF OverlapInv, TypeOK
<1>4. \A u \in Threads : depth[u] =< hooks'[u]
  BY <1>1, <1>2, MaxDepthAssumption DEF OverlapInv, TypeOK, Nesting
<1>5. Entry \in Places \ {"out"} /\ Entry \notin Inside
  BY DEF Entry, Places, Inside
<1> QED BY <1>1, <1>2, <1>3, <1>4, <1>5, MoveKeeps

LEMMA FetchOverlaps == ASSUME OverlapInv, NEW t \in Threads, Fetch(t) PROVE OverlapInv'
<1> USE DEF OverlapInv
<1>a. ASSUME pc[t] # "out" PROVE phase = "running"
  BY <1>a DEF Nesting
<1>1. CASE FetchHead(t)
  <2>1. /\ pc[t] = "head" /\ pc' = [pc EXCEPT ![t] = "first"]
        /\ skipped' = [skipped EXCEPT ![t] = icache["head"] = "nop"]
        /\ UNCHANGED <<setting, code, phase, depth, hooks, ran>>
    BY <1>1 DEF FetchHead, At, Goto
  <2>2. skipped' \in [Threads -> BOOLEAN]
    BY <2>1 DEF TypeOK
  <2> QED BY <1>a, <2>1, <2>2, MoveKeeps DEF TypeOK, Nesting, Places, Inside
<1>2. CASE FetchFirst(t)
  <2>1. PICK place \in {"literal", "second"} : pc' = [pc EXCEPT ![t] = place]
    BY <1>2 DEF FetchFirst, At, Goto
  <2>2. pc[t] = "first" /\ UNCHANGED <<setting, code, phase, depth, skipped, hooks, ran>>
    BY <1>2 DEF FetchFirst, At, history
  <2> QED BY <1>a, <2>1, <2>2, MoveKeeps DEF TypeOK, Nesting, Places, Inside
<1>3. CASE FetchSecond(t)
  <2>1. PICK place \in {"wild", "body"} : pc' = [pc EXCEPT ![t] = place]
    BY <1>3 DEF FetchSecond, At, Goto
  <2>2. pc[t] = "second" /\ UNCHANGED <<setting, code, phase, depth, skipped, hooks, ran>>
    BY <1>3 DEF FetchSecond, At, history
  <2> QED BY <1>a, <2>1, <2>2, MoveKeeps DEF TypeOK, Nesting, Places, Inside
<1>4. CASE LoadLiteral(t)
  <2>1. pc[t] = "literal" /\ UNCHANGED <<setting, code, phase, skipped, ran>>
    BY <1>4 DEF LoadLiteral, At
  <2>2. CASE mem["second"] = "dst"
    <3>1. /\ hooks[t] < MaxDepth /\ hooks' = [hooks EXCEPT ![t] = hooks[t] + 1]
          /\ depth' = [depth EXCEPT ![t] = depth[t] + 1]
          /\ pc' = [pc EXCEPT ![t] = "restore1"]
      BY <1>4, <2>2 DEF LoadLiteral, Goto
    <3>2. /\ depth[t] \in Nat /\ hooks[t] \in Nat /\ depth[t] =< hooks[t]
          /\ depth'[t] = depth[t] + 1 /\ \A u \in Threads : u # t => depth'[u] = depth[u]
      BY <3>1 DEF TypeOK, Nesting
    <3>3. TypeOK'
      BY <2>1, <3>1, <3>2, MaxDepthAssumption DEF TypeOK, setting, code
    <3>4. Nesting'
      BY <1>a, <2>1, <3>1, <3>2 DEF TypeOK, Nesting, Inside
    <3>5. \A u \in Threads : /\ OwesFirst(u) => OwesFirst(u)'
                             /\ OwesSecond(u) => OwesSecond(u)'
                             /\ depth[u] > 0 => depth'[u] > 0
      BY <3>1, <3>2 DEF OwesFirst, OwesSecond, TypeOK
    <3>6. Owed'
      BY <2>1, <3>5 DEF Owed, code
    <3> QED BY <3>3, <3>4, <3>6
  <2>3. CASE mem["second"] # "dst"
    <3>1. pc' = [pc EXCEPT ![t] = "wild"] /\ UNCHANGED <<hooks, depth>>
      BY <1>4, <2>3 DEF LoadLiteral, Goto
    <3> QED BY <1>a, <2>1, <3>1, MoveKeeps DEF TypeOK, Nesting, Places, Inside
  <2> QED BY <2>2, <2>3
<1>5. CASE Body(t)
  <2>1. /\ pc[t] = "body" /\ UNCHANGED <<setting, code, phase, depth, skipped, hooks>>
        /\ pc' = [pc EXCEPT ![t] = IF depth[t] > 0 THEN "patch1" ELSE "out"]
    BY <1>5 DEF Body, At, Back, Goto
  <2>2. ran' \in [Threads -> {"nothing", "original", "damaged"}]
    BY <1>5 DEF Body, TypeOK
  <2>3. CASE depth[t] > 0
    BY <1>a, <2>1, <2>2, <2>3, MoveKeeps DEF TypeOK, Nesting, Places, Inside
  <2>4. CASE depth[t] = 0
    <3>1. pc' = [pc EXCEPT ![t] = "out"]
      BY <2>1, <2>4
    <3>2. TypeOK'
      BY <2>1, <2>2, <3>1 DEF TypeOK, setting, code
    <3>3. Nesting'
      BY <1>a, <2>1, <2>4, <3>1 DEF Nesting, TypeOK, Inside
    <3>4. \A u \in Threads : /\ OwesFirst(u) => OwesFirst(u)'
                             /\ OwesSecond(u) => OwesSecond(u)'
      BY <2>1, <2>4, <3>1 DEF OwesFirst, OwesSecond, TypeOK
    <3>5. Owed'
      BY <2>1, <3>4 DEF Owed, code
    <3> QED BY <3>2, <3>3, <3>5
  <2> QED BY <2>3, <2>4 DEF TypeOK
<1> QED BY <1>1, <1>2, <1>3, <1>4, <1>5 DEF Fetch

LEMMA ContinueOverlaps ==
    ASSUME OverlapInv, NEW t \in Threads, Continue(t) PROVE OverlapInv'
<1> USE DEF OverlapInv
<1>1. CASE Restore1(t)
  BY <1>1, WriteKeeps, CodeRules DEF Restore1, Inside
<1>2. CASE Restore2(t)
  BY <1>2, WriteKeeps, CodeRules DEF Restore2, Inside
<1>3. CASE FlushAndCall(t)
  <2>1. /\ pc[t] = "flush" /\ icache' = Flushed /\ pc' = [pc EXCEPT ![t] = Entry]
        /\ UNCHANGED <<setting, mem, phase, depth, skipped, hooks, ran>>
    BY <1>3 DEF FlushAndCall, At, Goto, history
  <2>2. Entry \in Places \ {"out"} /\ Entry \notin Inside
    BY DEF Entry, Places, Inside
  <2>3. phase = "running" /\ depth[t] > 0
    BY <2>1 DEF Nesting, Inside
  <2>4. TypeOK'
    BY <2>1, <2>2, FlushedType DEF TypeOK, setting, Places
  <2>5. Nesting'
    BY <2>1, <2>2, <2>3 DEF Nesting, TypeOK
  <2>6. \A u \in Threads : /\ OwesFirst(u) => OwesFirst(u)'
                           /\ OwesSecond(u) => OwesSecond(u)'
    BY <2>1, <2>2 DEF OwesFirst, OwesSecond, TypeOK, Inside
  <2>7. Owed'
    BY <2>1, <2>3, <2>6 DEF Owed
  <2> QED BY <2>4, <2>5, <2>7
<1>4. CASE RePatch1(t)
  BY <1>4, WriteKeeps, CodeRules DEF RePatch1, Inside
<1>5. CASE RePatch2(t)
  BY <1>5, WriteKeeps, CodeRules DEF RePatch2, Inside
<1>6. CASE FlushAndReturn(t)
  <2> DEFINE place == IF depth[t] - 1 > 0 THEN "patch1" ELSE "out"
  <2>1. /\ pc[t] = "reflush" /\ icache' = Flushed
        /\ depth' = [depth EXCEPT ![t] = depth[t] - 1]
        /\ pc' = [pc EXCEPT ![t] = place]
        /\ UNCHANGED <<setting, mem, phase, skipped, hooks, ran>>
    BY <1>6 DEF FlushAndReturn, At, Back, Goto, history
  <2>2. phase = "running" /\ depth[t] > 0 /\ depth[t] \in Nat
    BY <2>1 DEF Nesting, Inside, TypeOK
  <2>3. TypeOK'
    BY <2>1, <2>2, FlushedType, MaxDepthAssumption DEF TypeOK, setting
  <2>4. Nesting'
    <3>1. \A u \in Threads : u # t => pc'[u] = pc[u] /\ depth'[u] = depth[u]
      BY <2>1 DEF TypeOK
    <3>2. pc'[t] = place /\ depth'[t] = depth[t] - 1 /\ depth[t] =< hooks[t]
      BY <2>1 DEF TypeOK, Nesting
    <3>3. hooks'[t] \in Nat
      BY <2>1 DEF TypeOK
    <3> QED BY <2>1, <2>2, <3>1, <3>2, <3>3 DEF Nesting, Inside
  <2>5. /\ OwesFirst(t) => OwesFirst(t)'
        /\ OwesSecond(t) => OwesSecond(t)'
    BY <2>1, <2>2 DEF OwesFirst, OwesSecond, TypeOK
  <2>6. \A u \in Threads : u # t => /\ OwesFirst(u) => OwesFirst(u)'
                                    /\ OwesSecond(u) => OwesSecond(u)'
    BY <2>1 DEF OwesFirst, OwesSecond, TypeOK
  <2>7. /\ mem'["first"] = "ldr" \/ \E u \in Threads : OwesFirst(u)'
        /\ mem'["second"] = "dst" \/ \E u \in Threads : OwesSecond(u)'
    BY <2>1, <2>2, <2>5, <2>6 DEF Owed
  <2>8. \A u \in Threads : OwesFirst(u)' \/ OwesSecond(u)' => depth'[u] > 0
    BY <2>3 DEF OwesFirst, OwesSecond, TypeOK
  <2>9. icache'["first"] = mem'["first"] /\ icache'["second"] = mem'["second"]
    BY <2>1, FlushedType DEF TypeOK
  <2>10. \A w \in Window : icache'[w] = Patch(w) \/ \E u \in Threads : depth'[u] > 0
    BY <2>7, <2>8, <2>9, CodeRules
  <2>11. Owed'
    BY <2>1, <2>7, <2>10 DEF Owed
  <2> QED BY <2>3, <2>4, <2>11
<1> QED BY <1>1, <1>2, <1>3, <1>4, <1>5, <1>6 DEF Continue

LEMMA OverlapStep == OverlapInv /\ [Next]_vars => OverlapInv'
<1> SUFFICES ASSUME OverlapInv, [Next]_vars PROVE OverlapInv'
  OBVIOUS
<1> USE DEF OverlapInv
<1>1. CASE Hook
  <2>1. /\ phase = "loaded" /\ phase' = "hooked" /\ mem' \in CodeType
        /\ mem'["first"] = "ldr" /\ mem'["second"] = "dst"
        /\ UNCHANGED <<setting, icache, pc, depth, history>>
    BY <1>1 DEF Hook, CodeType, Words, Window, Patch
  <2>2. TypeOK' /\ Nesting'
    BY <2>1 DEF TypeOK, Nesting, setting, history
  <2>3. Owed'
    BY <2>1 DEF Owed
  <2> QED BY <2>2, <2>3
<1>2. CASE FlushAll
  <2>1. /\ phase = "hooked" /\ phase' = "running" /\ icache' = mem
        /\ UNCHANGED <<setting, mem, pc, depth, history>>
    BY <1>2 DEF FlushAll
  <2>2. TypeOK' /\ Nesting'
    BY <2>1 DEF TypeOK, Nesting, setting, history
  <2>3. \A u \in Threads : ~OwesFirst(u) /\ ~OwesSecond(u)
    BY <2>1 DEF Nesting, TypeOK, OwesFirst, OwesSecond
  <2>4. mem["first"] = "ldr" /\ mem["second"] = "dst"
    BY <2>1, <2>3 DEF Owed
  <2>5. Owed'
    BY <2>1, <2>4, CodeRules DEF Owed
  <2> QED BY <2>2, <2>5
<1>3. ASSUME NEW t \in Threads, Call(t) PROVE OverlapInv'
  BY <1>3, CallOverlaps
<1>4. ASSUME NEW t \in Threads, Fetch(t) PROVE OverlapInv'
  BY <1>4, FetchOverlaps
<1>5. ASSUME NEW t \in Threads, Continue(t) PROVE OverlapInv'
  BY <1>5, ContinueOverlaps
<1>6. ASSUME NEW w \in Words, Refill(w) PROVE OverlapInv'
  <2>1. /\ icache' = [icache EXCEPT ![w] = mem[w]]
        /\ UNCHANGED <<setting, mem, phase, pc, depth, history>>
    BY <1>6 DEF Refill
  <2>2. mem[w] \in {"code", Patch(w)}
    BY <1>6 DEF TypeOK, CodeType
  <2>3. TypeOK' /\ Nesting'
    BY <2>1, <2>2, WriteType DEF TypeOK, Nesting, setting, history
  <2>4. \A u \in Threads : OwesFirst(u) \/ OwesSecond(u) => depth[u] > 0
    BY DEF OwesFirst, OwesSecond, TypeOK
  <2>5. /\ icache'["first"] \in {icache["first"], mem["first"]}
        /\ icache'["second"] \in {icache["second"], mem["second"]}
    BY <2>1, CodeRules DEF TypeOK
  <2>6. /\ \A u \in Threads : /\ OwesFirst(u) => OwesFirst(u)'
                              /\ OwesSecond(u) => OwesSecond(u)'
        /\ phase' = phase /\ mem' = mem /\ depth' = depth
    BY <2>1 DEF OwesFirst, OwesSecond
  <2>7. phase = "running" =>
            /\ icache'["first"] = "ldr" \/ \E u \in Threads : depth'[u] > 0
            /\ icache'["second"] = "dst" \/ \E u \in Threads : depth'[u] > 0
    BY <2>4, <2>5, <2>6, CodeRules DEF Owed
  <2>8. Owed'
    BY <2>6, <2>7, CodeRules DEF Owed
  <2> QED BY <2>3, <2>8
<1>7. CASE UNCHANGED vars
  BY <1>7 DEF vars, setting, code, history, TypeOK, Nesting, Owed, OwesFirst, OwesSecond
<1> QED BY <1>1, <1>2, <1>3, <1>4, <1>5, <1>6, <1>7 DEF Next

\* However the calls of any number of threads overlap, however deep they nest:
\* when nobody is inside SO_CONTINUE the jump is whole, in memory and in the
\* instruction cache.  The hook is never lost.
THEOREM HookLasts == Spec => []HookInv
<1>1. OverlapInv => HookInv
  <2> SUFFICES ASSUME OverlapInv, phase = "running", \A t \in Threads : depth[t] = 0
               PROVE  \A w \in Window : mem[w] = Patch(w) /\ icache[w] = Patch(w)
    BY DEF OverlapInv, HookInv, HookedWhenQuiet
  <2>1. ASSUME NEW t \in Threads PROVE ~OwesFirst(t) /\ ~OwesSecond(t)
    <3>1. depth[t] = 0
      OBVIOUS
    <3> QED BY <3>1 DEF OwesFirst, OwesSecond
  <2> QED BY <2>1, CodeRules DEF OverlapInv, Owed
<1> QED BY <1>1, OverlapInitially, OverlapStep, PTL DEF Spec

-----------------------------------------------------------------------------
(* Calls one at a time.                                                    *)

\* It is enough to look at the one thread that moves.
LEMMA OneMoves ==
    ASSUME SerialInv, TypeOK, serial' = serial, phase = "running", phase' = "running",
           NEW t \in Threads, pc'[t] # pc[t] \/ pc[t] # "out",
           \A u \in Threads : u # t => /\ pc'[u] = pc[u] /\ hooks'[u] = hooks[u]
                                       /\ ran'[u] = ran[u],
           serial => /\ \A u \in Threads : u # t => pc[u] = "out"
                     /\ IF pc'[t] = "out"
                        THEN /\ hooks'[t] = IF ran'[t] = "nothing" THEN 0 ELSE 1
                             /\ Patched(mem') /\ Patched(icache')
                        ELSE Alone(t)'
    PROVE  SerialInv'
<1> SUFFICES ASSUME serial PROVE SerialInv'
  BY DEF SerialInv
<1>1. \A u \in Threads : u # t => pc'[u] = "out"
  OBVIOUS
<1>2. \A u \in Threads : pc'[u] = "out" => hooks'[u] = IF ran'[u] = "nothing" THEN 0 ELSE 1
  BY DEF SerialInv
<1>3. \A u \in Threads : pc'[u] # "out" => Alone(u)'
  BY <1>1
<1>4. (\A u \in Threads : pc'[u] = "out") => Patched(mem') /\ Patched(icache')
  OBVIOUS
<1> QED BY <1>2, <1>3, <1>4 DEF SerialInv, Patched

CleanInv == OverlapInv /\ SerialInv /\ Headless

LEMMA CleanInitially == Init => CleanInv
<1> SUFFICES ASSUME Init PROVE CleanInv
  OBVIOUS
<1>1. SerialInv /\ Headless
  BY DEF Init, SerialInv, Headless
<1> QED BY <1>1, OverlapInitially DEF CleanInv

\* What a thread meets on its way: alone, it is where Alone says.
LEMMA AloneMeets ==
    ASSUME CleanInv, serial, NEW t \in Threads, pc[t] # "out"
    PROVE  /\ Alone(t) /\ phase = "running"
           /\ depth[t] \in {0, 1} /\ hooks[t] = depth[t]
           /\ \A u \in Threads : u # t => pc[u] = "out"
<1>1. Alone(t)
  BY DEF CleanInv, SerialInv
<1>2. depth[t] \in Nat
  BY DEF CleanInv, OverlapInv, TypeOK
<1> QED BY <1>1, <1>2 DEF Alone, CleanInv, OverlapInv, Nesting

LEMMA SerialCall == ASSUME CleanInv, NEW t \in Threads, Call(t) PROVE SerialInv'
<1>1. /\ phase = "running" /\ pc[t] = "out" /\ pc' = [pc EXCEPT ![t] = Entry]
      /\ serial => \A u \in Threads : pc[u] = "out"
      /\ hooks' = [hooks EXCEPT ![t] = 0] /\ ran' = [ran EXCEPT ![t] = "nothing"]
      /\ UNCHANGED <<serial, mem, icache, phase, depth>>
  BY DEF Call, At, Goto, setting, code
<1>2. depth[t] = 0
  BY <1>1 DEF CleanInv, OverlapInv, Nesting
<1>3. pc'[t] = Entry /\ Entry \in {"head", "first"} /\ hooks'[t] = 0 /\ ran'[t] = "nothing"
  BY <1>1 DEF Entry, CleanInv, OverlapInv, TypeOK
<1>4. \A u \in Threads : u # t => /\ pc'[u] = pc[u] /\ hooks'[u] = hooks[u]
                                  /\ ran'[u] = ran[u]
  BY <1>1 DEF CleanInv, OverlapInv, TypeOK
<1>5. ASSUME serial PROVE Alone(t)'
  <2>1. Patched(mem) /\ Patched(icache) /\ \A u \in Threads : pc[u] = "out"
    BY <1>1, <1>5 DEF CleanInv, SerialInv
  <2> QED BY <1>1, <1>2, <1>3, <1>4, <2>1 DEF Alone, Patched
<1> QED BY <1>1, <1>3, <1>4, <1>5, OneMoves DEF CleanInv, OverlapInv

\* The steps that change nothing but a thread's place.
LEMMA SerialFetch == ASSUME CleanInv, NEW t \in Threads, Fetch(t) PROVE SerialInv'
<1> USE DEF CleanInv, OverlapInv
<1>a. /\ pc[t] # "out" /\ phase = "running"
      /\ UNCHANGED <<serial, mem, icache, phase>>
  BY DEF Fetch, FetchHead, FetchFirst, FetchSecond, LoadLiteral, Body, At, setting, code,
         Nesting
<1>b. \A u \in Threads : u # t => /\ pc'[u] = pc[u] /\ hooks'[u] = hooks[u]
                                  /\ ran'[u] = ran[u]
  BY DEF Fetch, FetchHead, FetchFirst, FetchSecond, LoadLiteral, Body, At, Goto, Back,
         history, TypeOK
<1> SUFFICES ASSUME serial
             PROVE  IF pc'[t] = "out"
                    THEN /\ hooks'[t] = IF ran'[t] = "nothing" THEN 0 ELSE 1
                         /\ Patched(mem') /\ Patched(icache')
                    ELSE Alone(t)'
  BY <1>a, <1>b, AloneMeets, OneMoves
<1>c. /\ Alone(t) /\ phase = "running" /\ depth[t] \in {0, 1} /\ hooks[t] = depth[t]
      /\ \A u \in Threads : u # t => pc[u] = "out"
  BY <1>a, AloneMeets
<1>1. CASE FetchHead(t)
  <2>1. /\ pc[t] = "head" /\ pc'[t] = "first"
        /\ UNCHANGED <<mem, icache, depth, hooks, ran>>
    BY <1>1 DEF FetchHead, At, Goto, code, TypeOK
  <2> QED BY <1>b, <1>c, <2>1 DEF Alone, Patched, Original
<1>2. CASE FetchFirst(t)
  <2>1. /\ pc[t] = "first" /\ UNCHANGED <<mem, icache, depth, hooks, ran>>
        /\ pc'[t] = IF icache["first"] = "ldr" THEN "literal" ELSE "second"
    BY <1>2 DEF FetchFirst, At, Goto, code, history, TypeOK
  <2>2. CASE depth[t] = 0
    BY <1>b, <1>c, <2>1, <2>2 DEF Alone, Patched, Original
  <2>3. CASE depth[t] = 1
    BY <1>b, <1>c, <2>1, <2>3 DEF Alone, Patched, Original
  <2> QED BY <1>c, <2>2, <2>3
<1>3. CASE FetchSecond(t)
  <2>1. /\ pc[t] = "second" /\ UNCHANGED <<mem, icache, depth, hooks, ran>>
        /\ pc'[t] = IF icache["second"] = "dst" THEN "wild" ELSE "body"
    BY <1>3 DEF FetchSecond, At, Goto, code, history, TypeOK
  <2> QED BY <1>b, <1>c, <2>1 DEF Alone, Patched, Original
<1>4. CASE LoadLiteral(t)
  <2>1. pc[t] = "literal" /\ UNCHANGED <<mem, icache, ran>>
    BY <1>4 DEF LoadLiteral, At, code
  <2>2. depth[t] = 0 /\ mem["second"] = "dst"
    BY <1>c, <2>1 DEF Alone, Patched
  <2>3. pc'[t] = "restore1" /\ hooks'[t] = 1 /\ depth'[t] = 1
    BY <1>4, <1>c, <2>2 DEF LoadLiteral, Goto, TypeOK
  <2> QED BY <1>b, <1>c, <2>1, <2>2, <2>3 DEF Alone, Patched, Original
<1>5. CASE Body(t)
  <2>1. pc[t] = "body" /\ depth[t] = 1 /\ UNCHANGED <<mem, icache, depth, hooks>>
    BY <1>5, <1>c DEF Body, At, code, Alone
  <2>2. pc'[t] = "patch1" /\ ran'[t] # "nothing"
    BY <1>5, <2>1 DEF Body, Back, Goto, TypeOK
  <2> QED BY <1>b, <1>c, <2>1, <2>2 DEF Alone, Patched, Original
<1> QED BY <1>1, <1>2, <1>3, <1>4, <1>5 DEF Fetch

LEMMA SerialContinue == ASSUME CleanInv, NEW t \in Threads, Continue(t) PROVE SerialInv'
<1> USE DEF CleanInv, OverlapInv
<1>a. /\ pc[t] \in Inside /\ phase = "running"
      /\ UNCHANGED <<serial, phase, hooks, ran>>
  BY DEF Continue, Restore1, Restore2, FlushAndCall, RePatch1, RePatch2, FlushAndReturn,
         Write, At, setting, history, Nesting, Inside
<1>b. \A u \in Threads : u # t => pc'[u] = pc[u]
  BY DEF Continue, Restore1, Restore2, FlushAndCall, RePatch1, RePatch2, FlushAndReturn,
         Write, Back, Goto, TypeOK
<1> SUFFICES ASSUME serial
             PROVE  IF pc'[t] = "out"
                    THEN /\ hooks'[t] = IF ran'[t] = "nothing" THEN 0 ELSE 1
                         /\ Patched(mem') /\ Patched(icache')
                    ELSE Alone(t)'
  BY <1>a, <1>b, AloneMeets, OneMoves DEF Inside
<1>c. /\ Alone(t) /\ depth[t] = 1 /\ hooks[t] = 1
      /\ \A u \in Threads : u # t => pc[u] = "out"
  BY <1>a, AloneMeets DEF Inside, Nesting
<1>1. CASE Restore1(t)
  <2>1. /\ pc[t] = "restore1" /\ pc'[t] = "restore2"
        /\ mem' = [mem EXCEPT !["first"] = "code"] /\ UNCHANGED <<icache, depth>>
    BY <1>1 DEF Restore1, Write, At, Goto, TypeOK
  <2>2. mem'["first"] = "code" /\ mem'["second"] = mem["second"]
    BY <2>1, CodeRules DEF TypeOK
  <2> QED BY <1>a, <1>b, <1>c, <2>1, <2>2 DEF Alone, Patched
<1>2. CASE Restore2(t)
  <2>1. /\ pc[t] = "restore2" /\ pc'[t] = "flush"
        /\ mem' = [mem EXCEPT !["second"] = "code"] /\ UNCHANGED <<icache, depth>>
    BY <1>2 DEF Restore2, Write, At, Goto, TypeOK
  <2>2. mem'["second"] = "code" /\ mem'["first"] = mem["first"]
    BY <2>1, CodeRules DEF TypeOK
  <2> QED BY <1>a, <1>b, <1>c, <2>1, <2>2 DEF Alone, Original
<1>3. CASE FlushAndCall(t)
  <2>1. /\ pc[t] = "flush" /\ pc'[t] = Entry /\ icache' = Flushed /\ UNCHANGED <<mem, depth>>
    BY <1>3 DEF FlushAndCall, At, Goto, TypeOK
  <2>2. Entry \in {"head", "first"}
    BY DEF Entry
  <2>3. icache'["first"] = mem["first"] /\ icache'["second"] = mem["second"]
    BY <2>1, FlushedType DEF TypeOK
  <2> QED BY <1>a, <1>b, <1>c, <2>1, <2>2, <2>3 DEF Alone, Original
<1>4. CASE RePatch1(t)
  <2>1. /\ pc[t] = "patch1" /\ pc'[t] = "patch2"
        /\ mem' = [mem EXCEPT !["first"] = "ldr"] /\ UNCHANGED <<icache, depth>>
    BY <1>4 DEF RePatch1, Write, At, Goto, TypeOK
  <2>2. mem'["first"] = "ldr" /\ mem'["second"] = mem["second"]
    BY <2>1, CodeRules DEF TypeOK
  <2> QED BY <1>a, <1>b, <1>c, <2>1, <2>2 DEF Alone, Original
<1>5. CASE RePatch2(t)
  <2>1. /\ pc[t] = "patch2" /\ pc'[t] = "reflush"
        /\ mem' = [mem EXCEPT !["second"] = "dst"] /\ UNCHANGED <<icache, depth>>
    BY <1>5 DEF RePatch2, Write, At, Goto, TypeOK
  <2>2. mem'["second"] = "dst" /\ mem'["first"] = mem["first"]
    BY <2>1, CodeRules DEF TypeOK
  <2> QED BY <1>a, <1>b, <1>c, <2>1, <2>2 DEF Alone, Patched
<1>6. CASE FlushAndReturn(t)
  <2>1. pc[t] = "reflush" /\ pc'[t] = "out" /\ icache' = Flushed /\ UNCHANGED mem
    BY <1>6, <1>c DEF FlushAndReturn, At, Back, Goto, TypeOK
  <2>2. icache'["first"] = mem["first"] /\ icache'["second"] = mem["second"]
    BY <2>1, FlushedType DEF TypeOK
  <2>3. Patched(mem) /\ ran[t] # "nothing"
    BY <1>c, <2>1 DEF Alone
  <2> QED BY <1>a, <1>c, <2>1, <2>2, <2>3 DEF Patched
<1> QED BY <1>1, <1>2, <1>3, <1>4, <1>5, <1>6 DEF Continue

\* A line that is read again is never ahead of what the thread is about to do.
LEMMA SerialRefill == ASSUME CleanInv, NEW w \in Words, Refill(w) PROVE SerialInv'
<1> USE DEF CleanInv, OverlapInv
<1>1. /\ icache' = [icache EXCEPT ![w] = mem[w]]
      /\ UNCHANGED <<unaligned, serial, mem, phase, pc, depth, skipped, hooks, ran>>
  BY DEF Refill, setting, history
<1>2. /\ icache'["first"] \in {icache["first"], mem["first"]}
      /\ icache'["second"] \in {icache["second"], mem["second"]}
  BY <1>1, CodeRules DEF TypeOK
<1>3. ASSUME NEW t \in Threads, Alone(t) PROVE Alone(t)'
  BY <1>1, <1>2, <1>3 DEF Alone, Patched, Original
<1> QED BY <1>1, <1>2, <1>3 DEF SerialInv, Patched

LEMMA HeadlessStep == ASSUME CleanInv, [Next]_vars PROVE Headless'
<1> USE DEF CleanInv, OverlapInv
<1>1. CASE Hook \/ FlushAll \/ (\E w \in Words : Refill(w)) \/ UNCHANGED vars
  BY <1>1 DEF Hook, FlushAll, Refill, vars, setting, history, Headless
<1>2. ASSUME NEW t \in Threads, Call(t) PROVE Headless'
  BY <1>2 DEF Call, Goto, Entry, setting, Headless, TypeOK
<1>3. ASSUME NEW t \in Threads, Fetch(t) PROVE Headless'
  <2> SUFFICES ASSUME ~unaligned PROVE Headless'
    BY <1>3 DEF Fetch, FetchHead, FetchFirst, FetchSecond, LoadLiteral, Body, setting,
                Headless
  <2>1. ~FetchHead(t) /\ ~skipped[t]
    BY DEF Headless, FetchHead, At
  <2> QED BY <1>3, <2>1 DEF Fetch, FetchFirst, FetchSecond, LoadLiteral, Body, Goto, Back,
                            history, setting, Headless, TypeOK
<1>4. ASSUME NEW t \in Threads, Continue(t) PROVE Headless'
  BY <1>4 DEF Continue, Restore1, Restore2, FlushAndCall, RePatch1, RePatch2,
              FlushAndReturn, Write, Goto, Back, Entry, history, setting, Headless, TypeOK
<1> QED BY <1>1, <1>2, <1>3, <1>4 DEF Next

LEMMA CleanStep == CleanInv /\ [Next]_vars => CleanInv'
<1> SUFFICES ASSUME CleanInv, [Next]_vars PROVE CleanInv'
  OBVIOUS
<1>1. CASE Hook
  <2>1. phase' # "running" /\ phase # "running" /\ UNCHANGED <<serial, pc, hooks, ran>>
    BY <1>1 DEF Hook, setting, history
  <2> QED BY <2>1, OverlapStep, HeadlessStep
          DEF CleanInv, SerialInv, OverlapInv, Nesting
<1>2. CASE FlushAll
  <2>1. phase = "hooked" /\ icache' = mem /\ UNCHANGED <<serial, mem, pc, hooks, ran, depth>>
    BY <1>2 DEF FlushAll, setting, history
  <2>2. \A u \in Threads : ~OwesFirst(u) /\ ~OwesSecond(u)
    BY <2>1 DEF CleanInv, OverlapInv, Nesting, TypeOK, OwesFirst, OwesSecond
  <2>3. Patched(mem)
    BY <2>1, <2>2 DEF CleanInv, OverlapInv, Owed, Patched
  <2>4. \A u \in Threads : pc[u] = "out"
    BY <2>1 DEF CleanInv, OverlapInv, Nesting
  <2>5. SerialInv'
    BY <2>1, <2>3, <2>4 DEF CleanInv, SerialInv, Patched
  <2> QED BY <2>5, OverlapStep, HeadlessStep DEF CleanInv
<1>3. ASSUME NEW t \in Threads, Call(t) \/ Fetch(t) \/ Continue(t) PROVE CleanInv'
  BY <1>3, SerialCall, SerialFetch, SerialContinue, OverlapStep, HeadlessStep DEF CleanInv
<1>4. ASSUME NEW w \in Words, Refill(w) PROVE CleanInv'
  BY <1>4, SerialRefill, OverlapStep, HeadlessStep DEF CleanInv
<1>5. CASE UNCHANGED vars
  <2>1. SerialInv'
    BY <1>5 DEF vars, setting, code, history, CleanInv, SerialInv, Alone, Patched, Original
  <2> QED BY <2>1, OverlapStep, HeadlessStep DEF CleanInv
<1> QED BY <1>1, <1>2, <1>3, <1>4, <1>5 DEF Next

\* For any number of threads whose calls come one after the other: the hook runs
\* once for each call and the original under it, undamaged if it has no head (at
\* 2 mod 4 its first halfword is lost), and nobody executes a word that is stale or
\* half of the jump, whenever the cache reads the code again.
THEOREM SerialCallsAreClean == Spec => []CallsAreClean
<1>1. CleanInv => CallsAreClean
  BY DEF CleanInv, SerialInv, Headless, Alone, CallsAreClean, At
<1> QED BY <1>1, CleanInitially, CleanStep, PTL DEF Spec

=============================================================================
