------------------------- MODULE GcMarkThreadsProofs -------------------------
(***************************************************************************)
(* Parallel marking is correct for every heap and every number of mark     *)
(* threads: when the collector stops waiting, exactly the reachable blocks *)
(* are marked, and no assert fails.                                        *)
(***************************************************************************)
EXTENDS GcMarkThreads, FiniteSetTheorems, WellFoundedInduction, TLAPS

\* A mark thread reads a block.
Reading(w) == wpc[w] \in {"dispatch", "scan"}

\* The pending count and the active mask agree, and a thread is active from
\* the release of its semaphore to the end of its work.
ControlInv ==
    /\ mark_threads_pending = Cardinality(mark_threads_active)
    /\ \A w \in Workers : w \in mark_threads_active <=> (wpc[w] # "acquire" \/ ready[w] = 1)
    /\ \A w \in Workers : ready[w] = 1 => wpc[w] = "acquire"
    /\ pc \in {"idle", "dispatch", "check"} => mark_threads_active = {}
    /\ pc \in {"idle", "wait", "check"} => global_mark_stack = {}

\* Work is where a thread will do it, and all of it is marked.
WorkInv ==
    /\ \A w \in Workers : w \notin mark_threads_active \/ wpc[w] = "end" => stack[w] = {}
    /\ \A w \in Workers : Reading(w) => block[w] \in marked /\ todo[w] \subseteq refs[block[w]]
    /\ global_mark_stack \subseteq marked
    /\ \A w \in Workers : stack[w] \subseteq marked

\* Blocks whose references are still to be followed.
Grey(o) ==
    \/ o \in global_mark_stack
    \/ \E w \in Workers : o \in stack[w]
    \/ \E w \in Workers : Reading(w) /\ block[w] = o

\* A marked block is followed or waits for it; a block being read has its
\* unmarked references ahead.
TraceInv ==
    /\ roots \subseteq marked
    /\ marked \subseteq Reach
    /\ \A o \in marked : refs[o] \subseteq marked \/ Grey(o)
    /\ \A w \in Workers : Reading(w) => refs[block[w]] \subseteq marked \cup todo[w]

\* The inductive invariant.
IInv == TypeOK /\ ControlInv /\ WorkInv /\ TraceInv

-----------------------------------------------------------------------------
(* Helpers *)

\* The threads are a finite set, and dispatch counts the idle ones.
LEMMA IdleCount ==
    ASSUME mark_threads_active \subseteq Workers
    PROVE  /\ IsFiniteSet(mark_threads_active)
           /\ Cardinality(mark_threads_active) \in Nat
           /\ Cardinality(Idle) \in Nat
           /\ Cardinality(mark_threads_active) + Cardinality(Idle) = Cardinality(Workers)
<1>1. IsFiniteSet(Workers)
  BY FS_Interval, ThreadsAssumption DEF Workers
<1>2. IsFiniteSet(mark_threads_active) /\ IsFiniteSet(Idle)
  BY <1>1, FS_Subset DEF Idle
<1>3. Cardinality(mark_threads_active) \in Nat /\ Cardinality(Idle) \in Nat
  BY <1>2, FS_CardinalityType
<1>4. Cardinality(Idle) = Cardinality(Workers) - Cardinality(Workers \cap mark_threads_active)
  BY <1>1, FS_Difference DEF Idle
<1>5. Workers \cap mark_threads_active = mark_threads_active
  OBVIOUS
<1>6. Cardinality(Workers) \in Nat
  BY <1>1, FS_CardinalityType
<1>7. Cardinality(Idle) = Cardinality(Workers) - Cardinality(mark_threads_active)
  BY <1>4, <1>5
<1> QED
  BY <1>2, <1>3, <1>6, <1>7

\* The blocks in reach are the least closed set.
LEMMA ReachLeast ==
    ASSUME TypeOK
    PROVE  /\ roots \subseteq Reach
           /\ \A o \in Reach : refs[o] \subseteq Reach
           /\ \A S \in SUBSET Objects : Closed(S) => Reach \subseteq S
<1>1. refs \in [Objects -> SUBSET Objects]
  BY GraphsAssumption DEF TypeOK
<1> QED
  BY <1>1 DEF TypeOK, Reach, Closed

\* A step that leaves the references, the roots, the marks and the work alone
\* leaves what they say alone.
LEMMA Untouched ==
    ASSUME IInv, UNCHANGED <<heapVars, marked, global_mark_stack, workVars>>,
           \A w \in Workers : Reading(w)' <=> Reading(w)
    PROVE  TraceInv'
<1>1. Reach' = Reach
  BY DEF heapVars, Reach, Closed
<1> QED
  BY <1>1 DEF IInv, TraceInv, Grey, heapVars, workVars

-----------------------------------------------------------------------------
(* The collector *)

LEMMA gc_markStep == ASSUME IInv, gc_mark PROVE IInv'
<1> USE DEF gc_mark, workVars, countVars
<1>1. TypeOK'
  BY DEF IInv, TypeOK
<1>2. mark_threads_active = {}
  BY DEF IInv, ControlInv
<1>3. ControlInv'
  BY <1>2 DEF IInv, ControlInv
<1>4. \A w \in Workers : stack[w] = {} /\ ~Reading(w)
  BY <1>2 DEF IInv, ControlInv, WorkInv, Reading
<1>5. \A w \in Workers : ~Reading(w)'
  BY <1>4 DEF Reading
<1>6. WorkInv'
  BY <1>2, <1>4, <1>5 DEF IInv, WorkInv
<1>7. roots' \subseteq Reach'
  BY <1>1 DEF Reach, Closed, TypeOK
<1>8. \A o \in marked' : o \notin global_mark_stack' => refs'[o] = {}
  BY GraphsAssumption DEF IInv, TypeOK
<1>9. TraceInv'
  BY <1>5, <1>7, <1>8 DEF TraceInv, Grey
<1> QED
  BY <1>1, <1>3, <1>6, <1>9 DEF IInv

\* What a dispatch deals out of `work` is all on the stacks afterwards.
LEMMA DealFacts ==
    ASSUME IInv, NEW work \in SUBSET marked, NEW deal \in [Idle -> SUBSET work]
    PROVE  /\ \A w \in Idle : Filled(deal)[w] = deal[w] /\ deal[w] \subseteq work
           /\ \A w \in Workers \ Idle : Filled(deal)[w] = stack[w]
           /\ Filled(deal) \in [Workers -> SUBSET Objects]
           /\ Kept(work, deal) \subseteq work
           /\ \A o \in work : o \in Kept(work, deal) \/ \E w \in Idle : o \in deal[w]
<1>1. Idle \subseteq Workers
  BY DEF Idle
<1> QED
  BY <1>1 DEF Filled, Kept, Dealt, IInv, TypeOK

\* What the counters say after a dispatch.
LEMMA ActivateFacts ==
    ASSUME IInv, NEW all \in BOOLEAN, Activate(all)
    PROVE  /\ mark_threads_active' = Workers
           /\ mark_threads_pending' = Cardinality(Workers) /\ mark_threads_pending' \in Nat
           /\ \A w \in Idle : ready'[w] = 1 /\ wpc[w] = "acquire"
           /\ \A w \in Workers \ Idle : ready'[w] = ready[w]
           /\ ready' \in [Workers -> 0 .. 1]
<1>1. mark_threads_active \subseteq Workers
  BY DEF IInv, TypeOK
<1>2. mark_threads_pending' = Cardinality(mark_threads_active) + Cardinality(Idle)
  BY DEF Activate, IInv, ControlInv
<1>3. mark_threads_pending' = Cardinality(Workers) /\ mark_threads_pending' \in Nat
  BY <1>1, <1>2, IdleCount
<1>4. \A w \in Idle : ready[w] = 0 /\ wpc[w] = "acquire"
  BY DEF Idle, IInv, ControlInv, TypeOK
<1>5. \A w \in Idle : w \in Workers
  BY DEF Idle
<1> QED
  BY <1>3, <1>4, <1>5 DEF Activate, Released, IInv, TypeOK

LEMMA DispatchAllStep == ASSUME IInv, DispatchAll PROVE IInv'
<1> USE DEF DispatchAll
<1>1. CASE NoDispatch(global_mark_stack, TRUE)
  <2> USE <1>1 DEF countVars
  <2>1. TypeOK'
    BY DEF IInv, TypeOK, heapVars
  <2>2. ControlInv'
    BY DEF IInv, ControlInv
  <2>3. \A w \in Workers : Reading(w)' <=> Reading(w)
    BY DEF Reading
  <2>4. WorkInv'
    BY <2>3 DEF IInv, WorkInv, heapVars
  <2>5. TraceInv'
    BY <2>3, Untouched DEF workVars
  <2> QED
    BY <2>1, <2>2, <2>4, <2>5 DEF IInv
<1>2. CASE ~NoDispatch(global_mark_stack, TRUE)
  <2>1. PICK deal \in Deals(global_mark_stack, Count(Cardinality(global_mark_stack), TRUE)) :
          /\ stack' = Filled(deal)
          /\ global_mark_stack' = Kept(global_mark_stack, deal)
          /\ Activate(TRUE)
          /\ pc' \in {"fatal", "wait"}
          /\ pc' = "wait" => global_mark_stack' = {}
    BY <1>2
  <2>2. /\ \A w \in Idle : stack'[w] = deal[w] /\ deal[w] \subseteq global_mark_stack
        /\ \A w \in Workers \ Idle : stack'[w] = stack[w]
        /\ stack' \in [Workers -> SUBSET Objects]
        /\ global_mark_stack' \subseteq global_mark_stack
        /\ \A o \in global_mark_stack : o \in global_mark_stack' \/ \E w \in Idle : o \in deal[w]
    <3>1. global_mark_stack \in SUBSET marked
      BY DEF IInv, WorkInv
    <3>2. deal \in [Idle -> SUBSET global_mark_stack]
      BY <2>1 DEF Deals
    <3> QED
      BY <2>1, <3>1, <3>2, DealFacts
  <2>3. /\ mark_threads_active' = Workers
        /\ mark_threads_pending' = Cardinality(Workers) /\ mark_threads_pending' \in Nat
        /\ \A w \in Idle : ready'[w] = 1 /\ wpc[w] = "acquire"
        /\ \A w \in Workers \ Idle : ready'[w] = ready[w]
        /\ ready' \in [Workers -> 0 .. 1]
    BY <2>1, ActivateFacts
  <2>4. mark_threads_active = {} /\ Idle = Workers
    BY DEF IInv, ControlInv, Idle
  <2>5. UNCHANGED <<refs, roots, marked, block, todo, wpc, asleep>>
    BY DEF heapVars
  <2>6. \A w \in Workers : ~Reading(w) /\ ~Reading(w)'
    BY <2>3, <2>4, <2>5 DEF Reading
  <2>7. TypeOK'
    BY <2>1, <2>2, <2>3, <2>5 DEF IInv, TypeOK
  <2>8. ControlInv'
    BY <2>1, <2>3, <2>4, <2>5 DEF ControlInv
  <2>9. WorkInv'
    BY <2>2, <2>3, <2>4, <2>5, <2>6 DEF IInv, WorkInv
  <2>10. Reach' = Reach
    BY <2>5 DEF Reach, Closed
  <2>11. \A o \in marked : Grey(o) => Grey(o)'
    BY <2>2, <2>4, <2>6 DEF Grey, IInv, WorkInv
  <2>12. TraceInv'
    BY <2>5, <2>6, <2>10, <2>11 DEF IInv, TraceInv
  <2> QED
    BY <2>7, <2>8, <2>9, <2>12 DEF IInv
<1> QED
  BY <1>1, <1>2

\* A step that only moves the collector.
LEMMA WaitStep == ASSUME IInv, WaitTest \/ Spurious \/ MarkEnd PROVE IInv'
<1>1. /\ UNCHANGED <<refs, roots, marked, global_mark_stack, stack, block, todo, ready, wpc,
                     mark_threads_active, mark_threads_pending>>
  BY DEF WaitTest, Spurious, MarkEnd, heapVars, workVars, countVars
<1>2. TypeOK'
  BY <1>1 DEF WaitTest, Spurious, MarkEnd, IInv, TypeOK
<1>3. ControlInv'
  BY <1>1 DEF WaitTest, Spurious, MarkEnd, IInv, ControlInv
<1>4. \A w \in Workers : Reading(w)' <=> Reading(w)
  BY <1>1 DEF Reading
<1>5. WorkInv'
  BY <1>1, <1>4 DEF IInv, WorkInv
<1>6. TraceInv'
  BY <1>1, <1>4, Untouched DEF heapVars, workVars
<1> QED
  BY <1>2, <1>3, <1>5, <1>6 DEF IInv

-----------------------------------------------------------------------------
(* The mark threads *)

LEMMA ReadyAcquireStep == ASSUME IInv, NEW w \in Workers, ReadyAcquire(w) PROVE IInv'
<1> USE DEF ReadyAcquire, heapVars, workVars, countVars
<1>1. TypeOK'
  BY DEF IInv, TypeOK
<1>2. ControlInv'
  BY DEF IInv, TypeOK, ControlInv
<1>3. \A v \in Workers : Reading(v)' <=> Reading(v)
  BY DEF IInv, TypeOK, Reading
<1>4. WorkInv'
  BY <1>3 DEF IInv, TypeOK, WorkInv
<1>5. TraceInv'
  BY <1>3, Untouched
<1> QED
  BY <1>1, <1>2, <1>4, <1>5 DEF IInv

LEMMA FlushPopStep == ASSUME IInv, NEW w \in Workers, NEW o \in Objects, FlushPop(w, o) PROVE IInv'
<1> USE DEF FlushPop, heapVars, countVars
<1>1. refs \in [Objects -> SUBSET Objects]
  BY GraphsAssumption DEF IInv, TypeOK
<1>2. PICK next \in {"dispatch", "scan"} : wpc' = [wpc EXCEPT ![w] = next]
  OBVIOUS
<1>3. TypeOK'
  BY <1>1, <1>2 DEF IInv, TypeOK
<1>4. ControlInv'
  BY <1>2 DEF IInv, TypeOK, ControlInv
<1>5. Reading(w)' /\ ~Reading(w) /\ block'[w] = o /\ todo'[w] = refs[o]
  BY <1>2 DEF IInv, TypeOK, Reading
<1>6. \A v \in Workers \ {w} :
        /\ Reading(v)' <=> Reading(v)
        /\ block'[v] = block[v] /\ todo'[v] = todo[v] /\ stack'[v] = stack[v]
  BY <1>2 DEF IInv, TypeOK, Reading
<1>7. stack'[w] = stack[w] \ {o} /\ wpc'[w] # "end" /\ o \in marked
  BY <1>2 DEF IInv, TypeOK, WorkInv
<1>8. w \in mark_threads_active
  BY DEF IInv, ControlInv
<1>8a. \A v \in Workers \ {w} : wpc'[v] = wpc[v]
  BY <1>2 DEF IInv, TypeOK
<1>9. WorkInv'
  BY <1>5, <1>6, <1>7, <1>8, <1>8a DEF IInv, WorkInv
<1>10. Reach' = Reach
  BY DEF Reach, Closed
<1>11. \A x \in marked : Grey(x) => Grey(x)'
  <2> SUFFICES ASSUME NEW x \in marked, Grey(x) PROVE Grey(x)'
    OBVIOUS
  <2>1. CASE x = o
    BY <1>5, <2>1 DEF Grey
  <2>2. CASE x # o
    BY <1>5, <1>6, <1>7, <2>2 DEF Grey
  <2> QED
    BY <2>1, <2>2
<1>12. TraceInv'
  BY <1>5, <1>6, <1>10, <1>11 DEF IInv, TraceInv
<1> QED
  BY <1>3, <1>4, <1>9, <1>12 DEF IInv

LEMMA DispatchSomeStep == ASSUME IInv, NEW w \in Workers, DispatchSome(w) PROVE IInv'
<1> USE DEF DispatchSome
<1>1. UNCHANGED <<refs, roots, marked, global_mark_stack, block, todo, asleep>>
  BY DEF heapVars
<1>2. \A v \in Workers : Reading(v)' <=> Reading(v)
  BY DEF IInv, TypeOK, Reading
<1>3. w \in mark_threads_active /\ ready[w] = 0
  BY DEF IInv, ControlInv, TypeOK
<1>4. \A v \in Workers : (wpc'[v] = "end" <=> wpc[v] = "end") /\ (wpc'[v] = "acquire" <=> wpc[v] = "acquire")
  BY DEF IInv, TypeOK
<1>5. wpc' \in [Workers -> {"acquire", "flush", "dispatch", "scan", "end"}]
  BY DEF IInv, TypeOK
<1>6. Reach' = Reach
  BY <1>1 DEF Reach, Closed
<1>7. CASE NoDispatch(stack[w], FALSE)
  <2>1. UNCHANGED <<pc, stack, ready, mark_threads_active, mark_threads_pending>>
    BY <1>7 DEF countVars
  <2>2. TypeOK'
    BY <1>1, <1>5, <2>1 DEF IInv, TypeOK
  <2>3. ControlInv'
    BY <1>1, <1>4, <2>1 DEF IInv, ControlInv
  <2>4. WorkInv'
    BY <1>1, <1>2, <1>4, <2>1 DEF IInv, WorkInv
  <2>5. TraceInv'
    BY <1>1, <1>2, <2>1, Untouched DEF heapVars, workVars
  <2> QED
    BY <2>2, <2>3, <2>4, <2>5 DEF IInv
<1>8. CASE ~NoDispatch(stack[w], FALSE)
  <2>1. PICK deal \in Deals(stack[w], Count(Cardinality(stack[w]), FALSE)) :
          /\ stack' = [Filled(deal) EXCEPT ![w] = Kept(stack[w], deal)]
          /\ Activate(FALSE)
          /\ pc' \in {"fatal", pc}
    BY <1>8
  <2>2. stack[w] \subseteq marked
    BY DEF IInv, WorkInv
  <2>3. /\ \A v \in Idle : Filled(deal)[v] = deal[v] /\ deal[v] \subseteq stack[w]
        /\ \A v \in Workers \ Idle : Filled(deal)[v] = stack[v]
        /\ Filled(deal) \in [Workers -> SUBSET Objects]
        /\ Kept(stack[w], deal) \subseteq stack[w]
        /\ \A o \in stack[w] : o \in Kept(stack[w], deal) \/ \E v \in Idle : o \in deal[v]
    <3>1. stack[w] \in SUBSET marked
      BY <2>2
    <3>2. deal \in [Idle -> SUBSET stack[w]]
      BY <2>1 DEF Deals
    <3> QED
      BY <3>1, <3>2, DealFacts
  <2>4. w \notin Idle /\ Idle \subseteq Workers
    BY <1>3 DEF Idle
  <2>5. /\ stack' \in [Workers -> SUBSET Objects]
        /\ \A v \in Idle : stack'[v] = deal[v] /\ deal[v] \subseteq stack[w]
        /\ \A v \in (Workers \ Idle) \ {w} : stack'[v] = stack[v]
        /\ stack'[w] = Kept(stack[w], deal)
    BY <2>1, <2>3, <2>4 DEF IInv, TypeOK
  <2>6. /\ mark_threads_active' = Workers
        /\ mark_threads_pending' = Cardinality(Workers) /\ mark_threads_pending' \in Nat
        /\ \A v \in Idle : ready'[v] = 1 /\ wpc[v] = "acquire"
        /\ \A v \in Workers \ Idle : ready'[v] = ready[v]
        /\ ready' \in [Workers -> 0 .. 1]
    BY <2>1, ActivateFacts
  <2>7. TypeOK'
    BY <1>1, <1>5, <2>1, <2>5, <2>6 DEF IInv, TypeOK
  <2>8. pc \notin {"idle", "dispatch", "check"}
    BY <1>3 DEF IInv, ControlInv
  <2>9. ControlInv'
    <3>1. \A v \in Workers : v \in mark_threads_active' <=> (wpc'[v] # "acquire" \/ ready'[v] = 1)
      BY <1>4, <2>4, <2>6 DEF IInv, ControlInv, Idle
    <3>2. \A v \in Workers : ready'[v] = 1 => wpc'[v] = "acquire"
      BY <1>4, <2>4, <2>6 DEF IInv, ControlInv
    <3>3. pc' \in {"fatal", "wait"} /\ (pc' = "wait" => global_mark_stack' = {})
      BY <1>1, <2>1, <2>8 DEF IInv, TypeOK, ControlInv
    <3> QED
      BY <2>6, <3>1, <3>2, <3>3 DEF ControlInv
  <2>10. WorkInv'
    <3>1. \A v \in Workers : stack'[v] \subseteq marked
      BY <2>2, <2>3, <2>4, <2>5 DEF IInv, WorkInv
    <3>2. \A v \in Workers : wpc'[v] = "end" => stack'[v] = {}
      BY <1>4, <2>4, <2>5, <2>6 DEF IInv, WorkInv
    <3> QED
      BY <1>1, <1>2, <2>6, <3>1, <3>2 DEF IInv, WorkInv
  <2>11. \A o \in marked : Grey(o) => Grey(o)'
    <3> SUFFICES ASSUME NEW o \in marked, Grey(o) PROVE Grey(o)'
      OBVIOUS
    <3>1. CASE o \in stack[w]
      BY <2>3, <2>4, <2>5, <3>1 DEF Grey
    <3>2. CASE \E v \in Workers \ {w} : o \in stack[v]
      BY <2>4, <2>5, <3>2 DEF Grey, Idle, IInv, WorkInv
    <3>3. CASE o \in global_mark_stack \/ \E v \in Workers : Reading(v) /\ block[v] = o
      BY <1>1, <1>2, <3>3 DEF Grey
    <3> QED
      BY <3>1, <3>2, <3>3 DEF Grey
  <2>12. TraceInv'
    BY <1>1, <1>2, <1>6, <2>11 DEF IInv, TraceInv
  <2> QED
    BY <2>7, <2>9, <2>10, <2>12 DEF IInv
<1> QED
  BY <1>7, <1>8

LEMMA ScanWordStep == ASSUME IInv, NEW w \in Workers, NEW o \in Objects, ScanWord(w, o) PROVE IInv'
<1> USE DEF ScanWord, heapVars, countVars
<1>1. refs \in [Objects -> SUBSET Objects] /\ \A x \in NoPtr : refs[x] = {}
  BY GraphsAssumption DEF IInv, TypeOK
<1>2. TypeOK'
  BY DEF IInv, TypeOK
<1>3. ControlInv'
  BY DEF IInv, ControlInv
<1>4. \A v \in Workers : Reading(v)' <=> Reading(v)
  BY DEF Reading
<1>5. \A v \in Workers : stack[v] \subseteq stack'[v] /\ (v # w => stack'[v] = stack[v] /\ todo'[v] = todo[v])
  BY DEF IInv, TypeOK
<1>6. todo'[w] = todo[w] \ {o} /\ stack'[w] = stack[w] \cup ({o} \ (marked \cup NoPtr)) /\ Reading(w)
  BY DEF IInv, TypeOK, Reading
<1>7. w \in mark_threads_active
  BY DEF IInv, ControlInv
<1>8. WorkInv'
  BY <1>4, <1>5, <1>6, <1>7 DEF IInv, WorkInv
<1>9. Reach' = Reach
  BY DEF Reach, Closed
<1>10. o \in Reach
  BY <1>6, ReachLeast DEF IInv, WorkInv, TraceInv
<1>11. \A x \in marked : Grey(x) => Grey(x)'
  BY <1>4, <1>5 DEF Grey
<1>12. o \in marked \/ refs[o] = {} \/ Grey(o)'
  BY <1>1, <1>6 DEF Grey
<1>13. TraceInv'
  <2>1. roots' \subseteq marked' /\ marked' \subseteq Reach'
    BY <1>9, <1>10 DEF IInv, TraceInv
  <2>2. \A x \in marked' : refs'[x] \subseteq marked' \/ Grey(x)'
    BY <1>11, <1>12 DEF IInv, TraceInv
  <2>3. \A v \in Workers : Reading(v)' => refs'[block'[v]] \subseteq marked' \cup todo'[v]
    BY <1>4, <1>5, <1>6 DEF IInv, TraceInv
  <2> QED
    BY <2>1, <2>2, <2>3 DEF TraceInv
<1> QED
  BY <1>2, <1>3, <1>8, <1>13 DEF IInv

LEMMA ScanEndStep == ASSUME IInv, NEW w \in Workers, ScanEnd(w) PROVE IInv'
<1> USE DEF ScanEnd, heapVars, countVars
<1>1. TypeOK'
  BY DEF IInv, TypeOK
<1>2. ControlInv'
  BY DEF IInv, TypeOK, ControlInv
<1>3. \A v \in Workers : v # w => (Reading(v)' <=> Reading(v)) /\ block'[v] = block[v] /\ wpc'[v] = wpc[v]
  BY DEF IInv, TypeOK, Reading
<1>4. Reading(w) /\ ~Reading(w)' /\ wpc'[w] = "flush"
  BY DEF IInv, TypeOK, Reading
<1>5. WorkInv'
  BY <1>3, <1>4 DEF IInv, WorkInv
<1>6. Reach' = Reach
  BY DEF Reach, Closed
<1>7. refs[block[w]] \subseteq marked
  BY <1>4 DEF IInv, TraceInv
<1>8. \A x \in marked : Grey(x) => Grey(x)' \/ refs[x] \subseteq marked
  BY <1>3, <1>7 DEF Grey
<1>9. TraceInv'
  BY <1>3, <1>4, <1>6, <1>8 DEF IInv, TraceInv
<1> QED
  BY <1>1, <1>2, <1>5, <1>9 DEF IInv

LEMMA FlushEndStep == ASSUME IInv, NEW w \in Workers, FlushEnd(w) PROVE IInv'
<1> USE DEF FlushEnd, heapVars, workVars, countVars
<1>1. TypeOK'
  BY DEF IInv, TypeOK
<1>2. ControlInv'
  BY DEF IInv, TypeOK, ControlInv
<1>3. \A v \in Workers : Reading(v)' <=> Reading(v)
  BY DEF IInv, TypeOK, Reading
<1>4. WorkInv'
  BY <1>3 DEF IInv, TypeOK, WorkInv
<1>5. TraceInv'
  BY <1>3, Untouched
<1> QED
  BY <1>1, <1>2, <1>4, <1>5 DEF IInv

LEMMA WorkerEndStep == ASSUME IInv, NEW w \in Workers, WorkerEnd(w) PROVE IInv'
<1> USE DEF WorkerEnd, Signal, heapVars, workVars
<1>1. w \in mark_threads_active /\ ready[w] = 0
  BY DEF IInv, ControlInv, TypeOK
<1>2. /\ IsFiniteSet(mark_threads_active) /\ Cardinality(mark_threads_active) \in Nat
  BY IdleCount DEF IInv, TypeOK
<1>3. Cardinality(mark_threads_active \ {w}) = Cardinality(mark_threads_active) - 1
  BY <1>1, <1>2, FS_RemoveElement
<1>4. Cardinality(mark_threads_active \ {w}) \in Nat
  BY <1>2, FS_CardinalityType, FS_Subset
<1>5. mark_threads_pending' = Cardinality(mark_threads_active') /\ mark_threads_pending' \in Nat
  BY <1>3, <1>4 DEF IInv, ControlInv
<1>6. TypeOK'
  BY <1>5 DEF IInv, TypeOK
<1>7. pc \notin {"idle", "dispatch", "check"} /\ pc' \in {"fatal", pc}
  BY <1>1 DEF IInv, ControlInv
<1>8. ControlInv'
  <2>1. \A v \in Workers : v \in mark_threads_active' <=> (wpc'[v] # "acquire" \/ ready'[v] = 1)
    BY <1>1 DEF IInv, TypeOK, ControlInv
  <2>2. \A v \in Workers : ready'[v] = 1 => wpc'[v] = "acquire"
    BY DEF IInv, TypeOK, ControlInv
  <2>3. pc' \in {"fatal", "wait"} /\ (pc' = "wait" => global_mark_stack' = {})
    BY <1>7 DEF IInv, TypeOK, ControlInv
  <2> QED
    BY <1>5, <2>1, <2>2, <2>3 DEF ControlInv
<1>9. \A v \in Workers : Reading(v)' <=> Reading(v)
  BY DEF IInv, TypeOK, Reading
<1>10. WorkInv'
  BY <1>9 DEF IInv, TypeOK, WorkInv
<1>11. TraceInv'
  BY <1>9, Untouched
<1> QED
  BY <1>6, <1>8, <1>10, <1>11 DEF IInv

-----------------------------------------------------------------------------
(* Theorems *)

LEMMA InitIInv == Init => IInv
<1> SUFFICES ASSUME Init PROVE IInv
  OBVIOUS
<1> USE DEF Init
<1>1. TypeOK
  <2>1. /\ stack \in [Workers -> SUBSET Objects] /\ todo \in [Workers -> SUBSET Objects]
        /\ block \in [Workers -> Objects \cup {Null}]
    OBVIOUS
  <2>2. ready \in [Workers -> 0 .. 1] /\ mark_threads_pending \in Nat
    OBVIOUS
  <2>3. wpc \in [Workers -> {"acquire", "flush", "dispatch", "scan", "end"}]
    OBVIOUS
  <2> QED
    BY <2>1, <2>2, <2>3 DEF TypeOK
<1>2. ControlInv
  BY FS_EmptySet DEF ControlInv
<1>3. WorkInv
  BY DEF WorkInv, Reading
<1>4. TraceInv
  BY DEF TraceInv, Reading
<1> QED
  BY <1>1, <1>2, <1>3, <1>4 DEF IInv

LEMMA NextIInv == IInv /\ [Next]_vars => IInv'
<1> SUFFICES ASSUME IInv, [Next]_vars PROVE IInv'
  OBVIOUS
<1>1. CASE UNCHANGED vars
  <2> USE <1>1 DEF vars, heapVars, workVars, countVars
  <2>1. TypeOK' /\ ControlInv'
    BY DEF IInv, TypeOK, ControlInv
  <2>2. \A w \in Workers : Reading(w)' <=> Reading(w)
    BY DEF Reading
  <2>3. WorkInv'
    BY <2>2 DEF IInv, WorkInv
  <2>4. TraceInv'
    BY <2>2, Untouched
  <2> QED
    BY <2>1, <2>3, <2>4 DEF IInv
<1>2. CASE gc_mark
  BY <1>2, gc_markStep
<1>3. CASE DispatchAll
  BY <1>3, DispatchAllStep
<1>4. CASE WaitTest \/ Spurious \/ MarkEnd
  BY <1>4, WaitStep
<1>5. ASSUME NEW w \in Workers, MarkThread(w) PROVE IInv'
  BY <1>5, ReadyAcquireStep, FlushPopStep, DispatchSomeStep, ScanWordStep, ScanEndStep, FlushEndStep,
     WorkerEndStep DEF MarkThread
<1> QED
  BY <1>1, <1>2, <1>3, <1>4, <1>5 DEF Next, Collector

\* Type correctness for every heap and number of mark threads: a semaphore is
\* never released twice for one round of work, and mark_threads_pending is the
\* number of threads whose bit is set in mark_threads_active.
THEOREM TypeCorrect == Spec => [](TypeOK /\ mark_threads_pending = Cardinality(mark_threads_active))
<1>1. IInv => TypeOK /\ mark_threads_pending = Cardinality(mark_threads_active)
  BY DEF IInv, ControlInv
<1> QED
  BY <1>1, InitIInv, NextIInv, PTL DEF Spec

\* gc_wait_mark_threads returns with exactly the reachable blocks marked, for
\* every heap and number of mark threads, whichever way work is dealt out.
THEOREM MarkCompleteCorrect == Spec => []MarkComplete
<1>1. IInv => MarkComplete
  <2> SUFFICES ASSUME IInv, pc = "check" PROVE marked = Reach
    BY DEF MarkComplete
  <2>1. mark_threads_active = {} /\ global_mark_stack = {}
    BY DEF IInv, ControlInv
  <2>2. \A w \in Workers : stack[w] = {} /\ ~Reading(w)
    BY <2>1 DEF IInv, ControlInv, WorkInv, Reading
  <2>3. Closed(marked)
    BY <2>1, <2>2 DEF IInv, TraceInv, Grey, Closed
  <2> QED
    BY <2>3, ReachLeast DEF IInv, TypeOK, TraceInv
<1> QED
  BY <1>1, InitIInv, NextIInv, PTL DEF Spec

-----------------------------------------------------------------------------
(* The asserts *)

\* Induction on a set of numbers, from the least number outside it.
LEMMA NumberInduction ==
    ASSUME NEW S, 0 \in S, \A n \in Nat : n \in S => n + 1 \in S
    PROVE  Nat \subseteq S
<1> SUFFICES ASSUME Nat \ S # {} PROVE FALSE
  OBVIOUS
<1>1. PICK R : R = {ss \in Nat \X Nat : ss[1] < ss[2]}
  OBVIOUS
<1>2. IsWellFoundedOn(R, Nat)
  BY <1>1, NatLessThanWellFounded, Zenon DEF OpToRel
<1>3. PICK x \in Nat \ S : \A y \in Nat \ S : ~(<<y, x>> \in R)
  <2>1. Nat \ S \subseteq Nat
    OBVIOUS
  <2> QED
    BY <1>2, <2>1, WFMin
<1>4. \A y \in Nat : y < x => y \in S
  BY <1>1, <1>3
<1>5. x # 0 /\ x - 1 \in Nat /\ x - 1 < x
  BY <1>3
<1>6. x - 1 \in S
  BY <1>4, <1>5
<1>7. (x - 1) + 1 \in S
  BY <1>5, <1>6
<1> QED
  BY <1>3, <1>7

\* The share of gc_dispatch_mark is rounded up when all is dealt out.
LEMMA ShareCovers ==
    ASSUME NEW n \in Nat, NEW k \in Nat, n > 0, k > 0
    PROVE  /\ (n + k - 1) \div k \in Nat /\ (n + k - 1) \div k > 0
           /\ ((n + k - 1) \div k) * k >= n
<1>1. n >= 1 /\ k >= 1
  OBVIOUS
<1>2. (n + k - 1) \div k \in Nat
  BY <1>1
<1>3. (n + k - 1) \div k >= 1
  BY <1>1
<1>4. k * ((n + k - 1) \div k) >= n
  BY <1>1
<1> QED
  BY <1>2, <1>3, <1>4

\* Served in order, in shares that are large enough together, the threads get
\* all of the work: the first j have the first j shares, or everything.
LEMMA AllDealt ==
    ASSUME NEW work, IsFiniteSet(work), Idle = Workers,
           NEW count \in Nat, count * gc_mark_threads >= Cardinality(work),
           NEW deal \in Deals(work, count)
    PROVE  Kept(work, deal) = {}
<1>1. PICK n : n = Cardinality(work)
  OBVIOUS
<1>2. n \in Nat /\ gc_mark_threads \in Nat
  BY <1>1, FS_CardinalityType, ThreadsAssumption
<1> DEFINE First(j) == UNION {deal[w] : w \in 0 .. j - 1}
           Want(j) == IF count * j < n THEN count * j ELSE n
           Good == {j \in Nat : j <= gc_mark_threads =>
                      First(j) \subseteq work /\ Cardinality(First(j)) = Want(j)}
<1>3. /\ \A w \in Workers : deal[w] \subseteq work /\ Cardinality(deal[w]) = Push(w, n, count)
      /\ \A v, w \in Workers : v # w => deal[v] \cap deal[w] = {}
  BY <1>1 DEF Deals
<1>4. \A w \in Workers : Cardinality({v \in Idle : v < w}) = w
  <2> TAKE w \in Workers
  <2> DEFINE Before == {v \in Idle : v < w}
  <2>1. w \in Nat /\ Before = 0 .. w - 1
    BY <1>2 DEF Workers
  <2> HIDE DEF Before
  <2>2. Cardinality(0 .. w - 1) = IF 0 > w - 1 THEN 0 ELSE w - 1 - 0 + 1
    BY <2>1, FS_Interval
  <2>3. Cardinality(Before) = w
    BY <2>1, <2>2
  <2> QED
    BY <2>3 DEF Before
<1>5. 0 \in Good
  <2>1. First(0) = {}
    OBVIOUS
  <2>2. Want(0) = 0
    BY <1>2
  <2> QED
    BY <2>1, <2>2, FS_EmptySet
<1>6. ASSUME NEW j \in Nat, j \in Good PROVE j + 1 \in Good
  <2> SUFFICES ASSUME j + 1 <= gc_mark_threads
               PROVE  First(j + 1) \subseteq work /\ Cardinality(First(j + 1)) = Want(j + 1)
    OBVIOUS
  <2>1. j \in Workers /\ \A w \in 0 .. j - 1 : w \in Workers /\ w # j
    BY <1>2 DEF Workers
  <2>2. First(j) \subseteq work /\ Cardinality(First(j)) = Want(j)
    BY <1>2, <1>6
  <2>3. First(j + 1) = First(j) \cup deal[j]
    BY <1>2
  <2>4. First(j) \cap deal[j] = {}
    BY <1>3, <2>1
  <2> HIDE DEF First
  <2>5. IsFiniteSet(First(j)) /\ IsFiniteSet(deal[j])
    BY <1>3, <2>1, <2>2, FS_Subset
  <2>6. /\ Cardinality(First(j) \cup deal[j]) =
             Cardinality(First(j)) + Cardinality(deal[j]) - Cardinality(First(j) \cap deal[j])
        /\ Cardinality(First(j) \cap deal[j]) = 0
    <3>1. Cardinality(First(j) \cap deal[j]) = 0
      BY <2>4, FS_EmptySet
    <3> QED
      BY <2>5, <3>1, FS_Union
  <2>7. Cardinality(deal[j]) =
          IF n - count * j > count THEN count ELSE IF n > count * j THEN n - count * j ELSE 0
    BY <1>3, <1>4, <2>1 DEF Push
  <2>8. PICK a \in Nat : a = count * j /\ count * (j + 1) = a + count
    OBVIOUS
  <2>9. Want(j) + Cardinality(deal[j]) = Want(j + 1)
    BY <1>2, <2>7, <2>8
  <2>10. Want(j) \in Nat /\ Cardinality(deal[j]) \in Nat
    BY <1>2, <2>5, <2>8, FS_CardinalityType
  <2> HIDE DEF Want, Good
  <2>11. First(j + 1) \subseteq work
    BY <1>3, <2>1, <2>2, <2>3
  <2>12. Cardinality(First(j + 1)) = Want(j) + Cardinality(deal[j])
    <3>1. Cardinality(First(j + 1)) = Cardinality(First(j) \cup deal[j])
      BY <2>3, Zenon
    <3>2. Cardinality(First(j) \cup deal[j]) = Cardinality(First(j)) + Cardinality(deal[j])
      BY <2>2, <2>6, <2>10
    <3> QED
      BY <2>2, <3>1, <3>2, Zenon
  <2> QED
    BY <2>9, <2>11, <2>12
<1>7. Nat \subseteq Good
  <2> HIDE DEF Good
  <2> QED
    BY <1>5, <1>6, NumberInduction
<1>8. First(gc_mark_threads) \subseteq work /\ Cardinality(First(gc_mark_threads)) = n
  BY <1>1, <1>2, <1>7
<1>9. First(gc_mark_threads) = Dealt(deal)
  BY DEF Dealt, Workers
<1>10. Dealt(deal) = work
  BY <1>1, <1>8, <1>9, FS_Subset
<1> QED
  BY <1>10 DEF Kept

\* An idle thread has nothing on its stack.
LEMMA IdleEmpty == ASSUME IInv PROVE ~DispatchFails
BY DEF IInv, WorkInv, DispatchFails, Idle

LEMMA DispatchAllSafe == ASSUME IInv, DispatchAll PROVE pc' # "fatal"
<1>1. mark_threads_active = {} /\ Idle = Workers
  BY DEF DispatchAll, IInv, ControlInv, Idle
<1>2. Cardinality(Idle) = gc_mark_threads /\ Workers # {}
  <2>1. Cardinality(0 .. gc_mark_threads - 1) =
          IF 0 > gc_mark_threads - 1 THEN 0 ELSE gc_mark_threads - 1 - 0 + 1
    BY FS_Interval, ThreadsAssumption
  <2>2. Cardinality(Workers) = gc_mark_threads /\ 0 \in Workers
    BY <2>1, ThreadsAssumption DEF Workers
  <2> QED
    BY <1>1, <2>2
<1>3. IsFiniteSet(global_mark_stack)
  BY ObjectsAssumption, FS_Subset DEF IInv, TypeOK
<1>4. Cardinality(global_mark_stack) \in Nat
  BY <1>3, FS_CardinalityType
<1>5. PICK n, c :
        /\ n \in Nat
        /\ n = Cardinality(global_mark_stack) /\ c = Count(n, TRUE)
        /\ c = (n + gc_mark_threads - 1) \div gc_mark_threads
  BY <1>2, <1>4 DEF Count
<1>6. CASE global_mark_stack = {}
  BY <1>6, <1>1, IdleEmpty DEF DispatchAll, Kept
<1>7. CASE global_mark_stack # {}
  <2>1. n > 0
    BY <1>3, <1>5, <1>7, FS_EmptySet
  <2>2. c \in Nat /\ c > 0 /\ c * gc_mark_threads >= n
    <3>1. gc_mark_threads \in Nat /\ gc_mark_threads > 0 /\ n \in Nat
      BY <1>5, ThreadsAssumption
    <3>2. /\ (n + gc_mark_threads - 1) \div gc_mark_threads \in Nat
          /\ (n + gc_mark_threads - 1) \div gc_mark_threads > 0
          /\ ((n + gc_mark_threads - 1) \div gc_mark_threads) * gc_mark_threads >= n
      BY <2>1, <3>1, ShareCovers, Zenon
    <3> QED
      BY <1>5, <3>2, Zenon
  <2>3. ~NoDispatch(global_mark_stack, TRUE)
    <3>1. c # 0
      BY <2>2
    <3>2. Idle # {}
      BY <1>1, <1>2
    <3> QED
      BY <1>5, <3>1, <3>2, Zenon DEF NoDispatch
  <2>4. PICK deal \in Deals(global_mark_stack, c) :
          /\ global_mark_stack' = Kept(global_mark_stack, deal)
          /\ pc' = IF DispatchFails \/ global_mark_stack' # {} \/ Idle # Workers THEN "fatal" ELSE "wait"
    BY <1>5, <2>3 DEF DispatchAll
  <2>5. global_mark_stack' = {}
    BY <1>1, <1>3, <1>5, <2>2, <2>4, AllDealt
  <2> QED
    BY <1>1, <2>4, <2>5, IdleEmpty
<1> QED
  BY <1>6, <1>7

LEMMA CollectorSafe == ASSUME IInv, NoFatal, WaitTest \/ MarkEnd PROVE pc' # "fatal"
<1>1. CASE WaitTest
  <2>1. mark_threads_pending \in Nat /\ mark_threads_pending = Cardinality(mark_threads_active)
    BY DEF IInv, TypeOK, ControlInv
  <2>2. IsFiniteSet(mark_threads_active)
    BY IdleCount DEF IInv, TypeOK
  <2>3. ~(mark_threads_pending > 0) => mark_threads_active = {}
    BY <2>1, <2>2, FS_EmptySet
  <2> QED
    BY <1>1, <2>3 DEF WaitTest
<1>2. CASE MarkEnd
  BY <1>2 DEF MarkEnd, IInv, ControlInv, WorkInv
<1> QED
  BY <1>1, <1>2

LEMMA MarkThreadSafe == ASSUME IInv, NoFatal, NEW w \in Workers, MarkThread(w) PROVE pc' # "fatal"
<1>1. CASE DispatchSome(w)
  BY <1>1, IdleEmpty DEF DispatchSome, NoFatal
<1>2. CASE WorkerEnd(w)
  <2>1. w \in mark_threads_active
    BY <1>2 DEF WorkerEnd, IInv, ControlInv
  <2>2. IsFiniteSet(mark_threads_active) /\ mark_threads_pending = Cardinality(mark_threads_active)
        /\ mark_threads_pending \in Nat
    BY IdleCount DEF IInv, TypeOK, ControlInv
  <2>3. mark_threads_pending > 0
    BY <2>1, <2>2, FS_EmptySet
  <2> QED
    BY <1>2, <2>1, <2>2, <2>3 DEF WorkerEnd, NoFatal
<1>3. CASE \/ ReadyAcquire(w) \/ ScanEnd(w) \/ FlushEnd(w)
           \/ \E o \in Objects : FlushPop(w, o) \/ ScanWord(w, o)
  BY <1>3 DEF ReadyAcquire, ScanEnd, FlushEnd, FlushPop, ScanWord, NoFatal
<1> QED
  BY <1>1, <1>2, <1>3 DEF MarkThread

\* The asserts of gc_dispatch_mark, gc_wait_mark_threads, mark_thread_main and
\* gc_mark hold for every heap and number of mark threads; the one that could
\* surprise is that the shares, rounded up, use up the stack of the collector.
THEOREM NoFatalCorrect == Spec => []NoFatal
<1>1. Init => NoFatal
  BY DEF Init, NoFatal
<1>2. IInv /\ NoFatal /\ [Next]_vars => NoFatal'
  <2> SUFFICES ASSUME IInv, NoFatal, [Next]_vars PROVE pc' # "fatal"
    BY DEF NoFatal
  <2>1. CASE UNCHANGED vars
    BY <2>1 DEF vars, NoFatal
  <2>2. CASE gc_mark \/ Spurious
    BY <2>2 DEF gc_mark, Spurious, NoFatal
  <2>3. CASE Collector
    BY <2>3, DispatchAllSafe, CollectorSafe DEF Collector
  <2> QED
    BY <2>1, <2>2, <2>3, MarkThreadSafe DEF Next
<1> QED
  BY <1>1, <1>2, InitIInv, NextIInv, PTL DEF Spec
=============================================================================
