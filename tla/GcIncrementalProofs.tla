------------------------ MODULE GcIncrementalProofs ------------------------
(***************************************************************************)
(* Proofs for GcIncremental: an inductive invariant, the correctness of    *)
(* the final remark, and the refinement of GcHeap.                         *)
(***************************************************************************)
EXTENDS GcIncremental, TLAPS

\* What each program point of a pause knows about the phase of the cycle.
PhaseInv ==
    /\ pc = "prepare" => active /\ preparing
    /\ pc \in {"capture", "roots", "rescan", "drain", "finish"} => active /\ ~preparing
    /\ pc \in {"roots", "rescan", "drain", "finish"} => ~discovering
    /\ pc = "sweep" \/ reclaiming => ~active
    /\ active /\ preparing => Pages \ prepared \subseteq prepareTodo
    /\ active /\ ~preparing => prepared = Pages
    /\ needFlush \cap prepared = {}

\* What a capture and the tracing of its batch leave behind.
CaptureInv ==
    /\ discovering \/ pc \in {"capture", "drain", "finish"} => batch = {} /\ rescanTodo = {}
    /\ captured => pc \in {"roots", "rescan", "drain", "finish"} /\ incoming = {} /\ kdirty = {}
    /\ walking /\ pc # "capture" => spanned
    /\ walking /\ pc = "capture" /\ ~spanned => kdirty \ walkTodo \subseteq incoming
    /\ pc \in {"rescan", "drain", "finish"} => roots \subseteq marked
    /\ pc = "finish" => captured /\ queue = {} /\ block = Null

\* A block that the cycle under way has marked.
Black(o) == o \in marked /\ pageOf[o] \in prepared

\* Word i of o will be read before the cycle ends.
Pending(o, i) ==
    \/ o \in queue
    \/ o = block /\ cursor <= i
    \/ o \in rescanTodo
    \/ pageOf[o] \in incoming \cup batch
    \/ Kernel /\ pageOf[o] \in kdirty

\* No marked block refers to an unmarked one unless it will be read again.
TraceInv ==
    active => \A o \in Objects, i \in Fields :
        Black(o) /\ fields[o][i] # Null /\ ~Pending(o, i) => Black(fields[o][i])

\* What the program can reach survives the sweeps that are still to come: the
\* lazy sweep of a page and the reuse of a retired class.
SweepInv ==
    \A o \in Reach :
        /\ o \in allocated
        /\ pageOf[o] \in needFlush => o \in marked
        /\ pageOf[o] \in retired /\ ~active => o \in marked

\* The inductive invariant.
IInv == TypeOK /\ PhaseInv /\ CaptureInv /\ TraceInv /\ SweepInv

-----------------------------------------------------------------------------
(* Reachability *)

\* The blocks in reach are themselves a closed set.
LEMMA ReachClosed ==
    ASSUME TypeOK
    PROVE  /\ Reach \subseteq Objects
           /\ roots \subseteq Reach
           /\ \A o \in Reach, i \in Fields : fields[o][i] \in Reach \cup {Null}
<1>1. Reach \subseteq Objects
  BY DEF Reach, Heap!Reach
<1>2. roots \subseteq Reach
  BY DEF TypeOK, Reach, Heap!Reach, Heap!Closed
<1>3. ASSUME NEW o \in Reach, NEW i \in Fields
      PROVE  fields[o][i] \in Reach \cup {Null}
  <2>1. o \in Objects /\ fields[o][i] \in Objects \cup {Null}
    BY <1>1 DEF TypeOK
  <2>2. ASSUME NEW S \in SUBSET Objects, Heap!Closed(S), fields[o][i] # Null
        PROVE  fields[o][i] \in S
    <3>1. o \in S
      BY <2>2 DEF Reach, Heap!Reach
    <3> QED BY <2>2, <3>1 DEF Heap!Closed, Fields
  <2> QED BY <2>1, <2>2 DEF Reach, Heap!Reach
<1> QED BY <1>1, <1>2, <1>3

\* And the least one.
LEMMA ReachLeast ==
    ASSUME NEW S \in SUBSET Objects, roots \subseteq S,
           \A o \in S, i \in Fields : fields[o][i] \in S \cup {Null}
    PROVE  Reach \subseteq S
<1> SUFFICES ASSUME NEW o \in Reach, o \notin S PROVE FALSE
  OBVIOUS
<1>1. S \in SUBSET (Objects \ {o})
  OBVIOUS
<1>2. Heap!Closed(S)
  BY DEF Heap!Closed, Fields
<1> QED BY <1>1, <1>2 DEF Reach, Heap!Reach

LEMMA ReachLeastNext ==
    ASSUME NEW S \in SUBSET Objects, roots' \subseteq S,
           \A o \in S, i \in Fields : fields'[o][i] \in S \cup {Null}
    PROVE  Reach' \subseteq S
<1> SUFFICES ASSUME NEW o \in Reach', o \notin S PROVE FALSE
  OBVIOUS
<1>1. S \in SUBSET (Objects \ {o})
  OBVIOUS
<1>2. Heap!Closed(S)'
  BY DEF Heap!Closed, Fields
<1> QED BY <1>1, <1>2 DEF Reach, Heap!Reach

\* Steps that leave the heap alone leave reachability alone.
LEMMA ReachKept == UNCHANGED heapVars => Reach' = Reach
BY DEF heapVars, Reach, Heap!Reach, Heap!Closed

\* The program reaches nothing new by storing what it holds.
LEMMA ReachWrite ==
    ASSUME TypeOK, NEW o \in roots, NEW i \in Fields, NEW v \in roots \cup {Null},
           Heap!Write(o, i, v)
    PROVE  Reach' \subseteq Reach
<1>1. Reach \in SUBSET Objects /\ roots' \subseteq Reach
  BY ReachClosed DEF Heap!Write
<1>2. ASSUME NEW x \in Reach, NEW j \in Fields
      PROVE  fields'[x][j] \in Reach \cup {Null}
  <2>1. fields'[x][j] = IF x = o /\ j = i THEN v ELSE fields[x][j]
    BY <1>1 DEF TypeOK, Heap!Write
  <2> QED BY <2>1, ReachClosed
<1> QED BY <1>1, <1>2, ReachLeastNext

\* Nor by loading or dropping.
LEMMA ReachLoad ==
    ASSUME TypeOK, NEW o \in roots,
           (\E i \in Fields : Heap!Load(o, i)) \/ Heap!Drop(o)
    PROVE  Reach' \subseteq Reach
<1>1. Reach \in SUBSET Objects /\ roots' \subseteq Reach /\ fields' = fields
  BY ReachClosed DEF Heap!Load, Heap!Drop
<1> QED BY <1>1, ReachClosed, ReachLeastNext

\* Reclaiming adds the block that is handed out.
LEMMA ReachReclaim ==
    ASSUME TypeOK, NEW dead, NEW n \in Objects \cup {Null}, Reclaim(dead, n)
    PROVE  Reach' \subseteq Reach \cup ({n} \ {Null})
<1> DEFINE S == Reach \cup ({n} \ {Null})
<1>1. S \in SUBSET Objects /\ roots' \subseteq S
  BY ReachClosed DEF Reclaim, Heap!Reclaim
<1>2. ASSUME NEW x \in S, NEW j \in Fields
      PROVE  fields'[x][j] \in S \cup {Null}
  <2>1. x \in Objects
    BY <1>1
  <2>2. CASE x \in dead \cup {n}
    BY <2>1, <2>2 DEF Reclaim, Heap!Reclaim, Heap!Empty, Fields
  <2>3. CASE x \notin dead \cup {n}
    <3>1. fields'[x] = fields[x] /\ x \in Reach
      BY <2>1, <2>3 DEF Reclaim, Heap!Reclaim
    <3> QED BY <3>1, ReachClosed
  <2> QED BY <2>2, <2>3
<1> HIDE DEF S
<1>3. Reach' \subseteq S
  BY <1>1, <1>2, ReachLeastNext
<1> QED BY <1>3 DEF S

\* The heap keeps its type when blocks are reclaimed.
LEMMA ReclaimType ==
    ASSUME TypeOK, NEW dead, NEW n \in Objects \cup {Null}, Reclaim(dead, n)
    PROVE  /\ allocated' \subseteq Objects
           /\ fields' \in [Objects -> [Fields -> Objects \cup {Null}]]
           /\ roots' \subseteq Objects
BY DEF TypeOK, Reclaim, Heap!Reclaim, Heap!Empty, Fields

\* And when a word is written.
LEMMA WriteType ==
    ASSUME TypeOK, NEW o \in roots, NEW i \in Fields, NEW v \in roots \cup {Null},
           Heap!Write(o, i, v)
    PROVE  /\ allocated' \subseteq Objects
           /\ fields' \in [Objects -> [Fields -> Objects \cup {Null}]]
           /\ \A x \in Objects, j \in Fields :
                 fields'[x][j] = IF x = o /\ j = i THEN v ELSE fields[x][j]
           /\ roots' \subseteq Objects
<1>1. o \in Objects /\ v \in Objects \cup {Null}
  BY DEF TypeOK
<1> QED BY <1>1 DEF TypeOK, Heap!Write

\* A full collection keeps every type.
LEMMA FullMarkType ==
    ASSUME TypeOK, NEW must, FullMark(must), retired' \subseteq Pages, supported' \in BOOLEAN
    PROVE  TypeOK'
<1>1. PICK gone \in SUBSET Pages :
        Reclaim({o \in Objects : pageOf[o] \in gone}, Null) /\ needFlush' = Pages \ gone
  BY DEF FullMark
<1>2. /\ allocated' \subseteq Objects
      /\ fields' \in [Objects -> [Fields -> Objects \cup {Null}]]
      /\ roots' \subseteq Objects
  BY <1>1, ReclaimType
<1>3. marked' \subseteq Objects /\ cursor' \in 1 .. NFields + 1
  BY ReachClosed, FieldAssumption DEF FullMark, Discard
<1> QED BY <1>1, <1>2, <1>3 DEF TypeOK, FullMark, Discard

-----------------------------------------------------------------------------
(* Every step keeps the invariant *)

\* A store, with or without a barrier: its page becomes dirty.
LEMMA WriteStep ==
    ASSUME IInv, ~ReuseInCycle, NEW o \in roots, NEW i \in Fields,
           NEW v \in roots \cup {Null}, Write(o, i, v) \/ NativeWrite(o, i, v)
    PROVE  IInv'
<1> USE PageAssumption, FieldAssumption
      DEF IInv, heapVars, pageVars, phaseVars, traceVars, dirtyVars, walkVars
<1>1. TypeOK'
  <2>1. incoming' \subseteq Pages /\ kdirty' \subseteq Pages
    BY DEF TypeOK, SoftDirty, Enqueued, Write, NativeWrite
  <2>2. CASE Write(o, i, v)
    BY <2>1, <2>2, WriteType DEF TypeOK, Write
  <2>3. CASE NativeWrite(o, i, v)
    BY <2>1, <2>3, WriteType DEF TypeOK, NativeWrite
  <2> QED BY <2>2, <2>3
<1>2. PhaseInv'
  BY DEF TypeOK, PhaseInv, Write, NativeWrite, Heap!Write, SoftDirty, Enqueued, Fields,
         Heap!Fields
<1>3. CaptureInv'
  BY DEF TypeOK, PhaseInv, CaptureInv, Write, NativeWrite, Heap!Write, SoftDirty,
         Enqueued, Fields, Heap!Fields
<1>4. TraceInv'
  <2>1. CASE Write(o, i, v)
    BY <2>1, WriteType DEF TypeOK, PhaseInv, CaptureInv, TraceInv, Black, Pending,
           SoftDirty, Enqueued, Write
  <2>2. CASE NativeWrite(o, i, v)
    BY <2>2, WriteType DEF TypeOK, PhaseInv, CaptureInv, TraceInv, Black, Pending,
           SoftDirty, Enqueued, NativeWrite
  <2> QED BY <2>1, <2>2
<1>5. SweepInv'
  <2>1. Reach' \subseteq Reach
    BY ReachWrite DEF Write, NativeWrite
  <2> QED
    BY <2>1, ReachClosed DEF TypeOK, PhaseInv, CaptureInv, SweepInv, Write, NativeWrite,
           Heap!Write
<1> QED BY <1>1, <1>2, <1>3, <1>4, <1>5

\* The program takes or forgets a reference.
LEMMA LoadStep ==
    ASSUME IInv, ~ReuseInCycle, NEW o \in roots,
           (\E i \in Fields : Load(o, i)) \/ Drop(o)
    PROVE  IInv'
<1> USE PageAssumption, FieldAssumption
      DEF IInv, heapVars, pageVars, phaseVars, traceVars, dirtyVars, walkVars
<1>1. TypeOK'
  BY DEF TypeOK, Load, Drop, Heap!Load, Heap!Drop
<1>2. PhaseInv'
  BY DEF TypeOK, PhaseInv, Load, Drop, Heap!Load, Heap!Drop
<1>3. CaptureInv'
  BY DEF TypeOK, PhaseInv, CaptureInv, Load, Drop, Heap!Load, Heap!Drop
<1>4. TraceInv'
  BY DEF TypeOK, PhaseInv, CaptureInv, TraceInv, Black, Pending, Load, Drop, Heap!Load,
         Heap!Drop
<1>5. SweepInv'
  <2>1. Reach' \subseteq Reach
    BY ReachLoad DEF Load, Drop
  <2> QED
    BY <2>1, ReachClosed DEF TypeOK, PhaseInv, CaptureInv, SweepInv, Load, Drop,
           Heap!Load, Heap!Drop
<1> QED BY <1>1, <1>2, <1>3, <1>4, <1>5

\* An allocation on the locked path: born marked, in a prepared page, while a cycle is active.
LEMMA AllocFullStep ==
    ASSUME IInv, ~ReuseInCycle, NEW o \in Objects, AllocFull(o)
    PROVE  IInv'
<1> USE PageAssumption, FieldAssumption
      DEF IInv, heapVars, pageVars, phaseVars, traceVars, dirtyVars, walkVars
<1>1. TypeOK'
  BY ReclaimType DEF TypeOK, AllocFull, MarksAfterPrepare, SoftDirty, BlocksOf
<1>2. PhaseInv'
  <2>1. pageOf[o] \in Pages /\ needFlush' = needFlush \ {pageOf[o]}
    BY DEF AllocFull
  <2>2. prepared' = IF active THEN prepared \cup {pageOf[o]} ELSE prepared
    BY DEF AllocFull
  <2>3. UNCHANGED <<pc, active, preparing, discovering, reclaiming, prepareTodo>>
    BY DEF AllocFull
  <2> QED BY <2>1, <2>2, <2>3 DEF TypeOK, PhaseInv
<1>3. CaptureInv'
  BY DEF TypeOK, PhaseInv, CaptureInv, AllocFull, Available, Swept, BlocksOf,
         MarksAfterPrepare, SoftDirty, Reclaim, Heap!Reclaim, Heap!Empty, Fields,
         Heap!Fields
<1>4. TraceInv'
  BY DEF TypeOK, PhaseInv, CaptureInv, TraceInv, Black, Pending, AllocFull, Available,
         Swept, BlocksOf, MarksAfterPrepare, SoftDirty, Reclaim, Heap!Reclaim,
         Heap!Empty, Fields, Heap!Fields
<1>5. SweepInv'
  <2>1. Reach' \subseteq Reach \cup {o}
    BY ReachReclaim DEF AllocFull
  <2> QED
    BY <2>1, ReachClosed DEF TypeOK, PhaseInv, CaptureInv, SweepInv, AllocFull,
           Available, Swept, BlocksOf, MarksAfterPrepare, SoftDirty, Reclaim,
           Heap!Reclaim, Heap!Empty, Fields, Heap!Fields
<1> QED BY <1>1, <1>2, <1>3, <1>4, <1>5

\* An allocation from a buffer: a block that no mark bit shows is empty and a root.
LEMMA TlabAllocStep ==
    ASSUME IInv, ~ReuseInCycle, NEW o \in Objects, TlabAlloc(o)
    PROVE  IInv'
<1> USE PageAssumption, FieldAssumption
      DEF IInv, heapVars, pageVars, phaseVars, traceVars, dirtyVars, walkVars
<1>1. TypeOK'
  BY DEF TypeOK, TlabAlloc, Available, Swept, BlocksOf, SoftDirty, Reclaim,
         Heap!Reclaim, Heap!Empty, Fields, Heap!Fields
<1>2. PhaseInv'
  BY DEF TypeOK, PhaseInv, TlabAlloc, Available, Swept, BlocksOf, SoftDirty, Reclaim,
         Heap!Reclaim, Heap!Empty, Fields, Heap!Fields
<1>3. CaptureInv'
  BY DEF TypeOK, PhaseInv, CaptureInv, TlabAlloc, Available, Swept, BlocksOf, SoftDirty,
         Reclaim, Heap!Reclaim, Heap!Empty, Fields, Heap!Fields
<1>4. TraceInv'
  BY DEF TypeOK, PhaseInv, CaptureInv, TraceInv, Black, Pending, TlabAlloc, Available,
         Swept, BlocksOf, SoftDirty, Reclaim, Heap!Reclaim, Heap!Empty, Fields,
         Heap!Fields
<1>5. SweepInv'
  <2>1. Reach' \subseteq Reach \cup {o}
    BY ReachReclaim DEF TlabAlloc
  <2> QED
    BY <2>1, ReachClosed DEF TypeOK, PhaseInv, CaptureInv, SweepInv, TlabAlloc,
           Available, Swept, BlocksOf, SoftDirty, Reclaim, Heap!Reclaim, Heap!Empty,
           Fields, Heap!Fields
<1> QED BY <1>1, <1>2, <1>3, <1>4, <1>5

\* Steps that only move between pauses and the program.
LEMMA ControlStep ==
    ASSUME IInv, ~ReuseInCycle, 
           StepResume \/ StepReclaim \/ SweepStop
    PROVE  IInv'
<1> USE PageAssumption, FieldAssumption
      DEF IInv, heapVars, pageVars, phaseVars, traceVars, dirtyVars, walkVars
<1>1. TypeOK'
  <2>1. CASE StepResume
    BY <2>1 DEF TypeOK, StepResume
  <2>2. CASE StepReclaim
    BY <2>2 DEF TypeOK, StepReclaim
  <2>3. CASE SweepStop
    BY <2>3 DEF TypeOK, SweepStop
  <2> QED BY <2>1, <2>2, <2>3
<1>2. PhaseInv'
  <2>1. CASE StepResume
    BY <2>1 DEF TypeOK, PhaseInv, StepResume
  <2>2. CASE StepReclaim
    BY <2>2 DEF TypeOK, PhaseInv, StepReclaim
  <2>3. CASE SweepStop
    BY <2>3 DEF TypeOK, PhaseInv, SweepStop
  <2> QED BY <2>1, <2>2, <2>3
<1>3. CaptureInv'
  BY DEF TypeOK, PhaseInv, CaptureInv, StepResume, StepReclaim,
         SweepStop
<1>4. TraceInv'
  BY DEF TypeOK, PhaseInv, CaptureInv, TraceInv, Black, Pending, StepResume, StepReclaim, SweepStop
<1>5. SweepInv'
  <2>1. Reach' = Reach
    BY ReachKept DEF StepResume, StepReclaim, SweepStop
  <2> QED
    BY <2>1, ReachClosed DEF TypeOK, PhaseInv, SweepInv, StepResume, StepReclaim, SweepStop
<1> QED BY <1>1, <1>2, <1>3, <1>4, <1>5

\* A cycle begins with no page prepared, so with no marked block.
LEMMA BeginStep ==
    ASSUME IInv, ~ReuseInCycle, StepBegin
    PROVE  IInv'
<1> USE PageAssumption, FieldAssumption
      DEF IInv, heapVars, pageVars, phaseVars, traceVars, dirtyVars, walkVars
<1>1. TypeOK'
  BY DEF TypeOK, StepBegin
<1>2. PhaseInv'
  BY DEF TypeOK, PhaseInv, StepBegin
<1>3. CaptureInv'
  BY DEF TypeOK, PhaseInv, CaptureInv, StepBegin
<1>4. TraceInv'
  BY DEF TypeOK, PhaseInv, CaptureInv, TraceInv, Black, Pending, StepBegin
<1>5. SweepInv'
  <2>1. Reach' = Reach
    BY ReachKept DEF StepBegin
  <2> QED
    BY <2>1, ReachClosed DEF TypeOK, PhaseInv, SweepInv, StepBegin
<1> QED BY <1>1, <1>2, <1>3, <1>4, <1>5

\* A page is swept with the marks of the last collection, then cleared.
LEMMA PrepareStep ==
    ASSUME IInv, ~ReuseInCycle, NEW p \in Pages, Prepare(p)
    PROVE  IInv'
<1> USE PageAssumption, FieldAssumption
      DEF IInv, heapVars, pageVars, phaseVars, traceVars, dirtyVars, walkVars
<1>1. TypeOK'
  BY DEF TypeOK, Prepare, Swept, BlocksOf, MarksAfterPrepare, Reclaim, Heap!Reclaim,
         Heap!Empty, Fields, Heap!Fields
<1>2. PhaseInv'
  BY DEF TypeOK, PhaseInv, Prepare, Swept, BlocksOf, MarksAfterPrepare, Reclaim,
         Heap!Reclaim, Heap!Empty, Fields, Heap!Fields
<1>3. CaptureInv'
  BY DEF TypeOK, PhaseInv, CaptureInv, Prepare, Swept, BlocksOf, MarksAfterPrepare,
         Reclaim, Heap!Reclaim, Heap!Empty, Fields, Heap!Fields
<1>4. TraceInv'
  BY DEF TypeOK, PhaseInv, CaptureInv, TraceInv, Black, Pending, Prepare, Swept,
         BlocksOf, MarksAfterPrepare, Reclaim, Heap!Reclaim, Heap!Empty, Fields,
         Heap!Fields
<1>5. SweepInv'
  <2>1. Reach' \subseteq Reach
    BY ReachReclaim, ReachKept DEF Prepare, heapVars
  <2> QED
    BY <2>1, ReachClosed DEF TypeOK, PhaseInv, CaptureInv, SweepInv, Prepare, Swept,
           BlocksOf, MarksAfterPrepare, Reclaim, Heap!Reclaim, Heap!Empty, Fields,
           Heap!Fields
<1> QED BY <1>1, <1>2, <1>3, <1>4, <1>5

\* Preparation ends with every page prepared.
LEMMA PrepareEndStep ==
    ASSUME IInv, ~ReuseInCycle, PrepareEnd
    PROVE  IInv'
<1> USE PageAssumption, FieldAssumption
      DEF IInv, heapVars, pageVars, phaseVars, traceVars, dirtyVars, walkVars
<1>1. TypeOK'
  BY DEF TypeOK, PrepareEnd
<1>2. PhaseInv'
  BY DEF TypeOK, PhaseInv, PrepareEnd
<1>3. CaptureInv'
  BY DEF TypeOK, PhaseInv, CaptureInv, PrepareEnd
<1>4. TraceInv'
  BY DEF TypeOK, PhaseInv, CaptureInv, TraceInv, Black, Pending, PrepareEnd
<1>5. SweepInv'
  <2>1. Reach' = Reach
    BY ReachKept DEF PrepareEnd
  <2> QED
    BY <2>1, ReachClosed DEF TypeOK, PhaseInv, SweepInv, PrepareEnd
<1> QED BY <1>1, <1>2, <1>3, <1>4, <1>5

\* The roots are marked and queued.
LEMMA ScanRootsStep ==
    ASSUME IInv, ~ReuseInCycle, ScanRoots
    PROVE  IInv'
<1> USE PageAssumption, FieldAssumption
      DEF IInv, heapVars, pageVars, phaseVars, traceVars, dirtyVars, walkVars
<1>1. TypeOK'
  BY DEF TypeOK, ScanRoots, Visit
<1>2. PhaseInv'
  BY DEF TypeOK, PhaseInv, ScanRoots, Visit
<1>3. CaptureInv'
  BY DEF TypeOK, PhaseInv, CaptureInv, ScanRoots, Visit
<1>4. TraceInv'
  BY DEF TypeOK, PhaseInv, CaptureInv, TraceInv, Black, Pending, ScanRoots, Visit
<1>5. SweepInv'
  <2>1. Reach' = Reach
    BY ReachKept DEF ScanRoots, Visit
  <2> QED
    BY <2>1, ReachClosed DEF TypeOK, PhaseInv, SweepInv, ScanRoots, Visit
<1> QED BY <1>1, <1>2, <1>3, <1>4, <1>5

\* A dirty page leaves the batch, its marked blocks are queued again.
LEMMA RescanStep ==
    ASSUME IInv, ~ReuseInCycle, 
           (\E p \in Pages : RescanPop(p)) \/ (\E o \in Objects : RescanBlock(o))
    PROVE  IInv'
<1> USE PageAssumption, FieldAssumption
      DEF IInv, heapVars, pageVars, phaseVars, traceVars, dirtyVars, walkVars
<1>1. TypeOK'
  BY DEF TypeOK, RescanPop, RescanBlock, BlocksOf, Fields, Heap!Fields
<1>2. PhaseInv'
  BY DEF TypeOK, PhaseInv, RescanPop, RescanBlock, BlocksOf, Fields, Heap!Fields
<1>3. CaptureInv'
  BY DEF TypeOK, PhaseInv, CaptureInv, RescanPop, RescanBlock, BlocksOf, Fields,
         Heap!Fields
<1>4. TraceInv'
  <2>1. CASE \E p \in Pages : RescanPop(p)
    BY <2>1 DEF TypeOK, PhaseInv, CaptureInv, TraceInv, Black, Pending, RescanPop,
           BlocksOf
  <2>2. CASE \E o \in Objects : RescanBlock(o)
    BY <2>2 DEF TypeOK, PhaseInv, CaptureInv, TraceInv, Black, Pending, RescanBlock,
           Fields, Heap!Fields
  <2> QED BY <2>1, <2>2
<1>5. SweepInv'
  <2>1. Reach' = Reach
    BY ReachKept DEF RescanPop, RescanBlock, BlocksOf, Fields, Heap!Fields
  <2> QED
    BY <2>1, ReachClosed DEF TypeOK, PhaseInv, SweepInv, RescanPop, RescanBlock,
           BlocksOf, Fields, Heap!Fields
<1> QED BY <1>1, <1>2, <1>3, <1>4, <1>5

\* Steps between the parts of a pause.
LEMMA PauseStep ==
    ASSUME IInv, ~ReuseInCycle, RescanEnd \/ DrainEnd \/ Deadline
    PROVE  IInv'
<1> USE PageAssumption, FieldAssumption
      DEF IInv, heapVars, pageVars, phaseVars, traceVars, dirtyVars, walkVars
<1>1. TypeOK'
  <2>1. CASE RescanEnd
    BY <2>1 DEF TypeOK, RescanEnd
  <2>2. CASE DrainEnd
    BY <2>2 DEF TypeOK, DrainEnd
  <2>3. CASE Deadline
    BY <2>3 DEF TypeOK, Deadline
  <2> QED BY <2>1, <2>2, <2>3
<1>2. PhaseInv'
  BY DEF TypeOK, PhaseInv, RescanEnd, DrainEnd, Deadline
<1>3. CaptureInv'
  BY DEF TypeOK, PhaseInv, CaptureInv, RescanEnd, DrainEnd, Deadline
<1>4. TraceInv'
  BY DEF TypeOK, PhaseInv, CaptureInv, TraceInv, Black, Pending, RescanEnd, DrainEnd,
         Deadline
<1>5. SweepInv'
  <2>1. Reach' = Reach
    BY ReachKept DEF RescanEnd, DrainEnd, Deadline
  <2> QED
    BY <2>1, ReachClosed DEF TypeOK, PhaseInv, SweepInv, RescanEnd, DrainEnd, Deadline
<1> QED BY <1>1, <1>2, <1>3, <1>4, <1>5

\* A queued block is read word by word.
LEMMA DrainStep ==
    ASSUME IInv, ~ReuseInCycle, 
           (\E o \in Objects : DrainPop(o)) \/ DrainField \/ DrainBlockEnd
    PROVE  IInv'
<1> USE PageAssumption, FieldAssumption
      DEF IInv, heapVars, pageVars, phaseVars, traceVars, dirtyVars, walkVars
<1>1. TypeOK'
  BY DEF TypeOK, DrainPop, DrainField, DrainBlockEnd, Visit, Fields, Heap!Fields
<1>2. PhaseInv'
  BY DEF TypeOK, PhaseInv, DrainPop, DrainField, DrainBlockEnd, Visit, Fields,
         Heap!Fields
<1>3. CaptureInv'
  BY DEF TypeOK, PhaseInv, CaptureInv, DrainPop, DrainField, DrainBlockEnd, Visit,
         Fields, Heap!Fields
<1>4. TraceInv'
  <2>1. CASE \E o \in Objects : DrainPop(o)
    BY <2>1 DEF TypeOK, PhaseInv, CaptureInv, TraceInv, Black, Pending, Fields,
           Heap!Fields, DrainPop
  <2>2. CASE DrainField
    BY <2>2 DEF TypeOK, PhaseInv, CaptureInv, TraceInv, Black, Pending, Fields,
           Heap!Fields, DrainField, Visit
  <2>3. CASE DrainBlockEnd
    BY <2>3 DEF TypeOK, PhaseInv, CaptureInv, TraceInv, Black, Pending, Fields,
           Heap!Fields, DrainBlockEnd
  <2> QED BY <2>1, <2>2, <2>3
<1>5. SweepInv'
  <2>1. Reach' = Reach
    BY ReachKept DEF DrainPop, DrainField, DrainBlockEnd, Visit, Fields, Heap!Fields
  <2> QED
    BY <2>1, ReachClosed DEF TypeOK, PhaseInv, SweepInv, DrainPop, DrainField,
           DrainBlockEnd, Visit, Fields, Heap!Fields
<1> QED BY <1>1, <1>2, <1>3, <1>4, <1>5

\* The walk over the soft-dirty bits only adds pages.
LEMMA CaptureStep ==
    ASSUME IInv, ~ReuseInCycle, 
           CaptureStart \/ (\E p \in Pages : CapturePage(p)) \/ CaptureDeadline
    PROVE  IInv'
<1> USE PageAssumption, FieldAssumption
      DEF IInv, heapVars, pageVars, phaseVars, traceVars, dirtyVars, walkVars
<1>1. TypeOK'
  <2>1. CASE CaptureStart
    BY <2>1 DEF TypeOK, CaptureStart
  <2>2. CASE \E p \in Pages : CapturePage(p)
    BY <2>2 DEF TypeOK, CapturePage, Enqueued
  <2>3. CASE CaptureDeadline
    BY <2>3 DEF TypeOK, CaptureDeadline
  <2> QED BY <2>1, <2>2, <2>3
<1>2. PhaseInv'
  BY DEF TypeOK, PhaseInv, CaptureStart, CapturePage, CaptureDeadline, Enqueued
<1>3. CaptureInv'
  BY DEF TypeOK, PhaseInv, CaptureInv, CaptureStart, CapturePage, CaptureDeadline,
         Enqueued
<1>4. TraceInv'
  BY DEF TypeOK, PhaseInv, CaptureInv, TraceInv, Black, Pending, CaptureStart,
         CapturePage, CaptureDeadline, Enqueued
<1>5. SweepInv'
  <2>1. Reach' = Reach
    BY ReachKept DEF CaptureStart, CapturePage, CaptureDeadline, Enqueued
  <2> QED
    BY <2>1, ReachClosed DEF TypeOK, PhaseInv, SweepInv, CaptureStart, CapturePage,
           CaptureDeadline, Enqueued
<1> QED BY <1>1, <1>2, <1>3, <1>4, <1>5

\* Every dirty page is in the batch when the bits are cleared.
LEMMA CaptureDoneStep ==
    ASSUME IInv, ~ReuseInCycle, CaptureDone
    PROVE  IInv'
<1> USE PageAssumption, FieldAssumption
      DEF IInv, heapVars, pageVars, phaseVars, traceVars, dirtyVars, walkVars
<1>1. TypeOK'
  BY DEF TypeOK, CaptureDone, Recaptured
<1>2. PhaseInv'
  BY DEF TypeOK, PhaseInv, CaptureDone, Recaptured
<1>3. CaptureInv'
  BY DEF TypeOK, PhaseInv, CaptureInv, CaptureDone, Recaptured
<1>4. TraceInv'
  BY DEF TypeOK, PhaseInv, CaptureInv, TraceInv, Black, Pending, CaptureDone, Recaptured
<1>5. SweepInv'
  <2>1. Reach' = Reach
    BY ReachKept DEF CaptureDone, Recaptured
  <2> QED
    BY <2>1, ReachClosed DEF TypeOK, PhaseInv, SweepInv, CaptureDone, Recaptured
<1> QED BY <1>1, <1>2, <1>3, <1>4, <1>5

\* At the end of a cycle the marked blocks are closed: every reference out of
\* them would still be pending.
LEMMA FinishMarked ==
    ASSUME IInv, pc = "finish"
    PROVE  Reach \subseteq marked
<1> USE PageAssumption, FieldAssumption DEF IInv
<1>1. marked \in SUBSET Objects /\ roots \subseteq marked
  BY DEF TypeOK, CaptureInv
<1>2. ASSUME NEW o \in marked, NEW i \in Fields
      PROVE  fields[o][i] \in marked \cup {Null}
  <2>1. Black(o) /\ ~Pending(o, i) /\ active
    BY DEF TypeOK, PhaseInv, CaptureInv, Black, Pending
  <2> QED BY <1>1, <2>1 DEF TraceInv, Black
<1> QED BY <1>1, <1>2, ReachLeast

\* The marks are published: every page awaits its sweep.
LEMMA PublishStep ==
    ASSUME IInv, ~ReuseInCycle, Publish
    PROVE  IInv'
<1> USE PageAssumption, FieldAssumption
      DEF IInv, heapVars, pageVars, phaseVars, traceVars, dirtyVars, walkVars
<1>1. TypeOK'
  BY DEF TypeOK, Publish
<1>2. PhaseInv'
  BY DEF TypeOK, PhaseInv, Publish
<1>3. CaptureInv'
  BY DEF TypeOK, PhaseInv, CaptureInv, Publish
<1>4. TraceInv'
  BY DEF TypeOK, PhaseInv, CaptureInv, TraceInv, Black, Pending, Publish
<1>5. SweepInv'
  <2>1. Reach' = Reach /\ Reach \subseteq marked
    BY ReachKept, FinishMarked DEF Publish
  <2> QED
    BY <2>1 DEF SweepInv, Publish
<1> QED BY <1>1, <1>2, <1>3, <1>4, <1>5

\* Only a page whose marks are still those of the last collection is given back.
LEMMA SweepPageStep ==
    ASSUME IInv, ~ReuseInCycle, NEW p \in Pages, SweepPage(p)
    PROVE  IInv'
<1> USE PageAssumption, FieldAssumption
      DEF IInv, heapVars, pageVars, phaseVars, traceVars, dirtyVars, walkVars
<1>1. TypeOK'
  BY ReclaimType DEF TypeOK, SweepPage
<1>2. PhaseInv'
  BY DEF TypeOK, PhaseInv, SweepPage, EmptyPage, BlocksOf, Reclaim, Heap!Reclaim
<1>3. CaptureInv'
  BY DEF TypeOK, PhaseInv, CaptureInv, SweepPage, EmptyPage, BlocksOf, Reclaim,
         Heap!Reclaim
<1>4. TraceInv'
  BY DEF TypeOK, PhaseInv, CaptureInv, TraceInv, Black, Pending, SweepPage, EmptyPage,
         BlocksOf, Reclaim, Heap!Reclaim
<1>5. SweepInv'
  <2>1. Reach' \subseteq Reach
    BY ReachReclaim, ReachKept DEF SweepPage, heapVars
  <2> QED
    BY <2>1, ReachClosed DEF TypeOK, PhaseInv, CaptureInv, SweepInv, SweepPage,
           EmptyPage, BlocksOf, Reclaim, Heap!Reclaim
<1> QED BY <1>1, <1>2, <1>3, <1>4, <1>5

\* A full collection ends the cycle and starts from fresh marks.
LEMMA FullMarkStep ==
    ASSUME IInv, ~ReuseInCycle, 
           gc_major \/ TrackingFails \/ (\E p \in Pages : hl_gc_owner_release(p))
    PROVE  IInv'
<1> USE PageAssumption, FieldAssumption
      DEF IInv, heapVars, pageVars, phaseVars, traceVars, dirtyVars, walkVars
<1>1. TypeOK'
  <2>1. retired' \subseteq Pages /\ supported' \in BOOLEAN /\ \E must : FullMark(must)
    BY DEF TypeOK, gc_major, TrackingFails, hl_gc_owner_release
  <2> QED BY <2>1, FullMarkType
<1>2. PhaseInv'
  BY DEF TypeOK, PhaseInv, gc_major, TrackingFails, hl_gc_owner_release, FullMark,
         Discard, BlocksOf, Reclaim, Heap!Reclaim
<1>3. CaptureInv'
  BY DEF TypeOK, PhaseInv, CaptureInv, gc_major, TrackingFails, hl_gc_owner_release,
         FullMark, Discard, BlocksOf, Reclaim, Heap!Reclaim
<1>4. TraceInv'
  BY DEF TypeOK, PhaseInv, CaptureInv, TraceInv, Black, Pending, gc_major,
         TrackingFails, hl_gc_owner_release, FullMark, Discard, BlocksOf, Reclaim,
         Heap!Reclaim
<1>5. SweepInv'
  <2>1. Reach' \subseteq Reach
    BY ReachReclaim DEF gc_major, TrackingFails, hl_gc_owner_release, FullMark
  <2> QED
    BY <2>1, ReachClosed DEF TypeOK, PhaseInv, CaptureInv, SweepInv, gc_major,
           TrackingFails, hl_gc_owner_release, FullMark, Discard, BlocksOf, Reclaim,
           Heap!Reclaim
<1> QED BY <1>1, <1>2, <1>3, <1>4, <1>5

\* Outside a cycle the marks of a retired class are those of the last collection.
LEMMA ClassRegisterStep ==
    ASSUME IInv, ~ReuseInCycle, NEW p \in Pages, gc_owner_class_register(p)
    PROVE  IInv'
<1> USE PageAssumption, FieldAssumption
      DEF IInv, heapVars, pageVars, phaseVars, traceVars, dirtyVars, walkVars
<1>1. TypeOK'
  BY ReclaimType DEF TypeOK, gc_owner_class_register
<1>2. PhaseInv'
  BY DEF TypeOK, PhaseInv, gc_owner_class_register, EmptyPage, BlocksOf, Reclaim,
         Heap!Reclaim
<1>3. CaptureInv'
  BY DEF TypeOK, PhaseInv, CaptureInv, gc_owner_class_register, EmptyPage, BlocksOf,
         Reclaim, Heap!Reclaim
<1>4. TraceInv'
  BY DEF TypeOK, PhaseInv, CaptureInv, TraceInv, Black, Pending,
         gc_owner_class_register, EmptyPage, BlocksOf, Reclaim, Heap!Reclaim
<1>5. SweepInv'
  <2>1. Reach' \subseteq Reach
    BY ReachReclaim DEF gc_owner_class_register
  <2> QED
    BY <2>1, ReachClosed DEF TypeOK, PhaseInv, CaptureInv, SweepInv,
           gc_owner_class_register, EmptyPage, BlocksOf, Reclaim, Heap!Reclaim
<1> QED BY <1>1, <1>2, <1>3, <1>4, <1>5

-----------------------------------------------------------------------------
LEMMA InitIInv == Init => IInv
<1> SUFFICES ASSUME Init PROVE IInv
  OBVIOUS
<1> USE PageAssumption, FieldAssumption
<1>1. TypeOK
  <2>1. fields \in [Objects -> [Fields -> Objects \cup {Null}]] /\ cursor \in 1 .. NFields + 1
    BY DEF Init, Heap!Empty, Fields, Heap!Fields
  <2> QED BY <2>1 DEF Init, TypeOK
<1>2. PhaseInv /\ CaptureInv /\ TraceInv
  BY DEF Init, PhaseInv, CaptureInv, TraceInv
<1>3. Reach \subseteq {}
  BY ReachLeast DEF Init
<1> QED BY <1>1, <1>2, <1>3 DEF IInv, SweepInv

LEMMA NextIInv == ~ReuseInCycle /\ IInv /\ [Next]_vars => IInv'
<1> SUFFICES ASSUME ~ReuseInCycle, IInv, [Next]_vars PROVE IInv'
  OBVIOUS
<1>1. CASE Mutator
  BY <1>1, WriteStep, LoadStep, AllocFullStep, TlabAllocStep DEF Mutator
<1>2. CASE Collector
  <2>1. CASE StepBegin \/ StepResume \/ StepReclaim \/ PrepareEnd \/ ScanRoots \/ SweepStop
    BY <2>1, BeginStep, ControlStep, PrepareEndStep, ScanRootsStep
  <2>2. ASSUME NEW p \in Pages, Prepare(p) \/ RescanPop(p) \/ CapturePage(p) \/ SweepPage(p)
        PROVE  IInv'
    BY <2>2, PrepareStep, RescanStep, CaptureStep, SweepPageStep
  <2>3. ASSUME NEW o \in Objects, RescanBlock(o) \/ DrainPop(o)
        PROVE  IInv'
    BY <2>3, RescanStep, DrainStep
  <2>4. CASE RescanEnd \/ DrainField \/ DrainBlockEnd \/ DrainEnd \/ Deadline
    BY <2>4, PauseStep, DrainStep
  <2>5. CASE CaptureStart \/ CaptureDeadline \/ CaptureDone \/ Publish
    BY <2>5, CaptureStep, CaptureDoneStep, PublishStep
  <2>6. CASE gc_major \/ TrackingFails \/ \E p \in Pages : hl_gc_owner_release(p)
    BY <2>6, FullMarkStep
  <2>7. ASSUME NEW p \in Pages, gc_owner_class_register(p)
        PROVE  IInv'
    BY <2>7, ClassRegisterStep
  <2> QED BY <1>2, <2>1, <2>2, <2>3, <2>4, <2>5, <2>6, <2>7 DEF Collector
<1>3. CASE UNCHANGED vars
  <2>1. Reach' = Reach
    BY <1>3, ReachKept DEF vars
  <2> QED
    BY <1>3, <2>1 DEF vars, heapVars, pageVars, phaseVars, traceVars, dirtyVars, walkVars,
         IInv, TypeOK, PhaseInv, CaptureInv, TraceInv, Black, Pending, SweepInv
<1> QED BY <1>1, <1>2, <1>3 DEF Next

LEMMA Invariance == ~ReuseInCycle => (Spec => []IInv)
<1> SUFFICES ASSUME ~ReuseInCycle PROVE Spec => []IInv
  OBVIOUS
<1>1. IInv /\ [Next]_vars => IInv'
  BY NextIInv
<1> QED BY InitIInv, <1>1, PTL DEF Spec

-----------------------------------------------------------------------------
(* Theorems *)

\* Every variable of the collector keeps its type.
THEOREM TypeCorrect == ~ReuseInCycle => (Spec => []TypeOK)
<1>1. IInv => TypeOK
  BY DEF IInv
<1> QED BY <1>1, Invariance, PTL

\* What gc_inc_validate checks at run time holds of every cycle: all that is
\* reachable is marked when gc_inc_publish_marks makes the marks a sweep bitmap.
THEOREM FinalRemarkCorrect == ~ReuseInCycle => (Spec => []FinalRemark)
<1>1. IInv => FinalRemark
  BY FinishMarked DEF FinalRemark
<1> QED BY <1>1, Invariance, PTL

\* No reachable block is reclaimed, as long as no retired class is reused while
\* a cycle is under way.
THEOREM NoLossCorrect == ~ReuseInCycle => (Spec => []NoLoss)
<1>1. IInv => NoLoss
  BY DEF IInv, SweepInv, NoLoss
<1> QED BY <1>1, Invariance, PTL

\* gc_dirty_capture_done never meets an unfinished batch.
THEOREM BatchDrainedCorrect == ~ReuseInCycle => (Spec => []BatchDrained)
<1>1. IInv => BatchDrained
  BY DEF IInv, CaptureInv, BatchDrained
<1> QED BY <1>1, Invariance, PTL

\* One step of the program or the collector is a step of GcHeap or leaves the
\* heap alone.
LEMMA StepImplements ==
    ASSUME IInv, ~ReuseInCycle, [Next]_vars
    PROVE  [Heap!Next]_<<allocated, fields, roots>>
<1> USE DEF heapVars
<1>1. ASSUME NEW dead, NEW n \in (Objects \ Reach) \cup {Null}, Reclaim(dead, n),
             dead \subseteq Objects \ Reach
      PROVE  Heap!Next
  BY <1>1 DEF Heap!Next, Heap!Collect, Reclaim, Reach
<1>2. ASSUME NEW o \in roots, NEW i \in Fields, NEW v \in roots \cup {Null},
             Write(o, i, v) \/ NativeWrite(o, i, v)
      PROVE  Heap!Next
  BY <1>2 DEF Heap!Next, Heap!Program, Write, NativeWrite, Fields
<1>3. ASSUME NEW o \in roots, (\E i \in Fields : Load(o, i)) \/ Drop(o)
      PROVE  Heap!Next
  BY <1>3 DEF Heap!Next, Heap!Program, Load, Drop, Fields
<1>4. ASSUME NEW p \in Pages
      PROVE  Swept(p) \subseteq Objects \ Reach
  BY DEF IInv, SweepInv, Swept, BlocksOf
<1>5. ASSUME NEW o \in Objects, AllocFull(o) \/ TlabAlloc(o)
      PROVE  Heap!Next
  <2>1. pageOf[o] \in Pages /\ Reclaim(Swept(pageOf[o]), o)
    BY <1>5, PageAssumption DEF AllocFull, TlabAlloc
  <2>2. o \notin Reach
    BY <1>4, <1>5, <2>1 DEF IInv, SweepInv, AllocFull, TlabAlloc, Available
  <2> QED BY <1>1, <1>4, <2>1, <2>2
<1>6. ASSUME NEW p \in Pages, Prepare(p)
      PROVE  Heap!Next \/ UNCHANGED heapVars
  BY <1>1, <1>4, <1>6 DEF Prepare
<1>7. ASSUME NEW p \in Pages, SweepPage(p) \/ gc_owner_class_register(p)
      PROVE  Heap!Next \/ UNCHANGED heapVars
  <2>1. CASE UNCHANGED heapVars
    BY <2>1
  <2>2. CASE ~UNCHANGED heapVars
    <3>1. Reclaim(BlocksOf(p), Null)
      BY <1>7, <2>2 DEF SweepPage, gc_owner_class_register
    <3>2. BlocksOf(p) \subseteq Objects \ Reach
      BY <1>7, <2>2 DEF IInv, SweepInv, SweepPage, gc_owner_class_register, EmptyPage, BlocksOf
    <3> QED BY <1>1, <3>1, <3>2
  <2> QED BY <2>1, <2>2
<1>8. ASSUME gc_major \/ TrackingFails \/ \E p \in Pages : hl_gc_owner_release(p)
      PROVE  Heap!Next
  <2>1. PICK must : FullMark(must)
    BY <1>8 DEF gc_major, TrackingFails, hl_gc_owner_release
  <2>2. PICK gone \in SUBSET {p \in Pages : BlocksOf(p) \cap Reach = {}} :
          Reclaim({o \in Objects : pageOf[o] \in gone}, Null)
    BY <2>1 DEF FullMark
  <2>3. {o \in Objects : pageOf[o] \in gone} \subseteq Objects \ Reach
    BY <2>2 DEF BlocksOf
  <2> QED BY <1>1, <2>2, <2>3
<1>9. CASE Mutator
  BY <1>2, <1>3, <1>5, <1>9 DEF Mutator
<1>10. CASE Collector
  BY <1>6, <1>7, <1>8, <1>10 DEF Collector, StepBegin, StepResume, StepReclaim,
       PrepareEnd, RescanPop, CapturePage, ScanRoots, RescanBlock, DrainPop, RescanEnd,
       DrainField, DrainBlockEnd, DrainEnd, Deadline, CaptureStart, CaptureDeadline,
       CaptureDone, Publish, SweepStop
<1>11. CASE UNCHANGED vars
  BY <1>11 DEF vars
<1> QED BY <1>9, <1>10, <1>11 DEF Next

\* Incremental collection implements the promise of GcHeap: its lazy sweeps, page
\* releases and full collections reclaim garbage only, and the blocks it hands
\* out are in nobody's reach.
THEOREM Implementation == ~ReuseInCycle => (Spec => ImplementsHeap)
<1> SUFFICES ASSUME ~ReuseInCycle PROVE Spec => ImplementsHeap
  OBVIOUS
<1>1. Init => Heap!Init
  BY DEF Init, Heap!Init
<1>2. IInv /\ [Next]_vars => [Heap!Step]_<<allocated, fields, roots>>
  BY StepImplements DEF Heap!Step, Heap!heap
<1>3. Spec => []IInv
  BY Invariance
<1> QED BY <1>1, <1>2, <1>3, PTL DEF Spec, ImplementsHeap, Heap!Spec, Heap!heap

\* One step of a cycle that has prepared its pages unmarks nothing.
LEMMA StepMarksStay ==
    ASSUME IInv, ~ReuseInCycle, [Next]_vars, active, active', ~preparing
    PROVE  marked \subseteq marked'
<1>1. ASSUME NEW o \in Objects, AllocFull(o)
      PROVE  marked \subseteq marked'
  BY <1>1, PageAssumption DEF IInv, PhaseInv, AllocFull, MarksAfterPrepare
<1>2. CASE Mutator
  BY <1>1, <1>2 DEF Mutator, Write, NativeWrite, Load, Drop, TlabAlloc
<1>3. CASE Collector
  BY <1>3 DEF IInv, PhaseInv, Collector, StepBegin, StepResume, StepReclaim, Prepare,
       PrepareEnd, RescanPop, CapturePage, SweepPage, ScanRoots, Visit, RescanBlock,
       DrainPop, RescanEnd, DrainField, DrainBlockEnd, DrainEnd, Deadline, CaptureStart,
       CaptureDeadline, CaptureDone, Publish, SweepStop, gc_major, TrackingFails,
       hl_gc_owner_release, FullMark, Discard, gc_owner_class_register
<1>4. CASE UNCHANGED vars
  BY <1>4 DEF vars
<1> QED BY <1>2, <1>3, <1>4 DEF Next

\* A mark set after preparation stays until the cycle is over, whatever the
\* program allocates meanwhile.
THEOREM MarksStayCorrect == ~ReuseInCycle => (Spec => MarksStay)
<1> SUFFICES ASSUME ~ReuseInCycle PROVE Spec => MarksStay
  OBVIOUS
<1>1. IInv /\ [Next]_vars => [active /\ active' /\ ~preparing => marked \subseteq marked']_vars
  BY StepMarksStay
<1>2. Spec => []IInv
  BY Invariance
<1> QED BY <1>1, <1>2, PTL DEF Spec, MarksStay
=============================================================================
