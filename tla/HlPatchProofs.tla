--------------------------- MODULE HlPatchProofs ---------------------------
(***************************************************************************)
(* Live patching is correct for every number of threads, readers, patches  *)
(* and functions: code is freed once and only when nobody can reach it, a  *)
(* refused patch leaves nothing behind, and to the running program a patch *)
(* happens in one step.                                                    *)
(***************************************************************************)
EXTENDS HlPatch, FiniteSetTheorems, SequenceTheorems, TLAPS

\* The exclusive section, and the part of it after the commit in which the
\* revision is still the old one.
Stopped    == pc \in {"commit", "publish", "sweep", "migrate", "resume"}
Patching   == Stopped \/ pc \in {"stage", "fail"}
Committing == pc \in {"publish", "sweep"}
Newest     == IF Committing THEN revision + 1 ELSE revision

\* The slots that code c has.
Users(c) == {s \in Slots : owner[s] = c}

\* What TypeOK leaves out.
StateInv ==
    /\ count \in [Tables -> Nat]
    /\ rows = [a \in Tables |-> rows[a]]
    /\ pc \in {"idle", "stage", "fail", "commit", "publish", "sweep", "migrate", "resume",
               "retire", "free"}
    /\ staged \in 0..4
    /\ frames \in [Threads -> SUBSET Nat]
    /\ rpc \in [Readers -> {"out", "counted", "reading", "leaving"}]
    /\ held \in [Readers -> SUBSET Codes]
    /\ instance \in Nat
    /\ closures \subseteq Loaded /\ statics \subseteq Loaded
    /\ patch_readers \in Nat /\ registry_readers \in Nat
    /\ registered \in BOOLEAN /\ alive \in BOOLEAN

\* Which thread and which patch is where.
ControlInv ==
    /\ world # Nobody <=> Stopped
    /\ staged = 0 \/ Patching
    /\ Stopped \/ pc = "fail" => staged = 4
    /\ Patching => patch.base \in 1..MaxRevision - 1 /\ patch.shape \in Shapes

\* The tables the patch was made for, and those the module has.
TableInv ==
    /\ counts \in Seq([Tables -> Nat])
    /\ Len(counts) = revision
    /\ ~Committing => counts[revision] = count
    /\ pc \in {"stage", "fail", "commit"} =>
         /\ patch.base <= revision
         /\ patch.count = counts[patch.base]
         /\ staged > 0 => Current(patch) /\ Fits(patch)
         /\ StaleTypes \/ patch.base = revision \/ "types" \notin patch.shape.adds
    /\ Committing => patch.base = revision
    /\ pc \in {"migrate", "resume"} => patch.base + 1 = revision

\* Past its end a table has only what the patch under way has staged.
RowsInv ==
    \A a \in Tables : \A i \in 1..Capacity[a] :
      i > count[a] /\ rows[a][i] # 0 =>
        /\ pc \in {"stage", "fail", "commit"}
        /\ a \in Staged \cap patch.shape.adds
        /\ i = count[a] + 1

\* A slot leads to the code that owns it, through its entry and its stub.
SlotInv ==
    \A s \in Slots :
      /\ owner[s] <= Newest
      /\ target[s] = IF owner[s] # 0 THEN owner[s] ELSE IF s \in Loaded THEN 1 ELSE 0
      /\ s > count["functions"] => owner[s] = 0
      /\ s \in Loaded => entry[s] = target[s] \/ (entry[s] = 0 /\ owner[s] # 0)

\* Code is used, about to be swept, retired or freed, and only one of these.
CodeInv ==
    /\ \A c \in Codes : references[c] = Cardinality(Users(c))
    /\ ~Committing => superseded = {}
    /\ pc # "sweep" => doomed = {}
    /\ \A c \in live \cup retired \cup freed \cup superseded \cup doomed : c <= Newest
    /\ retired \cap (freed \cup superseded \cup doomed) = {}
    /\ freed \cap (superseded \cup doomed) = {}
    /\ superseded \cap doomed = {}
    /\ alive => \A c \in 2..Newest :
         Users(c) = {} <=> c \in retired \cup freed \cup superseded \cup doomed
    /\ alive /\ pc # "publish" => live = {c \in Codes : Users(c) # {}}
    /\ pc = "publish" => live \cap (retired \cup freed) = {}
    /\ ~alive => live = {} /\ retired = {} /\ 2..revision \subseteq freed

\* A released module that nothing needs stays unused.
RetireInv ==
    /\ pc \in {"retire", "free"} => ~registered
    /\ ~alive => ~registered /\ pc = "idle"
    /\ pc = "free" \/ ~alive => ~Blocked

\* The inductive invariant of what holds for every patch.
IInv == TypeOK /\ StateInv /\ ControlInv /\ TableInv /\ RowsInv /\ SlotInv /\ CodeInv /\ RetireInv

\* Nobody is inside code, or holds it, that is freed or about to be, but for the
\* thread whose patch does it; and nothing runs a module that is being released
\* or is gone.
UseInv ==
    /\ undercut \in [Threads -> SUBSET Nat]
    /\ \A t \in Threads : frames[t] \cap freed \subseteq undercut[t]
    /\ \A t \in Threads \ {lock} : frames[t] \cap doomed = {}
    /\ \A r \in Readers : held[r] \cap (freed \cup doomed) = {}
    /\ \A r \in Readers : rpc[r] # "reading" => held[r] = {}
    /\ ~Serving \/ ~alive => \A t \in Threads : frames[t] = {}

\* The fields that lookups find have names; what the patch has staged, what the
\* stopped program has last seen, and what the patch makes of it.
ShownInv ==
    /\ \A i \in 1..count["fields"] : rows["fields"][i] # 0
    /\ Patching /\ pc # "resume" => report = "none"
    /\ pc \in {"stage", "fail", "commit"} =>
         \A a \in Staged \cap patch.shape.adds : rows[a][count[a] + 1] = patch.base + 1
    /\ pc = "commit" => shown = <<View, instance>>
    /\ Committing \/ pc \in {"migrate", "resume"} =>
         /\ Guarded(patch)
         /\ [View EXCEPT !.revision = Newest] = Atomic!Patched(shown[1], patch.shape, report)
    /\ Committing \/ pc = "migrate" => instance = shown[2]
    /\ pc = "resume" =>
         IF patch.shape.migrates /\ shown[2] # 0
         THEN \/ report = "none" /\ instance = revision
              \/ report = "failed" /\ instance = shown[2]
         ELSE report = "none" /\ instance = shown[2]

-----------------------------------------------------------------------------
(* Helpers *)

\* What the assumptions on the constants give the proofs.
LEMMA Bounds ==
    /\ \A a \in Tables : First[a] \in Nat \ {0} /\ Capacity[a] \in Nat /\ First[a] <= Capacity[a]
    /\ "functions" \in Tables /\ "types" \in Tables
    /\ Loaded \subseteq Slots /\ Loaded \subseteq Nat /\ Slots \subseteq Nat \ {0}
    /\ Codes \subseteq Nat
    /\ MaxRevision \in Nat \ {0}
    /\ \A p \in Shapes : /\ p.slots \subseteq Loaded /\ p.adds \subseteq Tables
                         /\ p.guards \subseteq Loaded /\ p.migrates \in BOOLEAN
                         /\ p.slots # {} \/ "functions" \in p.adds
BY TableAssumption, ShapeAssumption, PatchAssumption DEF Loaded, Slots, Codes

\* A count of slots is a number, and zero only when there are none.
LEMMA SlotCount ==
    ASSUME NEW S \in SUBSET Slots
    PROVE  /\ IsFiniteSet(S)
           /\ Cardinality(S) \in 0..Capacity["functions"]
           /\ Cardinality(S) = 0 <=> S = {}
<1>1. IsFiniteSet(1..Capacity["functions"])
      /\ Cardinality(1..Capacity["functions"]) =
           IF 1 > Capacity["functions"] THEN 0 ELSE Capacity["functions"] - 1 + 1
  BY Bounds, FS_Interval, 1 \in Int, Capacity["functions"] \in Int
<1>2. IsFiniteSet(Slots) /\ Cardinality(Slots) = Capacity["functions"]
  BY <1>1, Bounds DEF Slots
<1>3. IsFiniteSet(S) /\ Cardinality(S) <= Cardinality(Slots)
  BY <1>2, FS_Subset
<1>4. Cardinality(S) \in Nat
  BY <1>3, FS_CardinalityType
<1>5. Cardinality(S) = 0 <=> S = {}
  BY <1>3, FS_EmptySet
<1> QED
  BY <1>2, <1>3, <1>4, <1>5, Bounds

-----------------------------------------------------------------------------
(* The program and the readers                                             *)

\* The invariant says of the program only what it holds.
LEMMA ProgramFrame ==
    ASSUME IInv, UNCHANGED program_frame,
           frames' \in [Threads -> SUBSET Nat], closures' \subseteq Loaded, statics' \subseteq Loaded,
           instance' \in Nat,
           pc = "free" \/ ~alive => closures' \subseteq closures /\ instance' \in {0, instance}
    PROVE  IInv'
<1> USE Bounds DEF IInv, program_frame, module_vars, code_vars, apply_vars, reader_vars, retire_vars
<1>1. TypeOK' /\ StateInv'
  BY DEF TypeOK, StateInv
<1>2. ControlInv' /\ TableInv' /\ RetireInv'
  BY DEF ControlInv, TableInv, RetireInv, Stopped, Patching, Committing, Current, Fits, Blocked
<1>3. RowsInv'
  BY DEF RowsInv, Staged
<1>4. SlotInv' /\ CodeInv'
  BY DEF SlotInv, CodeInv, Newest, Committing, Users
<1> QED
  BY <1>1, <1>2, <1>3, <1>4

\* A slot of the module leads to code of a known revision.
LEMMA SlotsInRange ==
    ASSUME IInv, NEW s \in 1..count["functions"]
    PROVE  s \in Slots /\ Reached(s) \in Nat /\ target[s] \in Nat /\ Reached(s) = target[s]
<1>1. s \in Slots
  BY Bounds DEF IInv, TypeOK, Slots
<1> QED
  BY <1>1, Bounds DEF IInv, TypeOK, SlotInv, Reached

LEMMA CallStep == ASSUME IInv, NEW t \in Threads, Call(t) PROVE IInv'
<1>1. frames' \in [Threads -> SUBSET Nat]
  BY SlotsInRange DEF Call, IInv, StateInv
<1>2. UNCHANGED <<program_frame, closures, statics, instance>>
  BY DEF Call
<1> QED
  BY <1>1, <1>2, ProgramFrame DEF IInv, StateInv

LEMMA ReturnStep == ASSUME IInv, NEW t \in Threads, Return(t) PROVE IInv'
<1>1. frames' \in [Threads -> SUBSET Nat]
  BY DEF Return, IInv, StateInv
<1> QED
  BY <1>1, ProgramFrame DEF IInv, StateInv, Return

\* Only functions of the loaded module are dropped.
LEMMA DroppableLoaded == Droppable \subseteq Loaded
BY Bounds DEF Droppable

LEMMA StoreStep == ASSUME IInv, NEW t \in Threads, Store(t) \/ StoreStatic(t) PROVE IInv'
<1>1. closures' \subseteq Loaded /\ statics' \subseteq Loaded
  BY DroppableLoaded DEF Store, StoreStatic, IInv, StateInv
<1>2. pc = "free" \/ ~alive => closures' \subseteq closures
  BY DEF Store, StoreStatic, Serving, Runs
<1> QED
  BY <1>1, <1>2, ProgramFrame DEF IInv, StateInv, Store, StoreStatic

LEMMA ConstructStep == ASSUME IInv, NEW t \in Threads, Construct(t) PROVE IInv'
<1>1. instance' \in Nat
  BY Bounds DEF Construct, IInv, StateInv, TypeOK
<1>2. pc = "free" \/ ~alive => instance' \in {0, instance}
  BY DEF Construct, Serving, Runs
<1> QED
  BY <1>1, <1>2, ProgramFrame DEF IInv, StateInv, Construct

\* The invariant says of the readers only how many there are.
LEMMA ReaderFrame ==
    ASSUME IInv, UNCHANGED reader_frame,
           rpc' \in [Readers -> {"out", "counted", "reading", "leaving"}],
           held' \in [Readers -> SUBSET Codes],
           patch_readers' = Cardinality({r \in Readers : rpc'[r] # "out"}),
           registry_readers' = Cardinality({r \in Readers : rpc'[r] = "reading"}),
           ~registered => registry_readers' <= registry_readers
    PROVE  IInv'
<1> USE Bounds DEF IInv, reader_frame, module_vars, code_vars, apply_vars, heap_vars
<1>1. IsFiniteSet({r \in Readers : rpc'[r] # "out"}) /\ IsFiniteSet({r \in Readers : rpc'[r] = "reading"})
  BY PatchAssumption, FS_Subset
<1>2. patch_readers' \in Nat /\ registry_readers' \in Nat
  BY <1>1, FS_CardinalityType
<1>3. TypeOK' /\ StateInv'
  BY <1>2 DEF TypeOK, StateInv
<1>4. ControlInv' /\ TableInv'
  BY DEF ControlInv, TableInv, Stopped, Patching, Committing, Current, Fits
<1>5. RetireInv'
  BY <1>2 DEF RetireInv, Blocked, StateInv
<1>6. RowsInv'
  BY DEF RowsInv, Staged
<1>7. SlotInv' /\ CodeInv'
  BY DEF SlotInv, CodeInv, Newest, Committing, Users
<1> QED
  BY <1>3, <1>4, <1>5, <1>6, <1>7

\* One reader more, or one less.
LEMMA ReaderCount ==
    ASSUME IInv, NEW r \in Readers
    PROVE  LET Inside == {q \in Readers : rpc[q] # "out"}
               Reading == {q \in Readers : rpc[q] = "reading"}
           IN /\ r \notin Inside => Cardinality(Inside \cup {r}) = patch_readers + 1
              /\ r \in Inside => Cardinality(Inside \ {r}) = patch_readers - 1
              /\ r \notin Reading => Cardinality(Reading \cup {r}) = registry_readers + 1
              /\ r \in Reading => Cardinality(Reading \ {r}) = registry_readers - 1
<1> DEFINE Inside == {q \in Readers : rpc[q] # "out"}
           Reading == {q \in Readers : rpc[q] = "reading"}
<1>1. IsFiniteSet(Inside) /\ IsFiniteSet(Reading)
  BY PatchAssumption, FS_Subset
<1>2. patch_readers = Cardinality(Inside) /\ registry_readers = Cardinality(Reading)
  BY DEF IInv, TypeOK
<1> HIDE DEF Inside, Reading
<1>3. /\ r \notin Inside => Cardinality(Inside \cup {r}) = patch_readers + 1
      /\ r \in Inside => Cardinality(Inside \ {r}) = patch_readers - 1
  BY <1>1, <1>2, FS_AddElement, FS_RemoveElement
<1>4. /\ r \notin Reading => Cardinality(Reading \cup {r}) = registry_readers + 1
      /\ r \in Reading => Cardinality(Reading \ {r}) = registry_readers - 1
  BY <1>1, <1>2, FS_AddElement, FS_RemoveElement
<1> QED
  BY <1>3, <1>4 DEF Inside, Reading

LEMMA CountStep == ASSUME IInv, NEW r \in Readers, Count(r) PROVE IInv'
<1> USE DEF Count
<1>1. rpc' \in [Readers -> {"out", "counted", "reading", "leaving"}]
  BY DEF IInv, StateInv
<1>2. {q \in Readers : rpc'[q] # "out"} = {q \in Readers : rpc[q] # "out"} \cup {r}
  BY DEF IInv, StateInv
<1>3. {q \in Readers : rpc'[q] = "reading"} = {q \in Readers : rpc[q] = "reading"}
  BY DEF IInv, StateInv
<1>4. registry_readers = Cardinality({q \in Readers : rpc[q] = "reading"})
  BY DEF IInv, TypeOK
<1>5. UNCHANGED <<reader_frame, held, registry_readers>>
  OBVIOUS
<1>6. patch_readers' = Cardinality({q \in Readers : rpc'[q] # "out"})
  BY <1>2, ReaderCount
<1>8. /\ UNCHANGED reader_frame
      /\ held' \in [Readers -> SUBSET Codes]
      /\ ~registered => registry_readers' <= registry_readers
  BY DEF IInv, StateInv
<1> QED
  BY <1>1, <1>3, <1>4, <1>5, <1>6, <1>8, ReaderFrame

LEMMA SnapshotStep == ASSUME IInv, NEW r \in Readers, Snapshot(r) PROVE IInv'
<1> USE DEF Snapshot
<1>1. rpc' \in [Readers -> {"out", "counted", "reading", "leaving"}]
  BY DEF IInv, StateInv
<1>2. {q \in Readers : rpc'[q] # "out"} = {q \in Readers : rpc[q] # "out"}
  BY DEF IInv, StateInv
<1>3. {q \in Readers : rpc'[q] = "reading"} =
        IF registered THEN {q \in Readers : rpc[q] = "reading"} \cup {r}
                      ELSE {q \in Readers : rpc[q] = "reading"}
  BY DEF IInv, StateInv
<1>4. /\ patch_readers = Cardinality({q \in Readers : rpc[q] # "out"})
      /\ registry_readers = Cardinality({q \in Readers : rpc[q] = "reading"})
  BY DEF IInv, TypeOK
<1>5. registry_readers' = Cardinality({q \in Readers : rpc'[q] = "reading"})
  BY <1>3, <1>4, ReaderCount
<1>8. /\ UNCHANGED reader_frame
      /\ held' \in [Readers -> SUBSET Codes]
      /\ ~registered => registry_readers' <= registry_readers
  BY DEF IInv, StateInv
<1> QED
  BY <1>1, <1>2, <1>4, <1>5, <1>8, ReaderFrame

LEMMA ReadRegionsStep == ASSUME IInv, NEW r \in Readers, ReadRegions(r) PROVE IInv'
<1> USE DEF ReadRegions
<1>1. held' \in [Readers -> SUBSET Codes]
  BY DEF IInv, StateInv, TypeOK
<1> QED
  BY <1>1, ReaderFrame DEF IInv, StateInv, TypeOK

LEMMA SnapshotFreeStep == ASSUME IInv, NEW r \in Readers, SnapshotFree(r) PROVE IInv'
<1> USE DEF SnapshotFree
<1>1. /\ rpc' \in [Readers -> {"out", "counted", "reading", "leaving"}]
      /\ held' \in [Readers -> SUBSET Codes]
  BY DEF IInv, StateInv
<1>2. {q \in Readers : rpc'[q] # "out"} = {q \in Readers : rpc[q] # "out"}
  BY DEF IInv, StateInv
<1>3. {q \in Readers : rpc'[q] = "reading"} = {q \in Readers : rpc[q] = "reading"} \ {r}
  BY DEF IInv, StateInv
<1>4. patch_readers = Cardinality({q \in Readers : rpc[q] # "out"})
  BY DEF IInv, TypeOK
<1>5. registry_readers' = Cardinality({q \in Readers : rpc'[q] = "reading"})
  BY <1>3, ReaderCount
<1>8. /\ UNCHANGED reader_frame
      /\ held' \in [Readers -> SUBSET Codes]
      /\ ~registered => registry_readers' <= registry_readers
  BY DEF IInv, StateInv
<1> QED
  BY <1>1, <1>2, <1>4, <1>5, <1>8, ReaderFrame

LEMMA LeaveStep == ASSUME IInv, NEW r \in Readers, Leave(r) PROVE IInv'
<1> USE DEF Leave
<1>1. rpc' \in [Readers -> {"out", "counted", "reading", "leaving"}]
  BY DEF IInv, StateInv
<1>2. {q \in Readers : rpc'[q] # "out"} = {q \in Readers : rpc[q] # "out"} \ {r}
  BY DEF IInv, StateInv
<1>3. {q \in Readers : rpc'[q] = "reading"} = {q \in Readers : rpc[q] = "reading"}
  BY DEF IInv, StateInv
<1>4. registry_readers = Cardinality({q \in Readers : rpc[q] = "reading"})
  BY DEF IInv, TypeOK
<1>5. patch_readers' = Cardinality({q \in Readers : rpc'[q] # "out"})
  BY <1>2, ReaderCount
<1>8. /\ UNCHANGED reader_frame
      /\ held' \in [Readers -> SUBSET Codes]
      /\ ~registered => registry_readers' <= registry_readers
  BY DEF IInv, StateInv
<1> QED
  BY <1>1, <1>3, <1>4, <1>5, <1>8, ReaderFrame

-----------------------------------------------------------------------------
(* The patching thread                                                     *)

LEMMA ApplyStep == ASSUME IInv, NEW t \in Threads, Apply(t) PROVE IInv'
<1> USE Bounds, PatchAssumption DEF IInv, Apply, module_vars, code_vars, heap_vars, reader_vars, retire_vars
<1>1. TypeOK' /\ StateInv'
  BY DEF TypeOK, StateInv, ControlInv, Stopped
<1>2. ControlInv' /\ RetireInv'
  BY DEF ControlInv, RetireInv, Stopped, Patching, Blocked, TypeOK, StateInv, StageOrder
<1>3. TableInv'
  BY DEF TableInv, ControlInv, Stopped, Patching, Committing, Current, Fits, StateInv, TypeOK
<1>4. RowsInv'
  BY DEF TypeOK, RowsInv, Staged, ControlInv, Patching, Stopped
<1>5. SlotInv' /\ CodeInv'
  BY DEF TypeOK, SlotInv, CodeInv, Newest, Committing, Users
<1> QED
  BY <1>1, <1>2, <1>3, <1>4, <1>5

LEMMA RejectStep == ASSUME IInv, NEW t \in Threads, Reject(t) PROVE IInv'
<1> USE Bounds, PatchAssumption DEF IInv, Reject, module_vars, code_vars, heap_vars, reader_vars, retire_vars
<1>1. TypeOK' /\ StateInv'
  BY DEF TypeOK, StateInv, ControlInv, Stopped
<1>2. ControlInv' /\ RetireInv'
  BY DEF ControlInv, RetireInv, Stopped, Patching, Blocked, TypeOK, StateInv, StageOrder
<1>3. TableInv'
  BY DEF TableInv, ControlInv, Stopped, Patching, Committing, Current, Fits, StateInv, TypeOK
<1>4. RowsInv'
  BY DEF TypeOK, RowsInv, Staged, ControlInv, Patching, Stopped
<1>5. SlotInv' /\ CodeInv'
  BY DEF TypeOK, SlotInv, CodeInv, Newest, Committing, Users
<1> QED
  BY <1>1, <1>2, <1>3, <1>4, <1>5

LEMMA ExclusiveBeginStep == ASSUME IInv, NEW t \in Threads, ExclusiveBegin(t) PROVE IInv'
<1> USE Bounds, PatchAssumption DEF IInv, ExclusiveBegin, module_vars, code_vars, heap_vars, reader_vars, retire_vars
<1>1. TypeOK' /\ StateInv'
  BY DEF TypeOK, StateInv, ControlInv, Stopped
<1>2. ControlInv' /\ RetireInv'
  BY DEF ControlInv, RetireInv, Stopped, Patching, Blocked, TypeOK, StateInv, StageOrder
<1>3. TableInv'
  BY DEF TableInv, ControlInv, Stopped, Patching, Committing, Current, Fits, StateInv, TypeOK
<1>4. RowsInv'
  BY DEF TypeOK, RowsInv, Staged, ControlInv, Patching, Stopped
<1>5. SlotInv' /\ CodeInv'
  BY DEF TypeOK, SlotInv, CodeInv, Newest, Committing, Users
<1> QED
  BY <1>1, <1>2, <1>3, <1>4, <1>5

LEMMA GuardRefusedStep == ASSUME IInv, NEW t \in Threads, GuardRefused(t) PROVE IInv'
<1> USE Bounds, PatchAssumption DEF IInv, GuardRefused, module_vars, code_vars, heap_vars, reader_vars, retire_vars
<1>1. TypeOK' /\ StateInv'
  BY DEF TypeOK, StateInv, ControlInv, Stopped
<1>2. ControlInv' /\ RetireInv'
  BY DEF ControlInv, RetireInv, Stopped, Patching, Blocked, TypeOK, StateInv, StageOrder
<1>3. TableInv'
  BY DEF TableInv, ControlInv, Stopped, Patching, Committing, Current, Fits, StateInv, TypeOK
<1>4. RowsInv'
  BY DEF TypeOK, RowsInv, Staged, ControlInv, Patching, Stopped
<1>5. SlotInv' /\ CodeInv'
  BY DEF TypeOK, SlotInv, CodeInv, Newest, Committing, Users
<1> QED
  BY <1>1, <1>2, <1>3, <1>4, <1>5

LEMMA migrate_patch_instancesStep == ASSUME IInv, NEW t \in Threads, migrate_patch_instances(t) PROVE IInv'
<1> USE Bounds, PatchAssumption DEF IInv, migrate_patch_instances, module_vars, code_vars, heap_vars, reader_vars, retire_vars
<1>1. TypeOK' /\ StateInv'
  BY DEF TypeOK, StateInv, ControlInv, Stopped
<1>2. ControlInv' /\ RetireInv'
  BY DEF ControlInv, RetireInv, Stopped, Patching, Blocked, TypeOK, StateInv, StageOrder
<1>3. TableInv'
  BY DEF TableInv, ControlInv, Stopped, Patching, Committing, Current, Fits, StateInv, TypeOK
<1>4. RowsInv'
  BY DEF TypeOK, RowsInv, Staged, ControlInv, Patching, Stopped
<1>5. SlotInv' /\ CodeInv'
  BY DEF TypeOK, SlotInv, CodeInv, Newest, Committing, Users
<1> QED
  BY <1>1, <1>2, <1>3, <1>4, <1>5

LEMMA ExclusiveEndStep == ASSUME IInv, NEW t \in Threads, ExclusiveEnd(t) PROVE IInv'
<1> USE Bounds, PatchAssumption DEF IInv, ExclusiveEnd, module_vars, code_vars, heap_vars, reader_vars, retire_vars
<1>1. TypeOK' /\ StateInv'
  BY DEF TypeOK, StateInv, ControlInv, Stopped
<1>2. ControlInv' /\ RetireInv'
  BY DEF ControlInv, RetireInv, Stopped, Patching, Blocked, TypeOK, StateInv, StageOrder
<1>3. TableInv'
  BY DEF TableInv, ControlInv, Stopped, Patching, Committing, Current, Fits, StateInv, TypeOK
<1>4. RowsInv'
  BY DEF TypeOK, RowsInv, Staged, ControlInv, Patching, Stopped
<1>5. SlotInv' /\ CodeInv'
  BY DEF TypeOK, SlotInv, CodeInv, Newest, Committing, Users
<1> QED
  BY <1>1, <1>2, <1>3, <1>4, <1>5

LEMMA retire_prepareStep == ASSUME IInv, NEW t \in Threads, retire_prepare(t) PROVE IInv'
<1> USE Bounds, PatchAssumption DEF IInv, retire_prepare, module_vars, code_vars, heap_vars, reader_vars, retire_vars
<1>1. TypeOK' /\ StateInv'
  BY DEF TypeOK, StateInv, ControlInv, Stopped
<1>2. ControlInv' /\ RetireInv'
  BY DEF ControlInv, RetireInv, Stopped, Patching, Blocked, TypeOK, StateInv, StageOrder
<1>3. TableInv'
  BY DEF TableInv, ControlInv, Stopped, Patching, Committing, Current, Fits, StateInv, TypeOK
<1>4. RowsInv'
  BY DEF TypeOK, RowsInv, Staged, ControlInv, Patching, Stopped
<1>5. SlotInv' /\ CodeInv'
  BY DEF TypeOK, SlotInv, CodeInv, Newest, Committing, Users
<1> QED
  BY <1>1, <1>2, <1>3, <1>4, <1>5

LEMMA retire_blockedStep == ASSUME IInv, NEW t \in Threads, retire_blocked(t) PROVE IInv'
<1> USE Bounds, PatchAssumption DEF IInv, retire_blocked, module_vars, code_vars, heap_vars, reader_vars, retire_vars
<1>1. TypeOK' /\ StateInv'
  BY DEF TypeOK, StateInv, ControlInv, Stopped
<1>2. ControlInv' /\ RetireInv'
  BY DEF ControlInv, RetireInv, Stopped, Patching, Blocked, TypeOK, StateInv, StageOrder
<1>3. TableInv'
  BY DEF TableInv, ControlInv, Stopped, Patching, Committing, Current, Fits, StateInv, TypeOK
<1>4. RowsInv'
  BY DEF TypeOK, RowsInv, Staged, ControlInv, Patching, Stopped
<1>5. SlotInv' /\ CodeInv'
  BY DEF TypeOK, SlotInv, CodeInv, Newest, Committing, Users
<1> QED
  BY <1>1, <1>2, <1>3, <1>4, <1>5

LEMMA retire_readyStep == ASSUME IInv, NEW t \in Threads, retire_ready(t) PROVE IInv'
<1> USE Bounds, PatchAssumption DEF IInv, retire_ready, module_vars, code_vars, heap_vars, reader_vars, retire_vars
<1>1. TypeOK' /\ StateInv'
  BY DEF TypeOK, StateInv, ControlInv, Stopped
<1>2. ControlInv' /\ RetireInv'
  BY DEF ControlInv, RetireInv, Stopped, Patching, Blocked, TypeOK, StateInv, StageOrder
<1>3. TableInv'
  BY DEF TableInv, ControlInv, Stopped, Patching, Committing, Current, Fits, StateInv, TypeOK
<1>4. RowsInv'
  BY DEF TypeOK, RowsInv, Staged, ControlInv, Patching, Stopped
<1>5. SlotInv' /\ CodeInv'
  BY DEF TypeOK, SlotInv, CodeInv, Newest, Committing, Users
<1> QED
  BY <1>1, <1>2, <1>3, <1>4, <1>5

\* The tables in the order of their staging.
LEMMA Stages ==
    ASSUME staged \in 0..4
    PROVE  /\ Staged \subseteq Tables
           /\ staged = 4 => Staged = Tables
           /\ staged = 0 => Staged = {}
           /\ Len(StageOrder) = 4
           /\ staged < 4 => /\ StageOrder[staged + 1] \in Tables
                            /\ Staged \cup {StageOrder[staged + 1]} =
                                 {StageOrder[i] : i \in 1..staged + 1}
<1>1. \A i \in 1..4 : StageOrder[i] \in Tables
  BY TableAssumption DEF StageOrder
<1>2. Tables = {StageOrder[1], StageOrder[2], StageOrder[3], StageOrder[4]}
  BY TableAssumption DEF StageOrder
<1>3. Len(StageOrder) = 4
  BY DEF StageOrder
<1> QED
  BY <1>1, <1>2, <1>3 DEF Staged

LEMMA StageStep == ASSUME IInv, NEW t \in Threads, Stage(t) PROVE IInv'
<1> DEFINE a == StageOrder[staged + 1]
<1> USE Bounds, PatchAssumption DEF Stage, code_vars, heap_vars, reader_vars, retire_vars
<1>1. /\ staged \in 0..3 /\ a \in Tables /\ Len(StageOrder) = 4
      /\ Staged' = Staged \cup {a}
  <2>1. staged \in 0..4
    BY DEF IInv, StateInv
  <2>2. Len(StageOrder) = 4
    BY <2>1, Stages
  <2>3. staged \in 0..3 /\ staged' = staged + 1
    BY <2>1, <2>2
  <2>4. Staged' = {StageOrder[i] : i \in 1..staged + 1}
    BY <2>3 DEF Staged
  <2> QED
    BY <2>1, <2>2, <2>3, <2>4, Stages
<1>2. /\ patch.base \in 1..MaxRevision - 1 /\ patch.shape \in Shapes
      /\ Current(patch) /\ Fits(patch)
  BY DEF IInv, ControlInv, Patching
<1> HIDE DEF a
<1>3. /\ rows' = [b \in Tables |-> rows'[b]]
      /\ \A b \in Tables : rows'[b] \in [1..Capacity[b] -> 0..MaxRevision]
      /\ \A b \in Tables : \A i \in 1..Capacity[b] :
           rows'[b][i] # rows[b][i] => b = a /\ a \in patch.shape.adds /\ i = count[a] + 1
  <2>1. CASE a \notin patch.shape.adds
    <3>1. rows' = rows
      BY <2>1 DEF StagedRows, a
    <3> QED
      BY <3>1 DEF IInv, TypeOK, StateInv
  <2>2. CASE a \in patch.shape.adds
    <3>1. rows' = [rows EXCEPT ![a][count[a] + 1] = patch.base + 1]
      BY <2>2 DEF StagedRows, a
    <3>2. count[a] + 1 \in 1..Capacity[a] /\ patch.base + 1 \in 0..MaxRevision
      <4>1. count[a] \in Nat /\ count[a] < Capacity[a] /\ Capacity[a] \in Nat
        BY <1>1, <1>2, <2>2 DEF IInv, StateInv, Fits
      <4> QED
        BY <1>2, <4>1
    <3>3. rows = [b \in Tables |-> rows[b]] /\ rows[a] \in [1..Capacity[a] -> 0..MaxRevision]
      BY <1>1 DEF IInv, TypeOK, StateInv
    <3>4. rows' = [b \in Tables |-> IF b = a THEN [rows[a] EXCEPT ![count[a] + 1] = patch.base + 1] ELSE rows[b]]
      BY <1>1, <3>1, <3>3
    <3>5. /\ rows'[a] = [rows[a] EXCEPT ![count[a] + 1] = patch.base + 1]
          /\ \A b \in Tables \ {a} : rows'[b] = rows[b]
      BY <1>1, <3>4
    <3>6. /\ rows'[a] \in [1..Capacity[a] -> 0..MaxRevision]
          /\ \A i \in 1..Capacity[a] : rows'[a][i] # rows[a][i] => i = count[a] + 1
      BY <3>2, <3>3, <3>5
    <3>7. \A b \in Tables : rows[b] \in [1..Capacity[b] -> 0..MaxRevision]
      BY DEF IInv, TypeOK
    <3>8. rows' = [b \in Tables |-> rows'[b]]
      BY <3>4
    <3> QED
      BY <1>1, <2>2, <3>5, <3>6, <3>7, <3>8
  <2> QED
    BY <2>1, <2>2
<1>4. TypeOK' /\ StateInv'
  BY <1>1, <1>3 DEF IInv, TypeOK, StateInv
<1>5. ControlInv' /\ RetireInv'
  BY <1>1 DEF IInv, ControlInv, RetireInv, Stopped, Patching, Blocked
<1>6. TableInv'
  BY <1>1, <1>2 DEF IInv, TableInv, Committing, Current, Fits
<1>7. RowsInv'
  BY <1>1, <1>3 DEF IInv, RowsInv
<1>8. SlotInv' /\ CodeInv'
  BY DEF IInv, TypeOK, SlotInv, CodeInv, Newest, Committing, Users
<1> QED
  BY <1>4, <1>5, <1>6, <1>7, <1>8 DEF IInv

\* `fail:` clears what was staged and nothing else past the ends.
LEMMA FailStep == ASSUME IInv, NEW t \in Threads, Fail(t) PROVE IInv'
<1> USE Bounds, PatchAssumption DEF Fail, Refuse, code_vars, heap_vars, reader_vars, retire_vars
<1>1. /\ rows' = [b \in Tables |-> rows'[b]]
      /\ \A b \in Tables : rows'[b] \in [1..Capacity[b] -> 0..MaxRevision]
      /\ \A b \in Tables : \A i \in 1..Capacity[b] : rows'[b][i] \in {0, rows[b][i]}
  BY DEF IInv, TypeOK, Unstaged
<1>2. \A b \in Tables : \A i \in 1..Capacity[b] : i > count[b] => rows'[b][i] = 0
  <2> SUFFICES ASSUME NEW b \in Tables, NEW i \in 1..Capacity[b], i > count[b], rows[b][i] # 0
               PROVE  rows'[b][i] = 0
    BY <1>1
  <2>1. b \in Staged \cap patch.shape.adds /\ i = count[b] + 1
    BY DEF IInv, RowsInv
  <2>2. staged > 0
    BY <2>1, Stages DEF IInv, StateInv
  <2>3. patch.count = count
    BY <2>2 DEF IInv, TableInv, Current
  <2> QED
    BY <2>1, <2>3 DEF Unstaged
<1>3. TypeOK' /\ StateInv'
  BY <1>1 DEF IInv, TypeOK, StateInv, ControlInv, Stopped
<1>4. ControlInv' /\ RetireInv'
  BY DEF IInv, ControlInv, RetireInv, Stopped, Patching, Blocked
<1>5. TableInv'
  BY DEF IInv, TableInv, Committing, Current, Fits
<1>6. RowsInv'
  BY <1>2 DEF RowsInv
<1>7. SlotInv' /\ CodeInv'
  BY DEF IInv, TypeOK, SlotInv, CodeInv, Newest, Committing, Users
<1> QED
  BY <1>3, <1>4, <1>5, <1>6, <1>7 DEF IInv

\* The code that slots have is of a committed revision and counted.
LEMMA UsersOf ==
    ASSUME IInv, NEW c \in Codes
    PROVE  /\ Users(c) # {} <=> \E s \in 1..count["functions"] : owner[s] = c
           /\ Users(c) # {} <=> references[c] > 0
           /\ Users(c) # {} => c <= Newest
<1>0. c # 0
  BY Bounds DEF Codes
<1>1. \A s \in Slots : s > count["functions"] => owner[s] # c
  BY <1>0 DEF IInv, SlotInv
<1>2. 1..count["functions"] \subseteq Slots /\ \A s \in Slots : s \in 1..count["functions"] \/ s > count["functions"]
  BY Bounds DEF IInv, TypeOK, Slots
<1>3. Users(c) # {} <=> \E s \in Slots : owner[s] = c
  BY DEF Users
<1>4. Users(c) # {} => c <= Newest
  BY <1>3 DEF IInv, SlotInv
<1>5. Users(c) \in SUBSET Slots /\ references[c] = Cardinality(Users(c))
  BY DEF Users, IInv, CodeInv
<1>6. Users(c) # {} <=> references[c] > 0
  <2>1. Cardinality(Users(c)) \in 0..Capacity["functions"] /\ (Cardinality(Users(c)) = 0 <=> Users(c) = {})
    BY <1>5, SlotCount
  <2>2. Cardinality(Users(c)) \in Nat
    BY <2>1, Bounds
  <2> QED
    BY <1>5, <2>1, <2>2
<1> QED
  BY <1>1, <1>2, <1>3, <1>4, <1>6

LEMMA patch_live_publishStep == ASSUME IInv, NEW t \in Threads, patch_live_publish(t) PROVE IInv'
<1> USE Bounds, PatchAssumption DEF IInv, patch_live_publish, module_vars, code_vars, heap_vars, reader_vars, retire_vars
<1>0. /\ live' = {c \in Codes : Users(c) # {}}
      /\ alive /\ pc = "publish" /\ pc' = "sweep"
  <2>1. live' = {owner[s] : s \in 1..count["functions"]} \ {0}
    OBVIOUS
  <2>2. 1..count["functions"] \subseteq Slots
    BY DEF TypeOK, Slots
  <2>3. \A s \in 1..count["functions"] : owner[s] \in Codes \cup {0}
    BY <2>2 DEF TypeOK
  <2>4. \A c \in Codes : c # 0 /\ (Users(c) # {} <=> \E s \in 1..count["functions"] : owner[s] = c)
    BY UsersOf DEF Codes
  <2>5. live' = {c \in Codes : Users(c) # {}}
    <3> HIDE DEF IInv, patch_live_publish
    <3>1. ASSUME NEW c \in live' PROVE c \in Codes /\ Users(c) # {}
      <4>1. PICK s \in 1..count["functions"] : owner[s] = c /\ c # 0
        BY <2>1
      <4>2. c \in Codes
        BY <2>3, <4>1
      <4> QED
        BY <2>4, <4>1, <4>2
    <3>2. \A c \in Codes : Users(c) # {} => c \in live'
      BY <2>1, <2>3, <2>4
    <3> QED
      BY <3>1, <3>2
  <2> QED
    BY <2>5 DEF RetireInv, StateInv
<1>1. TypeOK' /\ StateInv'
  BY <1>0 DEF TypeOK, StateInv, ControlInv, Stopped
<1>2. ControlInv' /\ RetireInv'
  BY DEF ControlInv, RetireInv, Stopped, Patching, Blocked, TypeOK, StateInv
<1>3. TableInv'
  BY DEF TableInv, ControlInv, Stopped, Patching, Committing, Current, Fits, StateInv, TypeOK
<1>4. RowsInv'
  BY DEF TypeOK, RowsInv, Staged, ControlInv, Patching, Stopped
<1>5. SlotInv'
  BY DEF TypeOK, SlotInv, Newest, Committing
<1>6. CodeInv'
  <2>1. Newest' = Newest /\ Codes = Codes /\ \A c : Users(c)' = Users(c)
    BY DEF Newest, Committing, Users
  <2>2. \A c \in Codes : Users(c) # {} => c <= Newest
    BY UsersOf
  <2>3. \A c \in live' : c <= Newest
    BY <1>0, <2>2
  <2>4. live' = {c \in Codes : Users(c)' # {}}
    BY <1>0, <2>1
  <2>5. CodeInv
    OBVIOUS
  <2> HIDE DEF IInv
  <2> QED
    BY <1>0, <2>1, <2>3, <2>4, <2>5 DEF CodeInv, Committing
<1> QED
  BY <1>1, <1>2, <1>3, <1>4, <1>5, <1>6

LEMMA SweepCodeStep == ASSUME IInv, NEW t \in Threads, SweepCode(t) PROVE IInv'
<1> USE Bounds, PatchAssumption DEF IInv, SweepCode, module_vars, code_vars, heap_vars, reader_vars, retire_vars
<1>1. TypeOK' /\ StateInv'
  BY DEF TypeOK, StateInv, ControlInv, Stopped
<1>2. ControlInv' /\ RetireInv'
  BY DEF ControlInv, RetireInv, Stopped, Patching, Blocked, TypeOK, StateInv
<1>3. TableInv'
  BY DEF TableInv, ControlInv, Stopped, Patching, Committing, Current, Fits, StateInv, TypeOK
<1>4. RowsInv'
  BY DEF TypeOK, RowsInv, Staged, ControlInv, Patching, Stopped
<1>5. SlotInv'
  BY DEF TypeOK, SlotInv, Newest, Committing
<1>6. CodeInv'
  <2>1. PICK c \in superseded :
          /\ superseded' = superseded \ {c}
          /\ \/ doomed' = {c} /\ retired' = retired
             \/ retired' = retired \cup {c} /\ doomed' = doomed
    OBVIOUS
  <2>2. Newest' = Newest /\ \A d : Users(d)' = Users(d)
    BY DEF Newest, Committing, Users
  <2>3. CodeInv /\ doomed = {} /\ pc' = pc /\ pc = "sweep" /\ UNCHANGED <<live, freed, alive, references, revision>>
    OBVIOUS
  <2>4. alive
    BY DEF RetireInv
  <2> HIDE DEF IInv, SweepCode
  <2> QED
    BY <2>1, <2>2, <2>3, <2>4 DEF CodeInv, Committing
<1> QED
  BY <1>1, <1>2, <1>3, <1>4, <1>5, <1>6

LEMMA patch_code_freeStep == ASSUME IInv, NEW t \in Threads, patch_code_free(t) PROVE IInv'
<1> USE Bounds, PatchAssumption DEF IInv, patch_code_free, module_vars, code_vars, heap_vars, reader_vars, retire_vars
<1>1. TypeOK' /\ StateInv'
  BY DEF TypeOK, StateInv, ControlInv, Stopped
<1>2. ControlInv' /\ RetireInv'
  BY DEF ControlInv, RetireInv, Stopped, Patching, Blocked, TypeOK, StateInv
<1>3. TableInv'
  BY DEF TableInv, ControlInv, Stopped, Patching, Committing, Current, Fits, StateInv, TypeOK
<1>4. RowsInv'
  BY DEF TypeOK, RowsInv, Staged, ControlInv, Patching, Stopped
<1>5. SlotInv'
  BY DEF TypeOK, SlotInv, Newest, Committing
<1>6. CodeInv'
  BY DEF TypeOK, SlotInv, CodeInv, Newest, Committing, Users
<1> QED
  BY <1>1, <1>2, <1>3, <1>4, <1>5, <1>6

LEMMA SetRevisionStep == ASSUME IInv, NEW t \in Threads, SetRevision(t) PROVE IInv'
<1> USE Bounds, PatchAssumption DEF IInv, SetRevision, module_vars, code_vars, heap_vars, reader_vars, retire_vars
<1>0. /\ patch.base = revision /\ revision' = revision + 1 /\ revision + 1 <= MaxRevision
      /\ Newest' = Newest /\ alive /\ revision \in Nat
  BY DEF TableInv, ControlInv, Committing, Newest, TypeOK, Patching, Stopped, RetireInv, StateInv
<1>1. TypeOK' /\ StateInv'
  BY <1>0 DEF TypeOK, StateInv, ControlInv, Stopped
<1>2. ControlInv' /\ RetireInv'
  BY DEF ControlInv, RetireInv, Stopped, Patching, Blocked, TypeOK, StateInv
<1>3. TableInv'
  BY DEF TableInv, ControlInv, Stopped, Patching, Committing, Current, Fits, StateInv, TypeOK
<1>4. RowsInv'
  BY DEF TypeOK, RowsInv, Staged, ControlInv, Patching, Stopped
<1>5. SlotInv'
  BY <1>0 DEF SlotInv
<1>6. CodeInv'
  <2>1. \A d : Users(d)' = Users(d)
    BY DEF Users
  <2>2. /\ CodeInv /\ pc = "sweep" /\ pc' = "migrate" /\ superseded = {} /\ doomed = {}
        /\ UNCHANGED <<live, retired, freed, superseded, doomed, alive, references>>
    OBVIOUS
  <2> HIDE DEF IInv, SetRevision
  <2> QED
    BY <1>0, <2>1, <2>2 DEF CodeInv, Committing
<1> QED
  BY <1>1, <1>2, <1>3, <1>4, <1>5, <1>6

LEMMA free_shutdownStep == ASSUME IInv, NEW t \in Threads, free_shutdown(t) PROVE IInv'
<1> USE Bounds, PatchAssumption DEF IInv, free_shutdown, module_vars, code_vars, heap_vars, reader_vars, retire_vars
<1>1. TypeOK' /\ StateInv'
  BY DEF TypeOK, StateInv, ControlInv, Stopped
<1>2. ControlInv' /\ RetireInv'
  BY DEF ControlInv, RetireInv, Stopped, Patching, Blocked, TypeOK, StateInv
<1>3. TableInv'
  BY DEF TableInv, ControlInv, Stopped, Patching, Committing, Current, Fits, StateInv, TypeOK
<1>4. RowsInv'
  BY DEF TypeOK, RowsInv, Staged, ControlInv, Patching, Stopped
<1>5. SlotInv'
  BY DEF TypeOK, SlotInv, Newest, Committing
<1>6. CodeInv'
  <2>1. Newest' = Newest /\ Newest = revision /\ \A d : Users(d)' = Users(d)
    BY DEF Newest, Committing, Users
  <2>2. /\ CodeInv /\ pc = "free" /\ pc' = "idle" /\ alive /\ ~alive' /\ live' = {} /\ retired' = {}
        /\ freed' = freed \cup retired \cup {o \in Codes : references[o] > 0}
        /\ UNCHANGED <<superseded, doomed, references, revision>>
    BY DEF RetireInv, StateInv
  <2>3. \A c \in Codes : references[c] > 0 <=> Users(c) # {}
    BY UsersOf
  <2>4. \A c \in Codes : Users(c) # {} => c <= revision
    BY <2>1, UsersOf
  <2>5. revision \in 1..MaxRevision
    BY DEF TypeOK
  <2>6. superseded = {} /\ doomed = {} /\ 2..revision \subseteq Codes
    BY <2>2, <2>5 DEF CodeInv, Committing, Codes
  <2> HIDE DEF IInv, free_shutdown
  <2>7. 2..revision \subseteq freed'
    BY <2>1, <2>2, <2>3, <2>6 DEF CodeInv
  <2>8. \A c \in freed' : c <= Newest
    BY <2>1, <2>2, <2>3, <2>4 DEF CodeInv
  <2> QED
    BY <2>1, <2>2, <2>6, <2>7, <2>8 DEF CodeInv, Committing
<1> QED
  BY <1>1, <1>2, <1>3, <1>4, <1>5, <1>6

\* The tables grow over what was staged; the new code takes its slots from the
\* code that had them, and what is left without a slot is to be swept.
LEMMA CommitStep == ASSUME IInv, NEW t \in Threads, Commit(t) PROVE IInv'
<1>a. PICK c : c = patch.base + 1
  OBVIOUS
<1>b. PICK N : N = NewCode(patch)
  OBVIOUS
<1> DEFINE Taken(o) == {s \in N : owner[s] = o}
<1> USE Bounds
<1>1. /\ pc = "commit" /\ pc' = "publish" /\ lock = t /\ staged = 4
      /\ patch.base = revision /\ patch.shape \in Shapes
      /\ c \in Codes /\ c = revision + 1 /\ revision \in Nat \ {0}
      /\ Fits(patch) /\ alive /\ Newest = revision /\ Newest' = c
      /\ superseded = {} /\ doomed = {}
  <2>1. pc = "commit" /\ pc' = "publish" /\ lock = t /\ revision' = revision
    BY DEF Commit
  <2>2. staged = 4 /\ patch.shape \in Shapes /\ patch.base \in 1..MaxRevision - 1
    BY <2>1 DEF IInv, ControlInv, Stopped, Patching
  <2>3. patch.base = revision /\ Fits(patch)
    BY <2>1, <2>2 DEF IInv, TableInv, Current
  <2>4. alive /\ superseded = {} /\ doomed = {}
    BY <2>1 DEF IInv, RetireInv, CodeInv, Committing, StateInv
  <2>5. Newest = revision /\ Newest' = revision + 1
    BY <2>1 DEF Newest, Committing
  <2>6. c \in Codes /\ c = revision + 1 /\ revision \in Nat \ {0}
    BY <1>a, <2>2, <2>3 DEF Codes
  <2> QED
    BY <2>1, <2>2, <2>3, <2>4, <2>5, <2>6
<1>2. /\ UNCHANGED <<revision, rows, live, retired, freed, frames, closures, statics, instance>>
      /\ UNCHANGED <<patch_readers, rpc, held, registered, registry_readers, alive>>
      /\ UNCHANGED <<lock, world, patch, counts, staged, doomed, report, shown>>
  BY DEF Commit, code_vars, heap_vars, reader_vars, retire_vars
<1>3. /\ count' \in [Tables -> Nat]
      /\ \A a \in Tables : /\ count'[a] \in First[a]..Capacity[a]
                           /\ count'[a] = IF a \in patch.shape.adds THEN count[a] + 1 ELSE count[a]
                           /\ count[a] \in First[a]..Capacity[a]
  <2>1. count' = Published(patch)
    BY DEF Commit
  <2>2. \A a \in Tables : count[a] \in First[a]..Capacity[a] /\ count[a] \in Nat
    BY DEF IInv, TypeOK, StateInv
  <2>3. \A a \in patch.shape.adds : a \in Tables /\ count[a] < Capacity[a]
    BY <1>1 DEF Fits
  <2> QED
    BY <2>1, <2>2, <2>3 DEF Published
<1>4. /\ N \subseteq Slots /\ N # {} /\ N \in SUBSET Slots
      /\ \A s \in N : s <= count'["functions"]
  BY <1>b, <1>1, <1>3 DEF NewCode, Loaded, Slots
<1>5. /\ owner' = [s \in Slots |-> IF s \in N THEN c ELSE owner[s]]
      /\ target' = [s \in Slots |-> IF s \in N THEN c ELSE target[s]]
      /\ references' = [o \in Codes |-> IF o = c THEN Cardinality(N)
                                                 ELSE references[o] - Cardinality(Taken(o))]
      /\ superseded' = {o \in Codes : references[o] > 0 /\ references'[o] = 0}
  BY <1>a, <1>b DEF Commit
<1>6. \A s \in Slots : owner[s] \in {0} \cup Codes /\ owner[s] <= revision /\ owner[s] # c
  BY <1>1 DEF IInv, TypeOK, SlotInv, Codes
<1>7. /\ Users(c) = {} /\ Users(c)' = N
      /\ \A o \in Codes \ {c} : Users(o)' = Users(o) \ Taken(o) /\ Taken(o) \subseteq Users(o)
  <2>1. Users(c) = {} /\ Users(c)' = N
    BY <1>4, <1>5, <1>6 DEF Users
  <2>2. ASSUME NEW o \in Codes \ {c}
        PROVE  Users(o)' = Users(o) \ Taken(o) /\ Taken(o) \subseteq Users(o)
    BY <1>4, <1>5, <1>6 DEF Users
  <2> QED
    BY <2>1, <2>2
<1> HIDE DEF Taken
<1>8. \A o \in Codes : references'[o] = Cardinality(Users(o)')
  <2>1. references'[c] = Cardinality(Users(c)')
    BY <1>1, <1>5, <1>7
  <2>2. ASSUME NEW o \in Codes \ {c} PROVE references'[o] = Cardinality(Users(o)')
    <3>1. IsFiniteSet(Users(o)) /\ references[o] = Cardinality(Users(o))
      BY SlotCount DEF Users, IInv, CodeInv
    <3>2. Cardinality(Users(o) \ Taken(o)) = Cardinality(Users(o)) - Cardinality(Users(o) \cap Taken(o))
      BY <3>1, FS_Difference
    <3>3. Users(o) \cap Taken(o) = Taken(o)
      BY <1>7
    <3> QED
      BY <1>5, <1>7, <3>1, <3>2, <3>3
  <2> QED
    BY <1>1, <2>1, <2>2
<1>9. \A o \in Codes : /\ references'[o] \in 0..Capacity["functions"]
                       /\ references'[o] = 0 <=> Users(o)' = {}
  <2> TAKE o \in Codes
  <2>1. Users(o)' \in SUBSET Slots
    BY <1>4, <1>7 DEF Users
  <2> QED
    BY <1>8, <2>1, SlotCount
<1>10. superseded' = {o \in Codes : Users(o) # {} /\ Users(o)' = {}}
  BY <1>5, <1>9, UsersOf
<1>11. /\ entry' \in [Loaded -> 0..MaxRevision]
       /\ \A s \in Loaded \ patch.shape.slots : entry'[s] = entry[s]
       /\ \A s \in patch.shape.slots : entry'[s] \in {0, c}
  <2>1. PICK near \in SUBSET patch.shape.slots : entry' = Redirected(patch, near)
    BY DEF Commit
  <2>2. patch.shape.slots \subseteq Loaded /\ entry \in [Loaded -> 0..MaxRevision]
    BY <1>1 DEF IInv, TypeOK
  <2>3. c \in 0..MaxRevision /\ c = patch.base + 1
    BY <1>a, <1>1 DEF Codes
  <2>4. entry' = [s \in Loaded |-> IF s \notin patch.shape.slots THEN entry[s]
                                  ELSE IF s \in near THEN c ELSE 0]
    BY <2>1, <2>3 DEF Redirected
  <2> QED
    BY <2>2, <2>3, <2>4
<1>12. TypeOK'
  <2>1. owner' \in [Slots -> {0} \cup Codes] /\ target' \in [Slots -> 0..MaxRevision]
    BY <1>1, <1>5, <1>6 DEF IInv, TypeOK, Codes
  <2>2. references' \in [Codes -> 0..Capacity["functions"]]
    BY <1>5, <1>9
  <2>3. (live \cup retired \cup freed \cup superseded \cup doomed)' \subseteq Codes
    BY <1>2, <1>5 DEF IInv, TypeOK
  <2> QED
    BY <1>1, <1>2, <1>3, <1>11, <2>1, <2>2, <2>3 DEF IInv, TypeOK
<1>13. StateInv'
  BY <1>1, <1>2, <1>3 DEF IInv, StateInv
<1>14. ControlInv' /\ RetireInv' /\ TableInv'
  BY <1>1, <1>2, <1>3 DEF IInv, ControlInv, RetireInv, TableInv, Stopped, Patching, Committing, Blocked
<1>15. RowsInv'
  <2> SUFFICES ASSUME NEW a \in Tables, NEW i \in 1..Capacity[a], i > count'[a]
               PROVE  rows[a][i] = 0
    BY <1>2 DEF RowsInv
  <2> QED
    BY <1>3 DEF IInv, RowsInv
<1>16. SlotInv'
  <2> SUFFICES ASSUME NEW s \in Slots
               PROVE  /\ owner'[s] <= Newest'
                      /\ target'[s] = IF owner'[s] # 0 THEN owner'[s] ELSE IF s \in Loaded THEN 1 ELSE 0
                      /\ s > count'["functions"] => owner'[s] = 0
                      /\ s \in Loaded => entry'[s] = target'[s] \/ (entry'[s] = 0 /\ owner'[s] # 0)
    BY DEF SlotInv
  <2>1. CASE s \in N
    <3>1. owner'[s] = c /\ target'[s] = c /\ c # 0 /\ c \in Nat /\ s <= count'["functions"]
      BY <1>1, <1>4, <1>5, <2>1
    <3>2. count'["functions"] \in Nat /\ s \in Nat
      BY <1>3
    <3>3. s \in Loaded => s \in patch.shape.slots
      BY <1>b, <2>1, <1>3 DEF NewCode, Loaded
    <3>4. s \in Loaded => entry'[s] \in {0, c}
      BY <1>11, <3>3
    <3> QED
      BY <1>1, <3>1, <3>2, <3>4
  <2>2. CASE s \notin N
    <3>1. owner'[s] = owner[s] /\ target'[s] = target[s]
      BY <1>5, <2>2
    <3>2. s > count'["functions"] => s > count["functions"]
      <4>1. /\ count'["functions"] \in {count["functions"], count["functions"] + 1}
            /\ count["functions"] \in Nat /\ s \in Nat
        <5>1. "functions" \in Tables /\ s \in Nat
          OBVIOUS
        <5>2. count["functions"] \in Nat
          BY <5>1 DEF IInv, StateInv
        <5> QED
          BY <1>3, <5>1, <5>2
      <4> QED
        BY <4>1
    <3>3. s \in Loaded => entry'[s] = entry[s]
      BY <1>b, <1>11, <2>2 DEF NewCode
    <3>4. owner[s] <= c
      BY <1>1, <1>6 DEF Codes
    <3> QED
      BY <1>1, <3>1, <3>2, <3>3, <3>4 DEF IInv, SlotInv
  <2> QED
    BY <2>1, <2>2
<1>17. CodeInv'
  <2>1. CodeInv
    BY DEF IInv
  <2>2. \A d \in live \cup retired \cup freed : d \in Codes /\ d <= revision /\ d # c
    BY <1>1, <2>1 DEF CodeInv, IInv, TypeOK, Codes
  <2>3. \A d \in superseded' : d <= revision
    BY <1>1, <1>10, UsersOf
  <2>4. \A d \in Codes : Users(d) = {} /\ d # c => Users(d)' = {}
    BY <1>7
  <2>5. \A d \in 2..revision : Users(d) = {} <=> d \in retired \cup freed
    BY <1>1, <2>1 DEF CodeInv
  <2>6. 2..c \subseteq Codes /\ 2..c = (2..revision) \cup {c}
    BY <1>1 DEF Codes
  <2>7. \A d \in 2..c : Users(d)' = {} <=> d \in retired \cup freed \cup superseded'
    <3>1. Users(c)' # {} /\ c \notin retired \cup freed \cup superseded'
      BY <1>4, <1>7, <1>10, <2>2
    <3>2. ASSUME NEW d \in 2..revision
          PROVE  Users(d)' = {} <=> d \in retired \cup freed \cup superseded'
      <4>1. d \in Codes /\ d # c
        BY <1>1, <2>6
      <4> QED
        BY <4>1, <1>10, <2>4, <2>5
    <3> QED
      BY <3>1, <3>2, <2>6
  <2>8. \A d \in live \cup retired \cup freed \cup superseded' : d <= c
    <3>1. \A d \in live \cup retired \cup freed \cup superseded' : d \in Codes /\ d <= revision
      BY <1>10, <2>2, <2>3
    <3> QED
      BY <1>1, <3>1 DEF Codes
  <2>9. (retired \cup freed) \cap superseded' = {}
    BY <1>1, <1>10, <2>2, <2>5 DEF Codes
  <2>10. live \cap (retired \cup freed) = {}
    BY <1>1, <2>1, <2>2, <2>5 DEF CodeInv, Codes
  <2> QED
    BY <1>1, <1>2, <1>8, <2>1, <2>7, <2>8, <2>9, <2>10 DEF CodeInv, Committing
<1> QED
  BY <1>12, <1>13, <1>14, <1>15, <1>16, <1>17 DEF IInv

-----------------------------------------------------------------------------
(* The invariant of every patch                                            *)

LEMMA InitIInv == Init => IInv
<1> SUFFICES ASSUME Init PROVE IInv
  OBVIOUS
<1> USE Bounds DEF Init
<1>1. 1 \in 1..MaxRevision /\ 1 \in Nat
  OBVIOUS
<1>2. count = First /\ count \in [Tables -> Nat] /\ \A a \in Tables : count[a] \in First[a]..Capacity[a]
  BY TableAssumption
<1>3. /\ \A a \in Tables : rows[a] = [i \in 1..Capacity[a] |-> IF i <= First[a] THEN 1 ELSE 0]
      /\ rows = [a \in Tables |-> rows[a]]
  OBVIOUS
<1>4. {r \in Readers : rpc[r] # "out"} = {} /\ {r \in Readers : rpc[r] = "reading"} = {}
  OBVIOUS
<1>5. TypeOK
  <2>1. \A a \in Tables : rows[a] \in [1..Capacity[a] -> 0..MaxRevision]
    BY <1>1, <1>3
  <2>2. /\ owner \in [Slots -> {0} \cup Codes] /\ target \in [Slots -> 0..MaxRevision]
        /\ entry \in [Loaded -> 0..MaxRevision]
        /\ references \in [Codes -> 0..Capacity["functions"]]
    BY <1>1
  <2>3. /\ patch_readers = Cardinality({r \in Readers : rpc[r] # "out"})
        /\ registry_readers = Cardinality({r \in Readers : rpc[r] = "reading"})
    BY <1>4, FS_EmptySet
  <2> QED
    BY <1>1, <1>2, <2>1, <2>2, <2>3 DEF TypeOK
<1>6. StateInv /\ ControlInv /\ RetireInv
  BY <1>2, <1>3 DEF StateInv, ControlInv, RetireInv, Stopped, Patching, Blocked
<1>7. TableInv
  <2>1. counts = <<First>> /\ First \in [Tables -> Nat]
    BY <1>2
  <2>2. counts \in Seq([Tables -> Nat]) /\ Len(counts) = 1 /\ counts[1] = First
    BY <2>1
  <2> QED
    BY <2>2 DEF TableInv, Committing
<1>8. RowsInv
  BY <1>2, <1>3 DEF RowsInv
<1>9. SlotInv
  BY DEF SlotInv, Newest, Committing
<1>10. CodeInv
  <2>1. \A c \in Codes : Users(c) = {}
    BY DEF Users, Codes
  <2>2. \A c \in Codes : references[c] = Cardinality(Users(c))
    BY <2>1, FS_EmptySet
  <2>3. Newest = 1 /\ ~Committing /\ 2..1 = {}
    BY DEF Newest, Committing
  <2> QED
    BY <2>1, <2>2, <2>3 DEF CodeInv
<1> QED
  BY <1>5, <1>6, <1>7, <1>8, <1>9, <1>10 DEF IInv

LEMMA NextIInv == IInv /\ [Next]_vars => IInv'
<1> SUFFICES ASSUME IInv, [Next]_vars PROVE IInv'
  OBVIOUS
<1>1. CASE UNCHANGED vars
  <2> QED
    BY <1>1, ProgramFrame DEF vars, program_frame, heap_vars, IInv, StateInv
<1>2. ASSUME NEW t \in Threads, PatchStep(t) PROVE IInv'
  BY <1>2, ApplyStep, RejectStep, StageStep, FailStep, ExclusiveBeginStep, GuardRefusedStep, CommitStep,
     patch_live_publishStep, SweepCodeStep, patch_code_freeStep, SetRevisionStep,
     migrate_patch_instancesStep, ExclusiveEndStep DEF PatchStep
<1>3. ASSUME NEW t \in Threads, Call(t) \/ Return(t) \/ Store(t) \/ StoreStatic(t) \/ Construct(t) PROVE IInv'
  BY <1>3, CallStep, ReturnStep, StoreStep, ConstructStep
<1>4. ASSUME NEW t \in Threads,
             retire_prepare(t) \/ retire_blocked(t) \/ retire_ready(t) \/ free_shutdown(t)
      PROVE  IInv'
  BY <1>4, retire_prepareStep, retire_blockedStep, retire_readyStep, free_shutdownStep
<1>5. ASSUME NEW r \in Readers,
             Count(r) \/ Snapshot(r) \/ ReadRegions(r) \/ SnapshotFree(r) \/ Leave(r)
      PROVE  IInv'
  BY <1>5, CountStep, SnapshotStep, ReadRegionsStep, SnapshotFreeStep, LeaveStep
<1> QED
  BY <1>1, <1>2, <1>3, <1>4, <1>5 DEF Next

LEMMA Invariance == Spec => []IInv
  BY InitIInv, NextIInv, PTL DEF Spec

\* Every state of a module that is patched, read and retired has its type: the
\* lock is held by the thread that works on the module, and patch_readers and
\* the readers of the registry count the readers that are there.
THEOREM TypeCorrect == Spec => []TypeOK
<1>1. IInv => TypeOK
  BY DEF IInv
<1> QED
  BY <1>1, Invariance, PTL

\* Patches that take slots from each other neither leak code nor free it twice:
\* whenever the world runs, the code of every revision is used by as many slots
\* as its references say, or retired, or freed (Commit, SweepCode and
\* hl_module_free_shutdown).
THEOREM CodeAccountedCorrect == Spec => []CodeAccounted
<1>1. IInv => CodeAccounted
  <2> SUFFICES ASSUME IInv, world = Nobody, NEW c \in 2..revision
               PROVE  /\ references[c] = Cardinality(Users(c))
                      /\ IF alive THEN /\ c \in live <=> Users(c) # {}
                                       /\ c \in freed \cup retired <=> Users(c) = {}
                                       /\ c \notin freed \cap retired
                         ELSE c \in freed
    BY DEF CodeAccounted, Users
  <2>1. c \in Codes
    BY Bounds DEF IInv, TypeOK, Codes
  <2>2. ~Committing /\ pc # "sweep" /\ pc # "publish" /\ Newest = revision
    BY DEF IInv, ControlInv, Stopped, Committing, Newest
  <2>3. superseded = {} /\ doomed = {}
    BY <2>2 DEF IInv, CodeInv
  <2> QED
    BY <2>1, <2>2, <2>3 DEF IInv, CodeInv
<1> QED
  BY <1>1, Invariance, PTL

\* A patch that is refused leaves nothing in the tables, whichever step refused
\* it and however many entries of the tables it had staged.
THEOREM NothingLeftCorrect == Spec => []NothingLeft
<1>1. IInv => NothingLeft
  <2> SUFFICES ASSUME IInv, lock = Nobody, NEW a \in Tables, NEW i \in count[a] + 1..Capacity[a]
               PROVE  rows[a][i] = 0
    BY DEF NothingLeft
  <2>1. i \in 1..Capacity[a] /\ i > count[a]
    BY Bounds DEF IInv, StateInv
  <2>2. pc = "idle"
    BY DEF IInv, TypeOK
  <2> QED
    BY <2>1, <2>2 DEF IInv, RowsInv
<1> QED
  BY <1>1, Invariance, PTL

\* hl_module_retire_try frees a module only when no snapshot of the registry
\* holds it and the heap has no instance or allocated closure of it, and none
\* comes later. Closures made at load are not among what it counts.
THEOREM ReleasedUnusedCorrect == Spec => []ReleasedUnused
<1>1. IInv => ReleasedUnused
  <2> SUFFICES ASSUME IInv, ~alive
               PROVE  (\A r \in Readers : rpc[r] # "reading") /\ instance = 0 /\ closures = {}
    BY DEF ReleasedUnused
  <2>1. instance = 0 /\ closures = {} /\ ~(registry_readers > 0) /\ registry_readers \in Nat
    BY DEF IInv, RetireInv, Blocked, StateInv
  <2>2. Cardinality({r \in Readers : rpc[r] = "reading"}) = 0
    BY <2>1 DEF IInv, TypeOK
  <2>3. IsFiniteSet({r \in Readers : rpc[r] = "reading"})
    BY PatchAssumption, FS_Subset
  <2>4. {r \in Readers : rpc[r] = "reading"} = {}
    BY <2>2, <2>3, FS_EmptySet
  <2> QED
    BY <2>1, <2>4
<1> QED
  BY <1>1, Invariance, PTL

-----------------------------------------------------------------------------
(* Nobody is in code that is freed                                         *)

\* What the lists offer to a reader is neither freed nor about to be.
LEMMA ListsAlive == ASSUME IInv PROVE (live \cup retired) \cap (freed \cup doomed) = {}
<1> USE DEF IInv
<1>1. retired \cap (freed \cup doomed) = {}
  BY DEF CodeInv
<1>2. CASE ~alive
  BY <1>1, <1>2 DEF CodeInv
<1>3. CASE alive /\ pc = "publish"
  BY <1>1, <1>3 DEF CodeInv
<1>4. CASE alive /\ pc # "publish"
  <2>1. ASSUME NEW c \in live, c \in freed \cup doomed PROVE FALSE
    <3>1. c \in Codes /\ Users(c) # {}
      BY <1>4 DEF CodeInv
    <3>2. c <= Newest
      BY <3>1, UsersOf
    <3>3. c \in 2..Newest
      BY <3>1, <3>2, Bounds DEF Codes, Newest, TypeOK
    <3> QED
      BY <1>4, <2>1, <3>1, <3>3 DEF CodeInv
  <2> QED
    BY <1>1, <2>1
<1> QED
  BY <1>2, <1>3, <1>4 DEF StateInv

\* No slot of a module that is there leads to freed code.
LEMMA SlotsAlive ==
    ASSUME IInv, alive, NEW s \in 1..count["functions"]
    PROVE  Reached(s) \notin freed /\ target[s] \notin freed
<1> USE DEF IInv
<1>1. s \in Slots /\ Reached(s) = target[s]
  BY SlotsInRange
<1>2. CASE owner[s] = 0
  <2>1. target[s] \notin Codes
    BY <1>1, <1>2 DEF SlotInv, Codes
  <2> QED
    BY <1>1, <2>1 DEF TypeOK
<1>3. CASE owner[s] # 0
  <2>1. target[s] = owner[s] /\ owner[s] \in Codes /\ Users(owner[s]) # {}
    BY <1>1, <1>3 DEF SlotInv, TypeOK, Users
  <2>2. owner[s] <= Newest
    BY <1>1 DEF SlotInv
  <2>3. owner[s] \in 2..Newest
    BY <2>1, <2>2, Bounds DEF Codes, Newest, TypeOK
  <2> QED
    BY <1>1, <2>1, <2>3 DEF CodeInv
<1> QED
  BY <1>2, <1>3

\* Where no reader is counted no reader holds code.
LEMMA NoReaders ==
    ASSUME IInv, UseInv, patch_readers = 0 \/ registry_readers = 0
    PROVE  \A r \in Readers : held[r] = {}
<1>1. IsFiniteSet({r \in Readers : rpc[r] # "out"}) /\ IsFiniteSet({r \in Readers : rpc[r] = "reading"})
  BY PatchAssumption, FS_Subset
<1>2. {r \in Readers : rpc[r] # "out"} = {} \/ {r \in Readers : rpc[r] = "reading"} = {}
  BY <1>1, FS_EmptySet DEF IInv, TypeOK
<1>3. \A r \in Readers : rpc[r] # "reading"
  BY <1>2
<1> QED
  BY <1>3 DEF UseInv

\* Steps that free nothing and give nobody anything.
LEMMA UseFrame ==
    ASSUME UseInv, UNCHANGED <<frames, held, rpc, undercut, freed, doomed>>,
           lock' = lock \/ doomed = {}, ~Serving' \/ ~alive' => ~Serving \/ ~alive
    PROVE  UseInv'
BY DEF UseInv

LEMMA ProgramUse ==
    ASSUME IInv, UseInv, NEW t \in Threads, Call(t) \/ Return(t) \/ Store(t) \/ StoreStatic(t) \/ Construct(t)
    PROVE  UseInv'
<1>1. /\ UNCHANGED <<held, rpc, alive, freed, doomed, undercut, lock>>
      /\ world = Nobody /\ alive /\ lock # t /\ Serving' = Serving
  BY DEF Call, Return, Store, StoreStatic, Construct, Runs, program_frame, code_vars, apply_vars,
         reader_vars, retire_vars, Serving
<1>2. CASE Store(t) \/ StoreStatic(t) \/ Construct(t)
  BY <1>1, <1>2, UseFrame DEF Store, StoreStatic, Construct
<1>3. CASE Return(t)
  <2>1. \A u \in Threads : frames'[u] \subseteq frames[u]
    BY <1>3 DEF Return, IInv, StateInv
  <2> QED
    BY <1>1, <2>1 DEF UseInv
<1>4. CASE Call(t)
  <2>1. PICK s \in 1..count["functions"] : \E c \in {Reached(s), target[s]} :
          frames' = [frames EXCEPT ![t] = @ \cup ({c} \ {1})]
    BY <1>4 DEF Call
  <2>2. doomed = {}
    BY <1>1 DEF IInv, ControlInv, Stopped, CodeInv
  <2>3. Reached(s) \notin freed /\ target[s] \notin freed
    BY <1>1, SlotsAlive
  <2>4. \A u \in Threads : frames'[u] \cap freed = frames[u] \cap freed
    BY <2>1, <2>3 DEF IInv, StateInv
  <2>5. Serving
    BY <1>4 DEF Call
  <2> QED
    BY <1>1, <2>2, <2>4, <2>5 DEF UseInv
<1> QED
  BY <1>2, <1>3, <1>4

LEMMA ReaderUse ==
    ASSUME IInv, UseInv, NEW r \in Readers,
           Count(r) \/ Snapshot(r) \/ ReadRegions(r) \/ SnapshotFree(r) \/ Leave(r)
    PROVE  UseInv'
<1>1. UNCHANGED <<frames, alive, freed, doomed, undercut, lock>> /\ Serving' = Serving
  BY DEF Count, Snapshot, ReadRegions, SnapshotFree, Leave, reader_frame, code_vars, apply_vars,
         heap_vars, Serving
<1>2. \A q \in Readers : /\ held'[q] \subseteq held[q] \cup live \cup retired
                         /\ held'[q] # held[q] => rpc[q] = "reading"
                         /\ rpc'[q] # "reading" => held'[q] = {}
  BY DEF Count, Snapshot, ReadRegions, SnapshotFree, Leave, IInv, StateInv, UseInv
<1>3. \A q \in Readers : held'[q] \cap (freed \cup doomed) = {}
  BY <1>2, ListsAlive DEF UseInv
<1> QED
  BY <1>1, <1>2, <1>3 DEF UseInv

LEMMA PatchUse ==
    ASSUME IInv, UseInv, NEW t \in Threads, PatchStep(t)
    PROVE  UseInv'
<1> USE DEF module_vars, code_vars, heap_vars, reader_vars, retire_vars
<1>1. CASE Apply(t) \/ Reject(t) \/ Fail(t) \/ ExclusiveEnd(t)
  <2>1. doomed = {}
    BY <1>1 DEF Apply, Reject, Fail, ExclusiveEnd, IInv, CodeInv, TypeOK
  <2> QED
    BY <1>1, <2>1, UseFrame DEF Apply, Reject, Fail, Refuse, ExclusiveEnd, Serving
<1>2. CASE SweepCode(t)
  <2>1. PICK c \in superseded :
          IF Unused(t, c) THEN doomed' = {c} ELSE doomed' = doomed
    BY <1>2 DEF SweepCode
  <2>2. /\ UNCHANGED <<frames, held, rpc, alive, freed, undercut, lock>>
        /\ lock = t /\ doomed = {} /\ Serving' = Serving
    BY <1>2 DEF SweepCode, Serving
  <2>3. CASE doomed' = doomed
    BY <2>2, <2>3, UseFrame
  <2>4. CASE Unused(t, c) /\ doomed' = {c}
    <3>1. \A r \in Readers : held[r] = {}
      BY <2>4, NoReaders DEF Unused
    <3>2. \A u \in Threads \ {t} : c \notin frames[u]
      BY <2>4 DEF Unused
    <3> QED
      BY <2>2, <2>4, <3>1, <3>2 DEF UseInv
  <2> QED
    BY <2>1, <2>3, <2>4
<1>3. CASE patch_code_free(t)
  <2>1. /\ UNCHANGED <<frames, held, rpc, alive, lock>> /\ lock = t /\ Serving' = Serving
        /\ freed' = freed \cup doomed /\ doomed' = {}
        /\ undercut' = [undercut EXCEPT ![t] = @ \cup (frames[t] \cap doomed)]
    BY <1>3 DEF patch_code_free, Serving
  <2>2. /\ undercut' \in [Threads -> SUBSET Nat]
        /\ undercut'[t] = undercut[t] \cup (frames[t] \cap doomed)
        /\ \A u \in Threads \ {t} : undercut'[u] = undercut[u]
    BY <2>1 DEF UseInv, IInv, StateInv
  <2>3. \A u \in Threads : frames'[u] \cap freed' \subseteq undercut'[u]
    BY <2>1, <2>2 DEF UseInv
  <2> QED
    BY <2>1, <2>2, <2>3 DEF UseInv
<1>4. CASE Stage(t) \/ ExclusiveBegin(t) \/ GuardRefused(t)
  BY <1>4, UseFrame DEF Stage, ExclusiveBegin, GuardRefused, Serving
<1>5. CASE Commit(t) \/ patch_live_publish(t) \/ SetRevision(t) \/ migrate_patch_instances(t)
  BY <1>5, UseFrame DEF Commit, patch_live_publish, SetRevision, migrate_patch_instances, Serving
<1> QED
  BY <1>1, <1>2, <1>3, <1>4, <1>5 DEF PatchStep

LEMMA RetireUse ==
    ASSUME IInv, UseInv, NEW t \in Threads,
           retire_prepare(t) \/ retire_blocked(t) \/ retire_ready(t) \/ free_shutdown(t)
    PROVE  UseInv'
<1> USE DEF module_vars, code_vars, heap_vars, reader_vars, retire_vars
<1>1. doomed = {}
  BY DEF retire_prepare, retire_blocked, retire_ready, free_shutdown, IInv, CodeInv, TypeOK
<1>2. CASE retire_prepare(t)
  BY <1>1, <1>2 DEF retire_prepare, Quiet, UseInv, Serving
<1>3. CASE retire_blocked(t) \/ retire_ready(t)
  BY <1>1, <1>3, UseFrame DEF retire_blocked, retire_ready, Serving
<1>4. CASE free_shutdown(t)
  <2>1. UNCHANGED <<frames, held, rpc, doomed, undercut>> /\ pc = "free"
    BY <1>4 DEF free_shutdown
  <2>2. ~Serving /\ registry_readers = 0
    BY <2>1 DEF IInv, RetireInv, Blocked, StateInv, Serving
  <2>3. \A r \in Readers : held[r] = {}
    BY <2>2, NoReaders
  <2>4. \A u \in Threads : frames[u] = {}
    BY <2>2 DEF UseInv
  <2> QED
    BY <2>1, <2>3, <2>4 DEF UseInv
<1> QED
  BY <1>2, <1>3, <1>4

\* No thread runs or reads freed code and none can reach it, whoever patches and
\* from wherever, but for the code that the patch of a thread frees while that
\* thread is inside it.
THEOREM CodeAliveCorrect == Spec => []CodeAlive
<1>1. Init => UseInv
  BY DEF Init, UseInv, Serving
<1>2. IInv /\ UseInv /\ [Next]_vars => UseInv'
  <2> SUFFICES ASSUME IInv, UseInv, [Next]_vars PROVE UseInv'
    OBVIOUS
  <2>1. CASE UNCHANGED vars
    BY <2>1, UseFrame DEF vars, code_vars, apply_vars, heap_vars, reader_vars, retire_vars, Serving
  <2> QED
    BY <2>1, ProgramUse, ReaderUse, PatchUse, RetireUse DEF Next
<1>3. IInv /\ UseInv => CodeAlive
  BY ListsAlive, SlotsAlive DEF CodeAlive, UseInv
<1> QED
  BY <1>1, <1>2, <1>3, Invariance, PTL DEF Spec

-----------------------------------------------------------------------------
(* To the program a patch happens at once                                  *)

\* A sequence written as a function, with one entry more.
LEMMA AppendMap ==
    ASSUME NEW S, NEW n \in Nat, NEW f \in [1..n -> S], NEW e \in S
    PROVE  Append(f, e) = [i \in 1..n + 1 |-> IF i <= n THEN f[i] ELSE e]
<1> DEFINE g == [i \in 1..n + 1 |-> IF i <= n THEN f[i] ELSE e]
<1>1. f \in Seq(S) /\ Len(f) = n
  BY SeqDef
<1>2. g \in [1..n + 1 -> S] /\ n + 1 \in Nat
  OBVIOUS
<1>3. g \in Seq(S) /\ Len(g) = n + 1
  BY <1>2, SeqDef
<1>4. /\ Append(f, e) \in Seq(S) /\ Len(Append(f, e)) = n + 1
      /\ \A i \in 1..n : Append(f, e)[i] = f[i]
      /\ Append(f, e)[n + 1] = e
  BY <1>1, AppendProperties
<1>5. \A i \in 1..n + 1 : Append(f, e)[i] = g[i]
  BY <1>4
<1> HIDE DEF g
<1>6. Append(f, e) = g
  BY <1>3, <1>4, <1>5, SeqEqual
<1> QED
  BY <1>6 DEF g

\* One field of a view replaced.
LEMMA SetField ==
    ASSUME NEW r, NEW c, NEW w, NEW l, NEW m, NEW x, NEW v,
           v = [revision |-> r, code |-> c, rows |-> w, listed |-> l, report |-> m]
    PROVE  /\ [v EXCEPT !.report = x] =
                [revision |-> r, code |-> c, rows |-> w, listed |-> l, report |-> x]
           /\ [v EXCEPT !.revision = x] =
                [revision |-> x, code |-> c, rows |-> w, listed |-> l, report |-> m]
           /\ [v EXCEPT !.listed = x] =
                [revision |-> r, code |-> c, rows |-> w, listed |-> x, report |-> m]
<1>1. [v EXCEPT !.report = x] =
        [revision |-> r, code |-> c, rows |-> w, listed |-> l, report |-> x]
  BY SMT
<1>2. [v EXCEPT !.revision = x] =
        [revision |-> x, code |-> c, rows |-> w, listed |-> l, report |-> m]
  BY SMT
<1>3. [v EXCEPT !.listed = x] =
        [revision |-> r, code |-> c, rows |-> w, listed |-> x, report |-> m]
  BY SMT
<1> QED
  BY <1>1, <1>2, <1>3

\* The parts of a view that are not variables.
ViewCode   == [s \in 1..count["functions"] |-> Reached(s)]
ViewRows   == [a \in Tables |-> [i \in 1..count[a] |-> rows[a][i]]]
ViewListed == {i \in 1..Capacity["fields"] : rows["fields"][i] # 0}

LEMMA ViewParts ==
    View = [revision |-> revision, code |-> ViewCode, rows |-> ViewRows, listed |-> ViewListed,
            report |-> report]
BY DEF View, ViewCode, ViewRows, ViewListed

\* Two fields of it replaced.
LEMMA ViewFields ==
    ASSUME NEW x, NEW y
    PROVE  [View EXCEPT !.report = x, !.listed = y] =
             [revision |-> revision, code |-> ViewCode, rows |-> ViewRows, listed |-> y, report |-> x]
<1>1. [View EXCEPT !.report = x, !.listed = y] = [[View EXCEPT !.report = x] EXCEPT !.listed = y]
  OBVIOUS
<1>2. PICK u : u = [View EXCEPT !.report = x]
  OBVIOUS
<1>3. u = [revision |-> revision, code |-> ViewCode, rows |-> ViewRows, listed |-> ViewListed, report |-> x]
  BY <1>2, ViewParts, SetField
<1>4. [u EXCEPT !.listed = y] =
        [revision |-> revision, code |-> ViewCode, rows |-> ViewRows, listed |-> y, report |-> x]
  BY <1>3, SetField
<1> QED
  BY <1>1, <1>2, <1>4

\* The rows of a table are a sequence as long as the table.
LEMMA RowsLen ==
    ASSUME NEW n \in Nat, NEW k \in Nat, n <= k, NEW row \in [1..k -> 0..MaxRevision]
    PROVE  Len([i \in 1..n |-> row[i]]) = n
<1>1. [i \in 1..n |-> row[i]] \in [1..n -> Nat]
  BY Bounds
<1> QED
  BY <1>1, SeqDef

\* Where the slots past the first n have no name, or only the next one has, the
\* class lists n fields or one more.
LEMMA NamedSlots ==
    ASSUME NEW n \in Nat, NEW k \in Nat, n <= k, NEW row, \A i \in 1..n : row[i] # 0
    PROVE  /\ (\A i \in 1..k : i > n => row[i] = 0) => {i \in 1..k : row[i] # 0} = 1..n
           /\ (\A i \in 1..k : i > n + 1 => row[i] = 0) =>
                {i \in 1..k : row[i] # 0} \in {1..n, 1..n + 1}
<1> DEFINE names == {i \in 1..k : row[i] # 0}
<1>1. 1..n \subseteq names
  OBVIOUS
<1>2. ASSUME \A i \in 1..k : i > n => row[i] = 0 PROVE names \subseteq 1..n
  BY <1>2
<1>3. ASSUME \A i \in 1..k : i > n + 1 => row[i] = 0 PROVE names \subseteq 1..n + 1
  BY <1>3
<1>4. n + 1 \in names => 1..n + 1 \subseteq names
  BY <1>1
<1>5. n + 1 \notin names /\ names \subseteq 1..n + 1 => names \subseteq 1..n
  OBVIOUS
<1> HIDE DEF names
<1>6. /\ (\A i \in 1..k : i > n => row[i] = 0) => names = 1..n
      /\ (\A i \in 1..k : i > n + 1 => row[i] = 0) => names \in {1..n, 1..n + 1}
  BY <1>1, <1>2, <1>3, <1>4, <1>5
<1> QED
  BY <1>6 DEF names

\* The class lists the fields that lookups find, and one more only while a patch
\* has staged it.
FieldsNamed  == \A i \in 1..count["fields"] : rows["fields"][i] # 0
FieldsListed ==
    /\ ViewListed \in {1..count["fields"], 1..count["fields"] + 1}
    /\ pc \notin {"stage", "fail", "commit"} => ViewListed = 1..count["fields"]

LEMMA Listed == IInv /\ FieldsNamed => FieldsListed
<1> SUFFICES ASSUME IInv, FieldsNamed PROVE FieldsListed
  OBVIOUS
<1>1. PICK n, k, row : n = count["fields"] /\ k = Capacity["fields"] /\ row = rows["fields"]
  OBVIOUS
<1>2. n \in Nat /\ k \in Nat /\ n <= k
  BY <1>1, Bounds, TableAssumption DEF IInv, TypeOK, StateInv
<1>3. \A i \in 1..k : i > n /\ row[i] # 0 => pc \in {"stage", "fail", "commit"} /\ i = n + 1
  BY <1>1, TableAssumption DEF IInv, RowsInv
<1>4. \A i \in 1..k : i > n + 1 => row[i] = 0
  BY <1>2, <1>3
<1>5. pc \notin {"stage", "fail", "commit"} => \A i \in 1..k : i > n => row[i] = 0
  BY <1>3
<1>6. \A i \in 1..n : row[i] # 0
  BY <1>1 DEF FieldsNamed
<1>7. ViewListed = {i \in 1..k : row[i] # 0}
  BY <1>1 DEF ViewListed
<1>8. ViewListed \in {1..n, 1..n + 1}
  BY <1>2, <1>4, <1>6, <1>7, NamedSlots
<1>9. pc \notin {"stage", "fail", "commit"} => ViewListed = 1..n
  BY <1>2, <1>5, <1>6, <1>7, NamedSlots
<1> QED
  BY <1>1, <1>8, <1>9 DEF FieldsListed

LEMMA ListedNext == IInv' /\ FieldsNamed' => FieldsListed'
BY Listed, PTL

\* The same of the lengths.
FieldsCounted == Len(ViewRows["fields"]) = count["fields"]

LEMMA Counted == IInv => FieldsCounted
<1> SUFFICES ASSUME IInv PROVE FieldsCounted
  OBVIOUS
<1>1. "fields" \in Tables /\ ViewRows["fields"] = [i \in 1..count["fields"] |-> rows["fields"][i]]
  BY TableAssumption DEF ViewRows
<1>2. /\ count["fields"] \in Nat /\ Capacity["fields"] \in Nat
      /\ count["fields"] <= Capacity["fields"]
      /\ rows["fields"] \in [1..Capacity["fields"] -> 0..MaxRevision]
  BY <1>1, Bounds DEF IInv, TypeOK, StateInv
<1> QED
  BY <1>1, <1>2, RowsLen DEF FieldsCounted

LEMMA CountedNext == IInv' => FieldsCounted'
BY Counted, PTL

\* Only what a table, a listing or the program can reach shows.
LEMMA ViewFrame ==
    ASSUME IInv, UNCHANGED <<revision, count, target, entry>>,
           \A a \in Tables : \A i \in 1..count[a] : rows'[a][i] = rows[a][i]
    PROVE  View' = [revision |-> revision, code |-> ViewCode, rows |-> ViewRows,
                    listed |-> ViewListed', report |-> report']
<1>1. \A s : Reached(s)' = Reached(s)
  BY DEF Reached
<1>2. ViewCode' = ViewCode
  BY <1>1 DEF ViewCode
<1>3. ViewRows' = ViewRows
  BY DEF ViewRows
<1> QED
  BY <1>2, <1>3 DEF View, ViewCode, ViewRows, ViewListed

\* Where the tables are as they were only the report may have changed.
LEMMA ReportView ==
    ASSUME IInv, UNCHANGED <<revision, count, target, entry, rows>>
    PROVE  View' = [View EXCEPT !.report = report'] /\ ViewListed' = ViewListed
<1>1. ViewListed' = ViewListed
  BY DEF ViewListed
<1>2. View' = [revision |-> revision, code |-> ViewCode, rows |-> ViewRows,
               listed |-> ViewListed, report |-> report']
  BY <1>1, ViewFrame
<1> QED
  BY <1>1, <1>2, ViewParts, SetField

\* The entries that are staged are past the end, and so are those `fail:`
\* clears when a patch that adds types is not stale: only a listing shows them.
LEMMA StageRows ==
    ASSUME IInv, NEW t \in Threads, Stage(t), NEW a \in Tables, NEW i \in 1..count[a]
    PROVE  rows'[a][i] = rows[a][i]
<1>1. rows' = StagedRows(patch, StageOrder[staged + 1]) /\ count[a] \in Nat /\ i # count[a] + 1
  BY DEF Stage, IInv, StateInv
<1>2. rows = [b \in Tables |-> rows[b]] /\ rows[a] \in [1..Capacity[a] -> 0..MaxRevision]
      /\ i \in 1..Capacity[a]
  BY Bounds DEF IInv, StateInv, TypeOK
<1> QED
  BY <1>1, <1>2 DEF StagedRows

\* Staging lists at most one field more.
LEMMA StageView ==
    ASSUME IInv, IInv', ShownInv, NEW t \in Threads, Stage(t)
    PROVE  \/ View' = View
           \/ View' = [View EXCEPT !.listed = 1..count["fields"] + 1]
<1>1. UNCHANGED <<revision, count, target, entry, report>>
  BY DEF Stage
<1>2. View' = [revision |-> revision, code |-> ViewCode, rows |-> ViewRows,
               listed |-> ViewListed', report |-> report]
  BY <1>1, StageRows, ViewFrame
<1>3. "fields" \in Tables
  BY TableAssumption
<1>4. FieldsNamed /\ FieldsNamed'
  BY <1>1, <1>3, StageRows DEF ShownInv, FieldsNamed
<1>5. ViewListed' \in {1..count["fields"], 1..count["fields"] + 1}
  BY <1>1, <1>4, ListedNext DEF FieldsListed
<1>6. ViewListed \subseteq ViewListed'
  <2>1. ASSUME NEW i \in 1..Capacity["fields"], rows["fields"][i] # 0 PROVE rows'["fields"][i] # 0
    <3>1. /\ rows' = StagedRows(patch, StageOrder[staged + 1]) /\ patch.base + 1 # 0
          /\ rows = [b \in Tables |-> rows[b]]
          /\ rows["fields"] \in [1..Capacity["fields"] -> 0..MaxRevision]
      BY <1>3, Bounds DEF Stage, IInv, StateInv, TypeOK, ControlInv, Patching
    <3> QED
      BY <1>3, <2>1, <3>1 DEF StagedRows
  <2> QED
    BY <2>1 DEF ViewListed
<1>7. ViewListed \in {1..count["fields"], 1..count["fields"] + 1}
  BY <1>4, Listed DEF FieldsListed
<1>8. ViewListed' = ViewListed \/ ViewListed' = 1..count["fields"] + 1
  <2>1. count["fields"] \in Nat
    BY <1>3 DEF IInv, StateInv
  <2>2. ~(1..count["fields"] + 1 \subseteq 1..count["fields"])
    BY <2>1
  <2> QED
    BY <1>5, <1>6, <1>7, <2>2
<1> QED
  BY <1>2, <1>8, ViewParts, SetField

LEMMA FailRows ==
    ASSUME IInv, NEW t \in Threads, Fail(t), NEW a \in Tables, a # "types" \/ ~StaleTypes,
           NEW i \in 1..count[a]
    PROVE  rows'[a][i] = rows[a][i]
<1> USE DEF Fail, Refuse
<1>1. i \in 1..Capacity[a] /\ count[a] \in Nat /\ i # count[a] + 1
  BY Bounds DEF IInv, StateInv, TypeOK
<1>2. a = "types" /\ "types" \in patch.shape.adds => patch.count = count
  BY DEF IInv, TableInv, Committing
<1>3. rows' = Unstaged(patch)
  OBVIOUS
<1> QED
  BY <1>1, <1>2, <1>3 DEF Unstaged

\* A refusal is reported, and the class lists what it listed before.
LEMMA FailView ==
    ASSUME IInv, IInv', ShownInv, ~StaleTypes, NEW t \in Threads, Fail(t)
    PROVE  View' = [View EXCEPT !.report = "refused", !.listed = 1..count["fields"]]
<1>1. UNCHANGED <<revision, count, target, entry>> /\ report' = "refused" /\ pc' = "idle"
  BY DEF Fail, Refuse
<1>2. View' = [revision |-> revision, code |-> ViewCode, rows |-> ViewRows,
               listed |-> ViewListed', report |-> "refused"]
  BY <1>1, FailRows, ViewFrame
<1>3. FieldsNamed'
  BY <1>1, FailRows, TableAssumption DEF ShownInv, FieldsNamed
<1>4. ViewListed' = 1..count["fields"]
  BY <1>1, <1>3, ListedNext DEF FieldsListed
<1> QED
  BY <1>2, <1>4, ViewFields

\* The field that the commit takes over has a name.
LEMMA CommitNames ==
    ASSUME IInv, ShownInv, NEW t \in Threads, Commit(t)
    PROVE  \A i \in 1..count'["fields"] : rows'["fields"][i] # 0
<1>1. /\ "fields" \in Tables /\ count["fields"] \in Nat /\ rows' = rows
      /\ count'["fields"] = IF "fields" \in patch.shape.adds THEN count["fields"] + 1 ELSE count["fields"]
  BY TableAssumption DEF Commit, Published, IInv, StateInv
<1>2. pc = "commit" /\ staged = 4 /\ patch.base + 1 # 0
  BY Bounds DEF Commit, IInv, ControlInv, Stopped, Patching
<1>3. Staged = Tables
  BY <1>2, Stages
<1>4. /\ \A i \in 1..count["fields"] : rows["fields"][i] # 0
      /\ "fields" \in patch.shape.adds => rows["fields"][count["fields"] + 1] # 0
  BY <1>1, <1>2, <1>3 DEF ShownInv
<1> QED
  BY <1>1, <1>4

\* The commit makes of the module what the patch says.
LEMMA CommitView ==
    ASSUME IInv, IInv', ShownInv, NEW t \in Threads, Commit(t)
    PROVE  [View EXCEPT !.revision = Newest]' = Atomic!Patched(shown[1], patch.shape, report)'
<1>a. PICK c : c = patch.base + 1
  OBVIOUS
<1>b. PICK n : n = count["functions"]
  OBVIOUS
<1>1. /\ UNCHANGED <<patch, shown, world, report, rows, revision>>
      /\ pc = "commit" /\ world # Nobody /\ staged = 4 /\ Staged = Tables
      /\ shown = <<View, instance>> /\ report = "none"
      /\ c = revision + 1 /\ Newest' = c /\ c \in Nat
      /\ patch.shape \in Shapes /\ patch.shape.adds \subseteq Tables
      /\ "functions" \in Tables
  <2>1. pc = "commit" /\ pc' = "publish" /\ UNCHANGED <<patch, shown, world, report, rows, revision>>
    BY DEF Commit
  <2>2. world # Nobody /\ staged = 4 /\ patch.base = revision /\ revision \in Nat
        /\ patch.shape \in Shapes
    BY <2>1 DEF IInv, ControlInv, TableInv, Current, Stopped, Patching, TypeOK
  <2>3. Staged = Tables
    BY <2>2, Stages
  <2>4. shown = <<View, instance>> /\ report = "none"
    BY <2>1 DEF ShownInv, Patching, Stopped
  <2> QED
    BY <1>a, <2>1, <2>2, <2>3, <2>4, Bounds DEF Newest, Committing
<1>2. /\ \A a \in Tables : /\ count[a] \in Nat
                           /\ count'[a] = IF a \in patch.shape.adds THEN count[a] + 1 ELSE count[a]
                           /\ count'[a] \in Nat
      /\ \A a \in patch.shape.adds : rows[a][count[a] + 1] = c
      /\ n \in Nat
  BY <1>a, <1>b, <1>1 DEF Commit, Published, IInv, StateInv, ShownInv
<1>3. ASSUME NEW s \in 1..count'["functions"]
      PROVE  Reached(s)' = IF s \in patch.shape.slots \/ s = n + 1 THEN c ELSE Reached(s)
  <2>1. s \in Slots /\ Reached(s)' = target'[s]
    <3>1. s \in Slots
      BY Bounds DEF IInv, TypeOK, Slots
    <3> QED
      BY <3>1 DEF IInv, SlotInv, Reached
  <2>2. target'[s] = IF s \in NewCode(patch) THEN c ELSE target[s]
    BY <1>a, <2>1 DEF Commit
  <2>3. s \in 1..n + 1 /\ ("functions" \notin patch.shape.adds => s \in 1..n)
    BY <1>b, <1>1, <1>2
  <2>4. s # n + 1 => Reached(s) = target[s]
    BY <1>b, <1>2, <2>3, SlotsInRange
  <2>5. s \in NewCode(patch) <=> s \in patch.shape.slots \/ s = n + 1
    BY <1>b, <1>2, <2>3 DEF NewCode
  <2> QED
    BY <2>1, <2>2, <2>4, <2>5
<1>4. [s \in 1..count["functions"] |-> Reached(s)]' =
        LET old == [s \in 1..n |-> IF s \in patch.shape.slots THEN c ELSE Reached(s)]
        IN IF "functions" \in patch.shape.adds THEN Append(old, c) ELSE old
  <2> DEFINE old == [s \in 1..n |-> IF s \in patch.shape.slots THEN c ELSE Reached(s)]
  <2>1. old \in [1..n -> Nat]
    BY <1>b, <1>1, SlotsInRange
  <2>2. CASE "functions" \in patch.shape.adds
    <3>1. count'["functions"] = n + 1
      BY <1>b, <1>1, <1>2, <2>2
    <3>2. Append(old, c) = [s \in 1..n + 1 |-> IF s <= n THEN old[s] ELSE c]
      BY <1>1, <1>2, <2>1, AppendMap
    <3>3. ASSUME NEW s \in 1..n + 1
          PROVE  Reached(s)' = IF s <= n THEN old[s] ELSE c
      BY <1>2, <1>3, <3>1
    <3> HIDE DEF old
    <3>4. [s \in 1..n + 1 |-> Reached(s)'] = Append(old, c)
      BY <3>2, <3>3
    <3> QED
      BY <2>2, <3>1, <3>4 DEF old
  <2>3. CASE "functions" \notin patch.shape.adds
    <3>1. count'["functions"] = n
      BY <1>b, <1>1, <1>2, <2>3
    <3>2. ASSUME NEW s \in 1..n
          PROVE  Reached(s)' = IF s \in patch.shape.slots THEN c ELSE Reached(s)
      BY <1>2, <1>3, <3>1
    <3> QED
      BY <2>3, <3>1, <3>2
  <2> QED
    BY <2>2, <2>3
<1>5. [a \in Tables |-> [i \in 1..count[a] |-> rows[a][i]]]' =
        [a \in Tables |->
          LET old == [i \in 1..count[a] |-> rows[a][i]]
          IN IF a \in patch.shape.adds THEN Append(old, c) ELSE old]
  <2> SUFFICES ASSUME NEW a \in Tables
               PROVE  [i \in 1..count'[a] |-> rows[a][i]] =
                        LET old == [i \in 1..count[a] |-> rows[a][i]]
                        IN IF a \in patch.shape.adds THEN Append(old, c) ELSE old
    BY <1>1
  <2> DEFINE old == [i \in 1..count[a] |-> rows[a][i]]
  <2>1. CASE a \notin patch.shape.adds
    BY <1>2, <2>1
  <2>2. CASE a \in patch.shape.adds
    <3>1. old \in [1..count[a] -> Nat]
      BY Bounds DEF IInv, TypeOK
    <3>2. Append(old, c) = [i \in 1..count[a] + 1 |-> IF i <= count[a] THEN old[i] ELSE c]
      BY <1>1, <1>2, <3>1, AppendMap
    <3>3. ASSUME NEW i \in 1..count[a] + 1
          PROVE  rows[a][i] = IF i <= count[a] THEN old[i] ELSE c
      BY <1>2, <2>2
    <3>4. count'[a] = count[a] + 1
      BY <1>2, <2>2
    <3> HIDE DEF old
    <3>5. [i \in 1..count[a] + 1 |-> rows[a][i]] = Append(old, c)
      BY <3>2, <3>3
    <3> QED
      BY <2>2, <3>4, <3>5 DEF old
  <2> QED
    BY <2>1, <2>2
<1>c. ViewListed' = 1..count'["fields"]
  <2>1. pc' = "publish" /\ FieldsNamed'
    BY CommitNames DEF Commit, FieldsNamed
  <2> QED
    BY <2>1, ListedNext DEF FieldsListed
<1>d. Len(ViewRows'["fields"]) = count'["fields"]
  BY CountedNext DEF FieldsCounted
<1>6. /\ shown[1].revision + 1 = c
      /\ shown[1].code = [s \in 1..n |-> Reached(s)] /\ DOMAIN shown[1].code = 1..n
      /\ shown[1].rows = [a \in Tables |-> [i \in 1..count[a] |-> rows[a][i]]]
  BY <1>b, <1>1 DEF View
<1>7. Atomic!Patched(shown[1], patch.shape, report)' =
        [revision |-> c,
         code |-> LET old == [s \in 1..n |-> IF s \in patch.shape.slots THEN c ELSE Reached(s)]
                  IN IF "functions" \in patch.shape.adds THEN Append(old, c) ELSE old,
         rows |-> [a \in Tables |->
                    LET old == [i \in 1..count[a] |-> rows[a][i]]
                    IN IF a \in patch.shape.adds THEN Append(old, c) ELSE old],
         listed |-> ViewListed',
         report |-> report]
  <2>0. 1..Len(IF "fields" \in patch.shape.adds THEN Append(shown[1].rows["fields"], c)
                                                ELSE shown[1].rows["fields"]) = ViewListed'
    <3>1. "fields" \in Tables
      BY TableAssumption
    <3>2. ViewRows'["fields"] =
            IF "fields" \in patch.shape.adds THEN Append(shown[1].rows["fields"], c)
                                             ELSE shown[1].rows["fields"]
      BY <1>5, <1>6, <3>1 DEF ViewRows
    <3> QED
      BY <1>c, <1>d, <3>2
  <2>1. [s \in DOMAIN shown[1].code |-> IF s \in patch.shape.slots THEN c ELSE shown[1].code[s]] =
        [s \in 1..n |-> IF s \in patch.shape.slots THEN c ELSE Reached(s)]
    BY <1>6
  <2>2. [a \in Tables |-> IF a \in patch.shape.adds THEN Append(shown[1].rows[a], c) ELSE shown[1].rows[a]] =
        [a \in Tables |->
          LET old == [i \in 1..count[a] |-> rows[a][i]]
          IN IF a \in patch.shape.adds THEN Append(old, c) ELSE old]
    BY <1>6
  <2>3. shown'[1] = shown[1] /\ world' # Nobody /\ patch'.shape = patch.shape /\ report' = report
    BY <1>1
  <2> QED
    BY <1>6, <2>0, <2>1, <2>2, <2>3 DEF Atomic!Patched
<1>8. [View EXCEPT !.revision = Newest]' =
        [revision |-> c, code |-> ViewCode', rows |-> ViewRows', listed |-> ViewListed',
         report |-> report]
  <2>1. View' = [revision |-> revision', code |-> ViewCode', rows |-> ViewRows',
                 listed |-> ViewListed', report |-> report']
    BY DEF View, ViewCode, ViewRows, ViewListed
  <2>2. [View EXCEPT !.revision = Newest]' = [View' EXCEPT !.revision = c]
    BY <1>1
  <2>3. [View' EXCEPT !.revision = c] =
          [revision |-> c, code |-> ViewCode', rows |-> ViewRows', listed |-> ViewListed',
           report |-> report']
    BY <2>1, SetField
  <2> QED
    BY <1>1, <2>2, <2>3
<1> QED
  BY <1>4, <1>5, <1>7, <1>8 DEF ViewCode, ViewRows

\* A step while the world runs or has just been released.
LEMMA ShownRuns ==
    ASSUME ~Stopped', Patching' => report' = "none",
           \A i \in 1..count'["fields"] : rows'["fields"][i] # 0,
           pc' \in {"stage", "fail"} =>
             \A a \in (Staged \cap patch.shape.adds)' : rows'[a][count'[a] + 1] = patch'.base + 1
    PROVE  ShownInv'
BY DEF ShownInv, Patching, Stopped, Committing

\* A step that the patch and the view of the module do not see.
LEMMA ShownFrame ==
    ASSUME ShownInv, View' = View, Staged' = Staged, Stopped => UNCHANGED <<closures, statics, instance>>,
           UNCHANGED <<pc, report, patch, rows, count, shown, revision>>
    PROVE  ShownInv'
<1>1. Newest' = Newest
  BY DEF Newest, Committing
<1> QED
  BY <1>1 DEF ShownInv, Patching, Stopped, Committing, Guarded

LEMMA SameView == ASSUME IInv, UNCHANGED <<revision, count, target, entry, rows, report>> PROVE View' = View
<1>1. View' = [View EXCEPT !.report = report]
  BY ReportView
<1> QED
  BY <1>1, ViewParts, SetField

LEMMA PatchedReport ==
    ASSUME NEW m, NEW p, NEW r, NEW x
    PROVE  [Atomic!Patched(m, p, r) EXCEPT !.report = x] = Atomic!Patched(m, p, x)
<1> DEFINE n == m.revision + 1
           Extended(q, a) == IF a \in p.adds THEN Append(q, n) ELSE q
           code == Extended([s \in DOMAIN m.code |-> IF s \in p.slots THEN n ELSE m.code[s]], "functions")
           tables == [a \in Tables |-> Extended(m.rows[a], a)]
           names == 1..Len(Extended(m.rows["fields"], "fields"))
<1>1. \A y : Atomic!Patched(m, p, y) =
              [revision |-> n, code |-> code, rows |-> tables, listed |-> names, report |-> y]
  BY DEF Atomic!Patched
<1> HIDE DEF n, code, tables, names
<1> QED
  BY <1>1, SetField

LEMMA PatchShown ==
    ASSUME IInv, IInv', ShownInv, ~StaleTypes, NEW t \in Threads, PatchStep(t)
    PROVE  ShownInv'
<1> USE DEF module_vars, code_vars, heap_vars, reader_vars, retire_vars
<1>1. CASE Apply(t)
  <2>1. Staged' = {}
    BY <1>1 DEF Apply, Staged
  <2> QED
    BY <1>1, <2>1, ShownRuns DEF Apply, Stopped, ShownInv
<1>2. CASE Reject(t) \/ ExclusiveEnd(t)
  BY <1>2, ShownRuns DEF Reject, ExclusiveEnd, Stopped, Patching, ShownInv
<1>2b. CASE Fail(t)
  <2>1. pc' = "idle" /\ count' = count
    BY <1>2b DEF Fail, Refuse
  <2>2. \A i \in 1..count["fields"] : rows'["fields"][i] # 0
    BY <1>2b, FailRows, TableAssumption DEF ShownInv
  <2> QED
    BY <2>1, <2>2, ShownRuns DEF Stopped, Patching
<1>3. CASE Stage(t)
  <2> DEFINE a == StageOrder[staged + 1]
  <2>1. /\ pc = "stage" /\ pc' = "stage" /\ rows' = StagedRows(patch, a) /\ staged' = staged + 1
        /\ staged < Len(StageOrder) /\ UNCHANGED <<count, patch, report>>
    BY <1>3 DEF Stage
  <2>2. staged \in 0..4
    BY DEF IInv, StateInv
  <2>3. a \in Tables /\ Staged' = Staged \cup {a} /\ Staged \subseteq Tables
    <3>1. staged < 4
      BY <2>1, <2>2, Stages
    <3>2. Staged' = {StageOrder[i] : i \in 1..staged + 1}
      BY <2>1 DEF Staged
    <3> QED
      BY <2>2, <3>1, <3>2, Stages
  <2> HIDE DEF a
  <2>4. /\ rows = [b \in Tables |-> rows[b]]
        /\ \A b \in Tables : rows[b] \in [1..Capacity[b] -> 0..MaxRevision]
        /\ \A b \in Tables : count[b] \in Nat
    BY DEF IInv, TypeOK, StateInv
  <2>5. a \in patch.shape.adds => count[a] + 1 \in 1..Capacity[a]
    BY <1>3, <2>3, <2>4, Bounds DEF Stage, Fits
  <2>6. ASSUME NEW b \in Staged' \cap patch.shape.adds PROVE rows'[b][count[b] + 1] = patch.base + 1
    <3>1. b \in Tables /\ (b # a => b \in Staged)
      BY <2>3, <2>6
    <3>2. CASE b # a
      <4>1. rows'[b] = rows[b]
        BY <2>1, <2>4, <3>1, <3>2 DEF StagedRows
      <4> QED
        BY <2>1, <2>6, <3>1, <3>2, <4>1 DEF ShownInv
    <3>3. CASE b = a
      <4>1. rows' = [rows EXCEPT ![a][count[a] + 1] = patch.base + 1]
        BY <2>1, <2>6, <3>3 DEF StagedRows
      <4> QED
        BY <2>3, <2>4, <2>5, <2>6, <3>3, <4>1
    <3> QED
      BY <3>2, <3>3
  <2>7. report' = "none"
    BY <2>1 DEF ShownInv, Patching, Stopped
  <2>8. \A i \in 1..count["fields"] : rows'["fields"][i] # 0
    BY <1>3, StageRows, TableAssumption DEF ShownInv
  <2> QED
    BY <2>1, <2>6, <2>7, <2>8, ShownRuns DEF Stopped
<1>4. CASE ExclusiveBegin(t)
  <2>1. View' = View /\ Staged' = Staged
    BY <1>4, SameView DEF ExclusiveBegin, Staged
  <2> QED
    BY <1>4, <2>1 DEF ExclusiveBegin, ShownInv, Patching, Stopped, Committing
<1>5. CASE GuardRefused(t)
  <2>1. /\ pc = "commit" /\ pc' = "fail" /\ Staged' = Staged /\ report' = "none"
        /\ UNCHANGED <<rows, count, patch>>
    BY <1>5 DEF GuardRefused, Staged, ShownInv, Patching, Stopped
  <2> QED
    BY <2>1, ShownRuns DEF ShownInv, Stopped
<1>6. CASE Commit(t)
  <2>1. [View EXCEPT !.revision = Newest]' = Atomic!Patched(shown[1], patch.shape, report)'
    BY <1>6, CommitView
  <2>2. /\ pc = "commit" /\ pc' = "publish" /\ Guarded(patch)
        /\ UNCHANGED <<patch, closures, statics, instance, shown, report>>
    BY <1>6 DEF Commit
  <2>3. report = "none" /\ shown[2] = instance
    BY <2>2 DEF ShownInv, Patching, Stopped
  <2>4. \A i \in 1..count'["fields"] : rows'["fields"][i] # 0
    BY <1>6, CommitNames
  <2> QED
    BY <2>1, <2>2, <2>3, <2>4 DEF ShownInv, Patching, Stopped, Committing, Guarded
<1>7. CASE SweepCode(t) \/ patch_code_free(t)
  <2>1. /\ Staged' = Staged
        /\ UNCHANGED <<pc, report, patch, rows, count, shown, revision, closures, statics, instance,
                       target, entry>>
    BY <1>7 DEF SweepCode, patch_code_free, Staged
  <2> QED
    BY <2>1, SameView, ShownFrame
<1>8. CASE patch_live_publish(t)
  <2>1. View' = View /\ Newest' = Newest
    BY <1>8, SameView DEF patch_live_publish, Newest, Committing
  <2> QED
    BY <1>8, <2>1 DEF patch_live_publish, ShownInv, Patching, Stopped, Committing, Guarded
<1>9. CASE SetRevision(t)
  <2>1. /\ UNCHANGED <<count, target, entry, rows, report, closures, statics, instance, shown, patch>>
        /\ pc = "sweep" /\ pc' = "migrate" /\ patch.base = revision /\ revision' = revision + 1
    BY <1>9 DEF SetRevision, IInv, TableInv, Committing
  <2>2. ViewCode' = ViewCode /\ ViewRows' = ViewRows /\ ViewListed' = ViewListed
    BY <2>1 DEF ViewCode, ViewRows, ViewListed, Reached
  <2>3. Newest = revision' /\ Newest' = revision'
    BY <2>1 DEF Newest, Committing
  <2>4. View' = [revision |-> revision', code |-> ViewCode, rows |-> ViewRows, listed |-> ViewListed,
                 report |-> report]
    BY <2>1, <2>2 DEF View, ViewCode, ViewRows, ViewListed
  <2>5. [View' EXCEPT !.revision = revision'] = [View EXCEPT !.revision = revision']
    BY <2>4, ViewParts, SetField
  <2>6. [View EXCEPT !.revision = Newest]' = [View EXCEPT !.revision = Newest]
    BY <2>3, <2>5
  <2> QED
    BY <2>1, <2>6 DEF ShownInv, Patching, Stopped, Committing, Guarded
<1>10. CASE migrate_patch_instances(t)
  <2>1. /\ UNCHANGED <<revision, count, target, entry, rows, closures, statics, shown, patch>>
        /\ pc = "migrate" /\ pc' = "resume"
        /\ Newest = revision /\ Newest' = revision
        /\ IF patch.shape.migrates /\ instance # 0
           THEN \/ instance' = revision /\ report' = report
                \/ report' = "failed" /\ instance' = instance
           ELSE instance' = instance /\ report' = report
    BY <1>10 DEF migrate_patch_instances, Newest, Committing
  <2>2. report = "none" /\ instance = shown[2] /\ Guarded(patch)
    BY <2>1 DEF ShownInv, Patching, Stopped
  <2>3. [View EXCEPT !.revision = revision] = Atomic!Patched(shown[1], patch.shape, report)
    BY <2>1 DEF ShownInv
  <2>4. View = Atomic!Patched(shown[1], patch.shape, report)
    BY <2>3, ViewParts, SetField
  <2>5. View' = [View EXCEPT !.report = report']
    BY <2>1, ReportView
  <2>6. [Atomic!Patched(shown[1], patch.shape, report) EXCEPT !.report = report'] =
          Atomic!Patched(shown[1], patch.shape, report')
    BY PatchedReport
  <2>7. View' = Atomic!Patched(shown[1], patch.shape, report')
    BY <2>4, <2>5, <2>6
  <2>8. [View' EXCEPT !.revision = revision] = View'
    <3>1. View' = [revision |-> revision, code |-> ViewCode, rows |-> ViewRows, listed |-> ViewListed,
                   report |-> report']
      BY <2>5, ViewParts, SetField
    <3> QED
      BY <3>1, SetField
  <2>9. [View EXCEPT !.revision = Newest]' = Atomic!Patched(shown[1], patch.shape, report)'
    BY <2>1, <2>7, <2>8
  <2> QED
    BY <2>1, <2>2, <2>9 DEF ShownInv, Patching, Stopped, Committing, Guarded
<1> QED
  BY <1>1, <1>2, <1>2b, <1>3, <1>4, <1>5, <1>6, <1>7, <1>8, <1>9, <1>10 DEF PatchStep

LEMMA NextShown ==
    ASSUME IInv, IInv', ShownInv, ~StaleTypes, [Next]_vars
    PROVE  ShownInv'
<1> USE DEF module_vars, code_vars, apply_vars, heap_vars, reader_vars, retire_vars
<1>1. CASE UNCHANGED vars
  <2>1. Staged' = Staged /\ UNCHANGED <<closures, statics, instance, pc, report, patch, rows, count, shown,
                                        revision, target, entry>>
    BY <1>1 DEF vars, Staged
  <2> QED
    BY <2>1, SameView, ShownFrame
<1>2. ASSUME NEW t \in Threads, Call(t) \/ Return(t) \/ Store(t) \/ StoreStatic(t) \/ Construct(t) PROVE ShownInv'
  <2>1. /\ Staged' = Staged /\ ~Stopped
        /\ UNCHANGED <<pc, report, patch, rows, count, shown, revision, target, entry>>
    BY <1>2 DEF Call, Return, Store, StoreStatic, Construct, Runs, program_frame, Staged, IInv, ControlInv
  <2> QED
    BY <2>1, SameView, ShownFrame
<1>3. ASSUME NEW t \in Threads,
             retire_prepare(t) \/ retire_blocked(t) \/ retire_ready(t) \/ free_shutdown(t)
      PROVE  ShownInv'
  BY <1>3, ShownRuns DEF retire_prepare, retire_blocked, retire_ready, free_shutdown, Stopped, Patching, ShownInv
<1>4. ASSUME NEW r \in Readers,
             Count(r) \/ Snapshot(r) \/ ReadRegions(r) \/ SnapshotFree(r) \/ Leave(r)
      PROVE  ShownInv'
  <2>1. /\ Staged' = Staged
        /\ UNCHANGED <<closures, statics, instance, pc, report, patch, rows, count, shown, revision, target, entry>>
    BY <1>4 DEF Count, Snapshot, ReadRegions, SnapshotFree, Leave, reader_frame, Staged
  <2> QED
    BY <2>1, SameView, ShownFrame
<1> QED
  BY <1>1, <1>2, <1>3, <1>4, PatchShown DEF Next

\* Every step of the module is one that the program may see, or it sees nothing.
LEMMA PatchRefines ==
    ASSUME IInv, IInv', ShownInv, ~StaleTypes, NEW t \in Threads, PatchStep(t)
    PROVE  [Atomic!AtomicNext]_Atomic!avars
<1> USE DEF module_vars, code_vars, heap_vars, reader_vars, retire_vars
<1>0. Len(View.rows["fields"]) = count["fields"]
  BY Counted, ViewParts DEF FieldsCounted
<1>1. CASE Apply(t)
  <2>1. View' = [View EXCEPT !.report = "none"]
    BY <1>1, ReportView DEF Apply
  <2>2. ViewListed = 1..count["fields"]
    <3>1. pc = "idle"
      BY <1>1 DEF Apply, IInv, TypeOK
    <3> QED
      BY <3>1, Listed DEF ShownInv, FieldsNamed, FieldsListed
  <2>3. View' = [View EXCEPT !.report = "none", !.listed = 1..Len(View.rows["fields"])]
    <3>1. View' = [revision |-> revision, code |-> ViewCode, rows |-> ViewRows,
                   listed |-> 1..Len(View.rows["fields"]), report |-> "none"]
      BY <1>0, <2>1, <2>2, ViewParts, SetField
    <3> QED
      BY <3>1, ViewFields
  <2>4. world = Nobody /\ UNCHANGED <<world, instance, closures, statics>>
    BY <1>1 DEF Apply
  <2>5. Atomic!Attempt
    BY <2>3, <2>4 DEF Atomic!Attempt
  <2> QED
    BY <2>5 DEF Atomic!AtomicNext
<1>2. CASE Fail(t)
  <2>1. View' = [View EXCEPT !.report = "refused", !.listed = 1..Len(View.rows["fields"])]
    BY <1>0, <1>2, FailView
  <2>2. world = Nobody /\ UNCHANGED <<world, instance, closures, statics>>
    BY <1>2 DEF Fail, Refuse, IInv, ControlInv, Stopped
  <2>3. Atomic!Attempt
    BY <2>1, <2>2 DEF Atomic!Attempt
  <2> QED
    BY <2>3 DEF Atomic!AtomicNext
<1>3. CASE Stage(t)
  <2>1. View' = View \/ View' = [View EXCEPT !.listed = 1..Len(View.rows["fields"]) + 1]
    BY <1>0, <1>3, StageView
  <2>2. world = Nobody /\ UNCHANGED <<world, instance, closures, statics>> /\ View.report = "none"
    BY <1>3 DEF Stage, IInv, ControlInv, Stopped, ShownInv, Patching, View
  <2>3. CASE View' = View
    BY <2>2, <2>3 DEF Atomic!avars
  <2>4. CASE View' = [View EXCEPT !.listed = 1..Len(View.rows["fields"]) + 1]
    <3>1. Atomic!Announce
      BY <2>2, <2>4 DEF Atomic!Announce
    <3> QED
      BY <3>1 DEF Atomic!AtomicNext
  <2> QED
    BY <2>1, <2>3, <2>4
<1>4. CASE Reject(t)
  <2>1. View' = View
    BY <1>4, SameView DEF Reject
  <2> QED
    BY <1>4, <2>1 DEF Reject, Atomic!avars
<1>5. CASE ExclusiveBegin(t)
  <2>1. world = Nobody /\ world' # Nobody /\ shown' = <<View, instance>>
        /\ UNCHANGED <<closures, statics>>
    BY <1>5, PatchAssumption DEF ExclusiveBegin
  <2> QED
    BY <2>1 DEF Atomic!avars
<1>6. CASE GuardRefused(t)
  <2>1. View' = View
    BY <1>6, SameView DEF GuardRefused
  <2>2. world # Nobody /\ world' = Nobody /\ shown = <<View, instance>>
        /\ UNCHANGED <<closures, statics, instance>>
    BY <1>6 DEF GuardRefused, ShownInv, IInv, ControlInv, Stopped
  <2> QED
    BY <2>1, <2>2 DEF Atomic!avars
<1>7. CASE Commit(t) \/ patch_live_publish(t) \/ SweepCode(t) \/ patch_code_free(t) \/ SetRevision(t)
           \/ migrate_patch_instances(t)
  <2>1. world # Nobody /\ UNCHANGED <<world, shown, closures, statics>>
    BY <1>7 DEF Commit, patch_live_publish, SweepCode, patch_code_free, SetRevision,
                migrate_patch_instances, IInv, ControlInv, Stopped
  <2> QED
    BY <2>1 DEF Atomic!avars
<1>8. CASE ExclusiveEnd(t)
  <2>1. View' = View
    BY <1>8, SameView DEF ExclusiveEnd
  <2>2. /\ world # Nobody /\ world' = Nobody /\ pc = "resume"
        /\ UNCHANGED <<closures, statics, instance>>
        /\ patch.shape \in Shapes /\ Newest = revision
    BY <1>8 DEF ExclusiveEnd, IInv, ControlInv, Stopped, Patching, Newest, Committing
  <2>3. [View EXCEPT !.revision = revision] = Atomic!Patched(shown[1], patch.shape, report)
    BY <2>2 DEF ShownInv
  <2>4. View = Atomic!Patched(shown[1], patch.shape, report)
    BY <2>3, ViewParts, SetField
  <2>5. View.revision = revision
    BY DEF View
  <2>6. Atomic!Patched(shown[1], patch.shape, report).revision = shown[1].revision + 1
    BY DEF Atomic!Patched
  <2>7. shown[1].revision + 1 = revision
    BY <2>4, <2>5, <2>6
  <2>8. /\ patch.shape.guards \cap (closures \cup statics) = {}
        /\ IF patch.shape.migrates /\ shown[2] # 0
           THEN \/ report = "none" /\ instance = revision
                \/ report = "failed" /\ instance = shown[2]
           ELSE report = "none" /\ instance = shown[2]
    BY <2>2 DEF ShownInv, Guarded
  <2>9. Atomic!Install(patch.shape)
    BY <2>1, <2>2, <2>4, <2>7, <2>8 DEF Atomic!Install
  <2> QED
    BY <2>2, <2>9 DEF Atomic!AtomicNext
<1> QED
  BY <1>1, <1>2, <1>3, <1>4, <1>5, <1>6, <1>7, <1>8 DEF PatchStep

\* One closure more or less, or one of which there is another.
LEMMA StoredOne ==
    ASSUME NEW t \in Threads, Store(t) \/ StoreStatic(t)
    PROVE  \E s \in Droppable :
             \/ closures' \cup statics' = (closures \cup statics) \cup {s}
             \/ closures' \cup statics' \in {closures \cup statics, (closures \cup statics) \ {s}}
<1>1. CASE Store(t)
  <2>1. PICK s \in Droppable : closures' \in {closures \cup {s}, closures \ {s}}
    BY <1>1 DEF Store
  <2>2. statics' = statics
    BY <1>1 DEF Store
  <2> QED
    BY <2>1, <2>2
<1>2. CASE StoreStatic(t)
  <2>1. PICK s \in Droppable : statics' \in {statics \cup {s}, statics \ {s}}
    BY <1>2 DEF StoreStatic
  <2>2. closures' = closures
    BY <1>2 DEF StoreStatic
  <2> QED
    BY <2>1, <2>2
<1> QED
  BY <1>1, <1>2

LEMMA ProgramRefines ==
    ASSUME IInv, NEW t \in Threads, Call(t) \/ Return(t) \/ Store(t) \/ StoreStatic(t) \/ Construct(t)
    PROVE  [Atomic!AtomicNext]_Atomic!avars
<1>1. /\ world = Nobody /\ world' = Nobody
      /\ UNCHANGED <<revision, count, target, entry, rows, report>>
  BY DEF Call, Return, Store, StoreStatic, Construct, Runs, program_frame, module_vars, apply_vars
<1>2. View' = View /\ View.revision = revision
  BY <1>1, SameView DEF View
<1>3. CASE Call(t) \/ Return(t)
  BY <1>1, <1>2, <1>3 DEF Call, Return, Atomic!avars
<1>4. CASE Store(t) \/ StoreStatic(t)
  <2>1. PICK s \in Droppable :
          \/ closures' \cup statics' = (closures \cup statics) \cup {s}
          \/ closures' \cup statics' \in {closures \cup statics, (closures \cup statics) \ {s}}
    BY <1>4, StoredOne
  <2>2. s \in 1..First["functions"] /\ instance' = instance
    BY <1>4, DroppableLoaded DEF Loaded, Store, StoreStatic
  <2>3. CASE closures' \cup statics' = closures \cup statics
    BY <1>1, <1>2, <2>2, <2>3 DEF Atomic!avars
  <2>4. CASE closures' \cup statics' \in {(closures \cup statics) \cup {s}, (closures \cup statics) \ {s}}
    <3>1. Atomic!Store
      BY <1>1, <1>2, <2>2, <2>4 DEF Atomic!Store
    <3> QED
      BY <3>1 DEF Atomic!AtomicNext
  <2> QED
    BY <2>1, <2>3, <2>4
<1>5. CASE Construct(t)
  <2>1. Atomic!Construct \/ Atomic!Drop
    BY <1>1, <1>2, <1>5 DEF Construct, Atomic!Construct, Atomic!Drop
  <2> QED
    BY <2>1 DEF Atomic!AtomicNext
<1> QED
  BY <1>3, <1>4, <1>5

LEMMA NextRefines ==
    ASSUME IInv, IInv', ShownInv, ~StaleTypes, [Next]_vars
    PROVE  [Atomic!AtomicNext]_Atomic!avars
<1> USE DEF module_vars, code_vars, apply_vars, heap_vars, reader_vars, retire_vars
<1>1. ASSUME UNCHANGED <<revision, count, target, entry, rows, report, world, shown, closures, statics,
                       instance>>
      PROVE  [Atomic!AtomicNext]_Atomic!avars
  BY <1>1, SameView DEF Atomic!avars
<1>2. CASE UNCHANGED vars
  BY <1>1, <1>2 DEF vars
<1>3. ASSUME NEW t \in Threads,
             retire_prepare(t) \/ retire_blocked(t) \/ retire_ready(t) \/ free_shutdown(t)
      PROVE  [Atomic!AtomicNext]_Atomic!avars
  BY <1>1, <1>3 DEF retire_prepare, retire_blocked, retire_ready, free_shutdown
<1>4. ASSUME NEW r \in Readers,
             Count(r) \/ Snapshot(r) \/ ReadRegions(r) \/ SnapshotFree(r) \/ Leave(r)
      PROVE  [Atomic!AtomicNext]_Atomic!avars
  BY <1>1, <1>4 DEF Count, Snapshot, ReadRegions, SnapshotFree, Leave, reader_frame
<1> QED
  BY <1>2, <1>3, <1>4, PatchRefines, ProgramRefines DEF Next

LEMMA InitRefines == ASSUME Init PROVE Atomic!AtomicInit
<1>1. /\ world = Nobody /\ count = First /\ revision = 1 /\ report = "none"
      /\ instance = 0 /\ closures = {} /\ statics = {}
  BY DEF Init
<1>2. ViewCode = [s \in 1..First["functions"] |-> 1]
  BY <1>1, Bounds DEF Init, ViewCode, Reached, Loaded
<1>3. ViewRows = [a \in Tables |-> [i \in 1..First[a] |-> 1]]
  BY <1>1, Bounds DEF Init, ViewRows
<1>5. ViewListed = 1..First["fields"]
  BY <1>1, Bounds, TableAssumption DEF Init, ViewListed
<1>4. View = Atomic!LoadedModule
  BY <1>1, <1>2, <1>3, <1>5, ViewParts DEF Atomic!LoadedModule
<1> QED
  BY <1>1, <1>4 DEF Atomic!AtomicInit

\* A patch that is staged while the program runs, may be refused at every step
\* and commits piece by piece implements one that happens in one step or not at
\* all (PatchAtomic), when no stale patch appends types: `fail:` of such a patch
\* clears a type that an earlier one has brought (hlpatch.c:1682).
THEOREM Implementation == ASSUME ~StaleTypes PROVE Spec => ImplementsAtomic
<1>1. Init => ShownInv
  BY Bounds, TableAssumption DEF Init, ShownInv, Patching, Stopped, Committing
<1>2. IInv /\ IInv' /\ ShownInv /\ [Next]_vars => ShownInv'
  BY NextShown
<1>3. IInv /\ IInv' /\ ShownInv /\ [Next]_vars => [Atomic!AtomicNext]_Atomic!avars
  BY NextRefines
<1>4. Init => Atomic!AtomicInit
  BY InitRefines
<1> QED
  BY <1>1, <1>2, <1>3, <1>4, Invariance, PTL DEF Spec, ImplementsAtomic, Atomic!AtomicSpec
=============================================================================
