------------------------------ MODULE HlPatch ------------------------------
(***************************************************************************)
(* Live patching of a module: hl_module_apply_patch of hlpatch.c with the *)
(* lock of hl_runtime_module_apply_hlp, the lifetime of patch code, the   *)
(* readers that look at it from other threads, and the retirement of the  *)
(* module (module.c, hlruntime.c).                                        *)
(*                                                                         *)
(* The code a patch brings is one allocation, named by the revision the   *)
(* patch makes; 1 is the code of the loaded module.                       *)
(***************************************************************************)
EXTENDS Naturals, FiniteSets, Sequences

CONSTANTS
    Threads,        \* threads the collector knows: they run the module or patch it
    Readers,        \* threads that count themselves: a sampler, a connection
    Nobody,
    Tables,         \* {"types", "fields", "functions", "globals"}
    First,          \* entries of each table when the module is loaded
    Capacity,       \* and the entries it has room for
    Shapes,         \* what a patch may hold: [slots, adds, guards, migrates]
    MaxRevision,    \* bound on the number of patches
    StaleTypes      \* TRUE: a stale patch may append types

ASSUME TableAssumption ==
    /\ Tables = {"types", "fields", "functions", "globals"}
    /\ First \in [Tables -> Nat \ {0}]
    /\ Capacity \in [Tables -> Nat]
    /\ \A a \in Tables : First[a] <= Capacity[a]
ASSUME ShapeAssumption ==
    /\ Shapes \subseteq [slots : SUBSET (1..First["functions"]), adds : SUBSET Tables,
                         guards : SUBSET (1..First["functions"]), migrates : BOOLEAN]
    /\ \A p \in Shapes : p.slots # {} \/ "functions" \in p.adds \* "Patch contains no functions"
ASSUME PatchAssumption ==
    /\ Nobody \notin Threads /\ IsFiniteSet(Readers)
    /\ MaxRevision \in Nat \ {0}
    /\ StaleTypes \in BOOLEAN

Loaded == 1..First["functions"]
Slots  == 1..Capacity["functions"]
Codes  == 2..MaxRevision

VARIABLES
    \* hl_module and hl_code
    revision, count, rows, owner, target, entry, references,
    live, retired, freed,
    \* undercut[t]: code that a patch of t freed while t was inside it
    undercut,
    \* the runtime lock, the exclusive section, the patch being applied with its
    \* progress, and (counts) the tables that earlier patches were made for
    lock, world, pc, patch, counts, staged, superseded, doomed, report, shown,
    \* what the program holds: code on stacks, closures it has allocated, closures
    \* made at load (memory of the module, not of the collector), an instance
    frames, closures, statics, instance,
    \* patch_readers and the readers
    patch_readers, rpc, held,
    \* the registry and the retirement
    registered, registry_readers, alive

module_vars == <<revision, count, rows, owner, target, entry, references>>
code_vars   == <<live, retired, freed, undercut>>
apply_vars  == <<lock, world, pc, patch, counts, staged, superseded, doomed, report, shown>>
heap_vars   == <<frames, closures, statics, instance>>
reader_vars == <<patch_readers, rpc, held>>
retire_vars == <<registered, registry_readers, alive>>
vars == <<module_vars, code_vars, apply_vars, heap_vars, reader_vars, retire_vars>>

NoPatch == [base |-> 0]

\* The module as it is loaded: every entry of the original code runs its body.
Init ==
    /\ revision = 1 /\ count = First
    /\ rows = [a \in Tables |-> [i \in 1..Capacity[a] |-> IF i <= First[a] THEN 1 ELSE 0]]
    /\ owner = [s \in Slots |-> 0]
    /\ target = [s \in Slots |-> IF s \in Loaded THEN 1 ELSE 0]
    /\ entry = [s \in Loaded |-> 1]
    /\ references = [c \in Codes |-> 0]
    /\ live = {} /\ retired = {} /\ freed = {}
    /\ undercut = [t \in Threads |-> {}]
    /\ lock = Nobody /\ world = Nobody
    /\ pc = "idle" /\ patch = NoPatch /\ counts = <<First>>
    /\ staged = 0 /\ superseded = {} /\ doomed = {} /\ report = "none" /\ shown = <<>>
    /\ frames = [t \in Threads |-> {}] /\ closures = {} /\ statics = {} /\ instance = 0
    /\ patch_readers = 0
    /\ rpc = [r \in Readers |-> "out"]
    /\ held = [r \in Readers |-> {}]
    /\ registered = TRUE /\ registry_readers = 0 /\ alive = TRUE

----------------------------------------------------------------------------
(* What the module shows to the threads that run it.                       *)

\* Where a call of a slot ends: an entry jumps to its stub (0), which reads
\* patch_targets, or straight to code; an added slot has only its stub.
Reached(s) == IF s \in Loaded /\ entry[s] # 0 THEN entry[s] ELSE target[s]

\* The fields are slots of a class: its lookups find the first `count`, but
\* hl_obj_fields lists whatever slot has a name.
View ==
    [revision |-> revision,
     code     |-> [s \in 1..count["functions"] |-> Reached(s)],
     rows     |-> [a \in Tables |-> [i \in 1..count[a] |-> rows[a][i]]],
     listed   |-> {i \in 1..Capacity["fields"] : rows["fields"][i] # 0},
     report   |-> report]

----------------------------------------------------------------------------
(* hl_module_apply_patch                                                   *)

StageOrder == <<"types", "fields", "functions", "globals">>
Staged     == {StageOrder[i] : i \in 1..staged}

Current(p) == p.base = revision /\ p.count = count
Fits(p)    == \A a \in p.shape.adds : count[a] < Capacity[a]

\* apply_hlp takes the lock of the module, forgets its last message and reads
\* a patch that was made for the module as it is or as it was before. It does
\* not ask whether the module was released, or whether its caller is a function
\* of the module.
Apply(t) ==
    /\ alive /\ world = Nobody /\ lock = Nobody
    /\ \E p \in Shapes, b \in 1..revision :
         /\ b < MaxRevision
         /\ StaleTypes \/ b = revision \/ "types" \notin p.adds
         /\ patch' = [base |-> b, count |-> counts[b], shape |-> p]
    /\ lock' = t
    /\ pc' = "stage"
    /\ staged' = 0
    /\ report' = "none"
    /\ UNCHANGED <<module_vars, code_vars, heap_vars, reader_vars, retire_vars,
                   counts, world, superseded, doomed, shown>>

\* Its early returns: the bytes are no patch, or not one for this module.
Reject(t) ==
    /\ lock = t /\ pc = "stage" /\ staged = 0
    /\ lock' = Nobody
    /\ pc' = "idle"
    /\ patch' = NoPatch
    /\ UNCHANGED <<module_vars, code_vars, heap_vars, reader_vars, retire_vars,
                   counts, world, staged, superseded, doomed, report, shown>>

\* stage_patch_types, stage_patch_globals and the loop over the added functions
\* write an entry past the end of the table; stage_patch_object_fields gives the
\* next reserved slot of the live class its name.
StagedRows(p, a) ==
    IF a \in p.shape.adds THEN [rows EXCEPT ![a][count[a] + 1] = p.base + 1] ELSE rows

\* The tables are written one after another while the program runs: the JIT
\* needs the entries to compile the patch.
Stage(t) ==
    LET p == patch
        a == StageOrder[staged + 1]
    IN /\ lock = t /\ pc = "stage" /\ staged < Len(StageOrder)
       /\ Current(p) /\ Fits(p)
       /\ rows' = StagedRows(p, a)
       /\ staged' = staged + 1
       /\ UNCHANGED <<revision, count, owner, target, entry, references, code_vars,
                      heap_vars, reader_vars, retire_vars,
                      lock, world, pc, patch, counts, superseded, doomed, report, shown>>

\* Mutant: `fail:` forgets the globals.
UnstagedFields(p) ==
    [a \in Tables |-> [i \in 1..Capacity[a] |->
        IF /\ a \in p.shape.adds \ {"globals"}
           /\ IF a = "types" THEN i = p.count[a] + 1
                             ELSE a \in Staged /\ i = count[a] + 1
        THEN 0 ELSE rows[a][i]]]

\* What `fail:` leaves of the tables. The staged entries of functions, globals
\* and fields are put back; the entries for types are cleared at the place the
\* patch names, whatever made it fail.
Unstaged(p) ==
    [a \in Tables |-> [i \in 1..Capacity[a] |->
        IF /\ a \in p.shape.adds
           /\ IF a = "types" THEN i = p.count[a] + 1
                             ELSE a \in Staged /\ i = count[a] + 1
        THEN 0 ELSE rows[a][i]]]

Refuse(t) ==
    /\ rows' = Unstaged(patch)
    /\ lock' = Nobody /\ staged' = 0
    /\ pc' = "idle"
    /\ patch' = NoPatch
    /\ report' = "refused"
    /\ UNCHANGED <<revision, count, owner, target, entry, references, code_vars,
                   heap_vars, reader_vars, retire_vars, counts, world, superseded, doomed, shown>>

\* A patch may be refused at every step before the commit: it is stale or not
\* valid, memory runs out, the JIT fails, a test injects a failure.
Fail(t) == lock = t /\ pc \in {"stage", "fail"} /\ Refuse(t)

\* hl_gc_exclusive_begin: every other thread of the collector is stopped.
ExclusiveBegin(t) ==
    /\ lock = t /\ pc = "stage" /\ staged = Len(StageOrder) /\ world = Nobody
    /\ world' = t
    /\ pc' = "commit"
    /\ shown' = <<View, instance>>
    /\ UNCHANGED <<module_vars, code_vars, heap_vars, reader_vars, retire_vars,
                   lock, patch, counts, staged, superseded, doomed, report>>

\* check_patch_guards: no closure the program holds reaches a dropped function.
Guarded(p) == p.shape.guards \cap (closures \cup statics) = {}

\* The world is released before `fail:` clears the tables. The search may also
\* run out of memory.
GuardRefused(t) ==
    /\ lock = t /\ pc = "commit" /\ patch.shape.guards # {}
    /\ world' = Nobody /\ shown' = <<>>
    /\ pc' = "fail"
    /\ UNCHANGED <<module_vars, code_vars, heap_vars, reader_vars, retire_vars,
                   lock, patch, counts, staged, superseded, doomed, report>>

\* The slots a patch gives code to: those it redefines and the one it adds.
NewCode(p) == p.shape.slots \cup
    (IF "functions" \in p.shape.adds THEN {count["functions"] + 1} ELSE {})

\* Mutant: only the first patch of a slot rewrites an entry it cannot reach.
RedirectedFirst(p, near) ==
    [s \in Loaded |-> IF s \notin p.shape.slots THEN entry[s]
                      ELSE IF s \in near THEN p.base + 1
                      ELSE IF target[s] = 1 THEN 0 ELSE entry[s]]

\* hl_module_redirect_slot: the entry jumps to code in its reach (near), or it
\* goes through the stub.
Redirected(p, near) ==
    [s \in Loaded |-> IF s \notin p.shape.slots THEN entry[s]
                      ELSE IF s \in near THEN p.base + 1 ELSE 0]

\* publish_added_functions and the like: the table ends after the new entry.
Published(p) == [a \in Tables |-> IF a \in p.shape.adds THEN count[a] + 1 ELSE count[a]]

\* The tables grow over what was staged and the slots change hands.
Commit(t) ==
    LET p == patch
        c == p.base + 1
        Lost(o) == Cardinality({s \in NewCode(p) : owner[s] = o})
    IN /\ lock = t /\ pc = "commit" /\ Guarded(p)
       /\ count' = Published(p)
       /\ \E near \in SUBSET p.shape.slots : entry' = Redirected(p, near)
       /\ target' = [s \in Slots |-> IF s \in NewCode(p) THEN c ELSE target[s]]
       /\ owner' = [s \in Slots |-> IF s \in NewCode(p) THEN c ELSE owner[s]]
       /\ references' = [o \in Codes |-> IF o = c THEN Cardinality(NewCode(p))
                                                 ELSE references[o] - Lost(o)]
       /\ superseded' = {o \in Codes : references[o] > 0 /\ references'[o] = 0}
       /\ pc' = "publish"
       /\ UNCHANGED <<revision, rows, code_vars, heap_vars, reader_vars, retire_vars,
                      lock, world, patch, counts, staged, doomed, report, shown>>

\* Mutant: the list is made before the added functions are published.
PublishLoaded(t) ==
    /\ lock = t /\ pc = "publish"
    /\ live' = {owner[s] : s \in Loaded} \ {0}
    /\ pc' = "sweep"
    /\ UNCHANGED <<module_vars, retired, freed, undercut, heap_vars, reader_vars, retire_vars,
                   lock, world, patch, counts, staged, superseded, doomed, report, shown>>

\* patch_live_publish: the allocations the slots use, by one store.
patch_live_publish(t) ==
    /\ lock = t /\ pc = "publish"
    /\ live' = {owner[s] : s \in 1..count["functions"]} \ {0}
    /\ pc' = "sweep"
    /\ UNCHANGED <<module_vars, retired, freed, undercut, heap_vars, reader_vars, retire_vars,
                   lock, world, patch, counts, staged, superseded, doomed, report, shown>>

\* Nobody can be inside c or read it: no reader is counted, and no stack of
\* another thread points into it (hl_gc_threads_reference).
Unused(t, c) ==
    /\ patch_readers = 0
    /\ \A u \in Threads \ {t} : c \notin frames[u]

\* Code no slot uses is freed if nobody can be in it, or else retired.
SweepCode(t) ==
    /\ lock = t /\ pc = "sweep" /\ doomed = {}
    /\ \E c \in superseded :
         /\ superseded' = superseded \ {c}
         /\ IF Unused(t, c)
            THEN doomed' = {c} /\ UNCHANGED retired
            ELSE retired' = retired \cup {c} /\ UNCHANGED doomed
    /\ UNCHANGED <<module_vars, live, freed, undercut, heap_vars, reader_vars, retire_vars,
                   lock, world, pc, patch, counts, staged, report, shown>>

patch_code_free(t) ==
    /\ lock = t /\ pc = "sweep" /\ doomed # {}
    /\ freed' = freed \cup doomed
    /\ undercut' = [undercut EXCEPT ![t] = @ \cup (frames[t] \cap doomed)]
    /\ doomed' = {}
    /\ UNCHANGED <<module_vars, live, retired, heap_vars, reader_vars, retire_vars,
                   lock, world, pc, patch, counts, staged, superseded, report, shown>>

\* Mutant: the world is released before the migrations run.
SetRevisionResumes(t) ==
    /\ lock = t /\ pc = "sweep" /\ superseded = {} /\ doomed = {}
    /\ revision' = patch.base + 1
    /\ counts' = Append(counts, count)
    /\ world' = Nobody
    /\ pc' = "migrate"
    /\ UNCHANGED <<count, rows, owner, target, entry, references, code_vars, heap_vars,
                   reader_vars, retire_vars,
                   lock, patch, staged, superseded, doomed, report, shown>>

SetRevision(t) ==
    /\ lock = t /\ pc = "sweep" /\ superseded = {} /\ doomed = {}
    /\ revision' = patch.base + 1
    /\ counts' = Append(counts, count)
    /\ pc' = "migrate"
    /\ UNCHANGED <<count, rows, owner, target, entry, references, code_vars, heap_vars,
                   reader_vars, retire_vars,
                   lock, world, patch, staged, superseded, doomed, report, shown>>

\* migrate_patch_instances: the initializers of the added fields run on the
\* instance made before the patch; one that throws is reported.
migrate_patch_instances(t) ==
    /\ lock = t /\ pc = "migrate"
    /\ IF patch.shape.migrates /\ instance # 0
       THEN \/ instance' = revision /\ UNCHANGED report
            \/ report' = "failed" /\ UNCHANGED instance
       ELSE UNCHANGED <<instance, report>>
    /\ pc' = "resume"
    /\ UNCHANGED <<module_vars, code_vars, frames, closures, statics, reader_vars, retire_vars,
                   lock, world, patch, counts, staged, superseded, doomed, shown>>

\* hl_gc_exclusive_end; apply_hlp releases the lock.
ExclusiveEnd(t) ==
    /\ lock = t /\ pc = "resume"
    /\ world' = Nobody /\ lock' = Nobody /\ staged' = 0 /\ shown' = <<>>
    /\ pc' = "idle"
    /\ patch' = NoPatch
    /\ UNCHANGED <<module_vars, code_vars, heap_vars, reader_vars, retire_vars,
                   counts, superseded, doomed, report>>

----------------------------------------------------------------------------
(* The program                                                             *)

Runs(t) == alive /\ world = Nobody /\ lock # t

\* "The caller must quiesce calls" of a release (hlmodule.h): while it is under
\* way the program only drops what it holds. A module that was not freed serves
\* again.
Serving == pc \notin {"retire", "free"}

program_frame == <<module_vars, code_vars, apply_vars, reader_vars, retire_vars>>

\* A thread calls a function, through its entry or through its stub, and
\* returns. Code 1 is never freed before the module and is not recorded.
Call(t) ==
    /\ Runs(t) /\ Serving
    /\ \E s \in 1..count["functions"] : \E c \in {Reached(s), target[s]} :
         frames' = [frames EXCEPT ![t] = @ \cup ({c} \ {1})]
    /\ UNCHANGED <<program_frame, closures, statics, instance>>

Return(t) ==
    /\ Runs(t)
    /\ \E c \in frames[t] : frames' = [frames EXCEPT ![t] = @ \ {c}]
    /\ UNCHANGED <<program_frame, closures, statics, instance>>

\* The functions that some patch drops: only their closures matter.
Droppable == UNION {p.guards : p \in Shapes}

\* A closure is allocated and stored, or dropped.
Store(t) ==
    /\ Runs(t)
    /\ \E s \in Droppable :
         \/ Serving /\ s \notin closures /\ closures' = closures \cup {s}
         \/ s \in closures /\ closures' = closures \ {s}
    /\ UNCHANGED <<program_frame, frames, statics, instance>>

\* OStaticClosure of loaded code: the closure the JIT made at load is stored.
StoreStatic(t) ==
    /\ Runs(t)
    /\ \E s \in Droppable :
         \/ Serving /\ s \notin statics /\ statics' = statics \cup {s}
         \/ s \in statics /\ statics' = statics \ {s}
    /\ UNCHANGED <<program_frame, frames, closures, instance>>

Construct(t) ==
    /\ Runs(t)
    /\ \/ Serving /\ instance = 0 /\ instance' = revision
       \/ instance # 0 /\ instance' = 0
    /\ UNCHANGED <<program_frame, frames, closures, statics>>

----------------------------------------------------------------------------
(* Readers on threads the collector does not know (send_metadata)          *)

reader_frame == <<module_vars, code_vars, apply_vars, heap_vars, registered, alive>>

\* hl_module_patch_readers(1)
Count(r) ==
    /\ rpc[r] = "out"
    /\ patch_readers' = patch_readers + 1
    /\ rpc' = [rpc EXCEPT ![r] = "counted"]
    /\ UNCHANGED <<reader_frame, held, registry_readers>>

\* hl_module_registry_snapshot: a module that is not listed is not read.
Snapshot(r) ==
    /\ rpc[r] = "counted"
    /\ rpc' = [rpc EXCEPT ![r] = IF registered THEN "reading" ELSE "leaving"]
    /\ registry_readers' = IF registered THEN registry_readers + 1 ELSE registry_readers
    /\ UNCHANGED <<reader_frame, patch_readers, held>>

\* patch_debug_region_at: the live list, then the retired code.
ReadRegions(r) ==
    /\ rpc[r] = "reading"
    /\ \E list \in {live, retired} : held' = [held EXCEPT ![r] = @ \cup list]
    /\ UNCHANGED <<reader_frame, patch_readers, rpc, registry_readers>>

SnapshotFree(r) ==
    /\ rpc[r] = "reading"
    /\ registry_readers' = registry_readers - 1
    /\ rpc' = [rpc EXCEPT ![r] = "leaving"]
    /\ held' = [held EXCEPT ![r] = {}]
    /\ UNCHANGED <<reader_frame, patch_readers>>

\* hl_module_patch_readers(-1)
Leave(r) ==
    /\ rpc[r] = "leaving"
    /\ patch_readers' = patch_readers - 1
    /\ rpc' = [rpc EXCEPT ![r] = "out"]
    /\ UNCHANGED <<reader_frame, held, registry_readers>>

----------------------------------------------------------------------------
(* Retirement: hl_runtime_module_release, hl_module_retire_try             *)

\* The host releases a module no thread is running.
Quiet == \A t \in Threads : frames[t] = {}

retire_prepare(t) ==
    /\ alive /\ world = Nobody /\ lock = Nobody /\ Quiet
    /\ lock' = t
    /\ pc' = "retire"
    /\ registered' = FALSE
    /\ UNCHANGED <<module_vars, code_vars, heap_vars, reader_vars, registry_readers, alive,
                   world, patch, counts, staged, superseded, doomed, report, shown>>

\* Mutant: the snapshots of the registry do not count.
BlockedByHeap == instance # 0 \/ closures # {}

\* The collector counts the blocks of the module's types: the instance and the
\* closures allocated, not those made at load.
Blocked == instance # 0 \/ closures # {} \/ registry_readers > 0

\* Mutant: the early return keeps the lock.
BlockedLocked(t) ==
    /\ lock = t /\ pc = "retire" /\ Blocked
    /\ pc' = "idle"
    /\ UNCHANGED <<module_vars, code_vars, heap_vars, reader_vars, retire_vars,
                   lock, world, patch, counts, staged, superseded, doomed, report, shown>>

\* A module something still needs stays; a later release tries again.
retire_blocked(t) ==
    /\ lock = t /\ pc = "retire" /\ Blocked
    /\ lock' = Nobody
    /\ pc' = "idle"
    /\ UNCHANGED <<module_vars, code_vars, heap_vars, reader_vars, retire_vars,
                   world, patch, counts, staged, superseded, doomed, report, shown>>

\* Nothing needs it: the debugger is told, and the module goes.
retire_ready(t) ==
    /\ lock = t /\ pc = "retire" /\ ~Blocked
    /\ pc' = "free"
    /\ UNCHANGED <<module_vars, code_vars, heap_vars, reader_vars, retire_vars,
                   lock, world, patch, counts, staged, superseded, doomed, report, shown>>

\* hl_module_free_shutdown with hl_module_patch_release_all.
free_shutdown(t) ==
    /\ lock = t /\ pc = "free"
    /\ freed' = freed \cup retired \cup {o \in Codes : references[o] > 0}
    /\ retired' = {} /\ live' = {}
    /\ alive' = FALSE
    /\ lock' = Nobody
    /\ pc' = "idle"
    /\ UNCHANGED <<module_vars, undercut, heap_vars, reader_vars, registered, registry_readers,
                   world, patch, counts, staged, superseded, doomed, report, shown>>

----------------------------------------------------------------------------
PatchStep(t) ==
    \/ Apply(t) \/ Reject(t) \/ Stage(t) \/ Fail(t) \/ ExclusiveBegin(t) \/ GuardRefused(t)
    \/ Commit(t) \/ patch_live_publish(t) \/ SweepCode(t) \/ patch_code_free(t)
    \/ SetRevision(t) \/ migrate_patch_instances(t) \/ ExclusiveEnd(t)

Next ==
    \/ \E t \in Threads :
         \/ PatchStep(t)
         \/ Call(t) \/ Return(t) \/ Store(t) \/ StoreStatic(t) \/ Construct(t)
         \/ retire_prepare(t) \/ retire_blocked(t) \/ retire_ready(t) \/ free_shutdown(t)
    \/ \E r \in Readers : Count(r) \/ Snapshot(r) \/ ReadRegions(r) \/ SnapshotFree(r) \/ Leave(r)

Spec == Init /\ [][Next]_vars

----------------------------------------------------------------------------
(* Correctness                                                             *)

\* Patches, slots and code have their types, the lock is held by the thread
\* that works on the module, and the counters count the readers.
TypeOK ==
    /\ revision \in 1..MaxRevision
    /\ \A a \in Tables : count[a] \in First[a]..Capacity[a]
    /\ \A a \in Tables : rows[a] \in [1..Capacity[a] -> 0..MaxRevision]
    /\ owner \in [Slots -> {0} \cup Codes] /\ target \in [Slots -> 0..MaxRevision]
    /\ entry \in [Loaded -> 0..MaxRevision]
    /\ references \in [Codes -> 0..Capacity["functions"]]
    /\ live \cup retired \cup freed \cup superseded \cup doomed \subseteq Codes
    /\ lock \in Threads \cup {Nobody} /\ world \in {Nobody, lock}
    /\ pc = "idle" <=> lock = Nobody
    /\ patch_readers = Cardinality({r \in Readers : rpc[r] # "out"})
    /\ registry_readers = Cardinality({r \in Readers : rpc[r] = "reading"})

\* No thread runs, reads or can still reach code that has been freed: not
\* through an entry, a stub or a frame of a stopped thread, and not through
\* the lists, whenever a reader has picked them up. The one exception is the
\* code that a thread's own patch frees under it: hl_gc_threads_reference looks
\* only at the stacks of the other threads.
CodeAlive ==
    /\ \A t \in Threads : frames[t] \cap freed \subseteq undercut[t]
    /\ \A r \in Readers : held[r] \cap freed = {}
    /\ (live \cup retired) \cap (freed \cup doomed) = {}
    /\ alive =>
         \A s \in 1..count["functions"] : {Reached(s), target[s]} \cap freed = {}

\* The code of every patch that was committed is in one place: slots use it
\* (and the list says so), it is retired, or it is freed. Two patches of the
\* same slots and a patch that supersedes several others must neither leak
\* code nor free it twice; a module that is gone has freed all of it.
CodeAccounted ==
    world = Nobody =>
      \A c \in 2..revision :
        LET used == {s \in Slots : owner[s] = c}
        IN /\ references[c] = Cardinality(used)
           /\ IF alive THEN /\ c \in live <=> used # {}
                            /\ c \in freed \cup retired <=> used = {}
                            /\ c \notin freed \cap retired
              ELSE c \in freed

\* A patch that was refused, at whatever step, leaves nothing of its tables
\* behind: with no patch under way everything past the ends is as it was.
NothingLeft ==
    lock = Nobody => \A a \in Tables : \A i \in count[a] + 1..Capacity[a] : rows[a][i] = 0

\* A module is freed only when its tracked borrowers have cleared: no reader has
\* it in a snapshot of the registry, and the heap has no block of its types,
\* although snapshots are taken and given back while the release is decided. A
\* closure made at load is no tracked borrower.
ReleasedUnused ==
    ~alive => /\ \A r \in Readers : rpc[r] # "reading"
              /\ instance = 0 /\ closures = {}

\* Until the world is released the program sees the module as it was when it
\* was stopped.
Atomic == INSTANCE PatchAtomic WITH
    module   <- IF world = Nobody THEN View ELSE shown[1],
    instance <- IF world = Nobody THEN instance ELSE shown[2],
    closures <- closures \cup statics

\* To the running program a patch happens at once or not at all, with the
\* instances migrated, and never while a closure it drops is stored, although
\* it is staged while the program runs, may be refused at every step, and
\* commits piece by piece. All that shows of it before is the name of the field
\* it stages, and a refusal takes that back.
ImplementsAtomic == Atomic!AtomicSpec
=============================================================================
