---------------------------- MODULE ProfRecorder ----------------------------
(***************************************************************************)
(* The profiler's recorder (src/prof.c): threads write records into chunks *)
(* of a pool and publish a position; one consumer, the diagnostics thread, *)
(* starts and stops sessions and drains the threads; any thread pauses and *)
(* resumes recording.                                                      *)
(*                                                                         *)
(* A record has the size of one cell of a chunk. An address is a cell of   *)
(* the pool. The pool's compare-and-swap loops are single steps, and       *)
(* memory is sequentially consistent: what is checked is the protocol, not *)
(* the choice of acquire, release and process_barrier.                     *)
(***************************************************************************)
EXTENDS Integers, Sequences, FiniteSets, SequencesExt

CONSTANTS
    Threads,
    ChunkCount,     \* chunks of the pool
    ChunkSize,      \* cells of a chunk
    MinCall,        \* min_call_ticks # 0: calls are held back until they exit
    Kinds,          \* the calls that threads make
    StaleWriters,   \* a session may start while a thread is inside writer_begin
    FirstWindow,    \* a drain may run inside next_chunk on a thread's first chunk
    MaxRecords, MaxSessions, MaxToggles,    \* bounds
    Nobody

None == -1
Chunks == 0 .. ChunkCount - 1
Cells == 0 .. ChunkCount * ChunkSize - 1

AllKinds == {"enter", "exit", "event", "frame"}

ASSUME SizeAssumption == ChunkCount \in Nat \ {0} /\ ChunkSize \in Nat /\ ChunkSize > 2
ASSUME BoundAssumption == MaxRecords \in [Threads -> Nat] /\ MaxSessions \in Nat /\ MaxToggles \in Nat
ASSUME SwitchAssumption == {MinCall, StaleWriters, FirstWindow} \subseteq BOOLEAN
ASSUME KindAssumption == Kinds \subseteq AllKinds
ASSUME NobodyAssumption == Nobody \notin Threads /\ "stop" \notin Threads /\ Nobody # "stop"

VARIABLES
    hl_prof_on, session_open, session_id,
    recording_toggle,   \* who holds the toggle
    recording_changes,
    registry_lock,      \* the consumer holds the registry
    free,               \* the free list, head first
    chunks,             \* chunks[c]: prof_chunk
    mem,                \* cells of the pool
    threads,            \* threads[t]: prof_thread
    pc, call,           \* where a thread is, and the arguments and locals of its call
    cpc, todo, reading, \* the consumer, the threads its loop has left, the one it drains
    log, drained,       \* records a thread has in this session, records handed over
    count               \* records a thread has written

sessionVars == <<hl_prof_on, session_open, session_id>>
toggleVars == <<recording_toggle, recording_changes>>
poolVars == <<free, chunks>>
consumerVars == <<cpc, todo, reading, registry_lock>>
recordVars == <<mem, log, count>>
vars == <<sessionVars, toggleVars, poolVars, consumerVars, recordVars, threads, pc, call, drained>>

\* The n-th record of a thread, and a cell that was never written.
Record == Threads \X Nat
Blank == <<Nobody, 0>>

WriterPc == {"write", "pop", "full", "link", "fresh"}
TogglePc == {"toggleLock", "toggleCheck", "toggleOn", "toggleRecheck", "toggleOff", "toggleDone"}
StopPc == {"stopOff", "stopToggle", "stopOffAgain", "stopWait", "stopRelease"}

TypeOK ==
    /\ hl_prof_on \in BOOLEAN /\ session_open \in BOOLEAN /\ session_id \in Nat
    /\ recording_toggle \in Threads \cup {"stop", Nobody} /\ recording_changes \in Nat
    /\ registry_lock \in BOOLEAN
    /\ free \in Seq(Chunks)
    /\ chunks \in [Chunks -> [finished : BOOLEAN, size : 0 .. ChunkSize, next : Chunks]]
    /\ mem \in [Cells -> Record \cup {Blank}]
    /\ threads \in [Threads ->
          [session : 0 .. session_id, chunk : Chunks \cup {None}, cur : Cells \cup {None},
           pos : Cells \cup {None}, held : Cells \cup {None}, held_recording : Nat,
           first_chunk : Chunks \cup {None}, writing : 0 .. 1, exited : BOOLEAN,
           dropped : BOOLEAN, read_chunk : Chunks \cup {None}, read_offset : 0 .. ChunkSize]]
    /\ pc \in [Threads -> {"idle", "state", "mark", "check", "end", "gone"}
                          \cup WriterPc \cup TogglePc]
    /\ call \in [Threads ->
          [kind : AllKinds \cup {"dropped", "overflow", "pause", "resume"}, wait : BOOLEAN,
           index : Chunks \cup {None}, stalled : BOOLEAN, ret : {"idle", "toggleOff", "toggleDone"}]]
    /\ cpc \in {"idle", "opening", "starting", "stopped", "drain", "pos", "finished", "done"}
               \cup StopPc
    /\ todo \subseteq Threads /\ reading \in Threads \cup {Nobody}
    /\ log \in [Threads -> Seq(Record)] /\ drained \in [Threads -> Seq(Record \cup {Blank})]
    /\ count \in [Threads -> Nat]

\* A thread's state after thread_reset.
Reset(s) ==
    [session |-> s, chunk |-> None, cur |-> None, pos |-> None, held |-> None,
     held_recording |-> 0, first_chunk |-> None, writing |-> 0, exited |-> FALSE,
     dropped |-> FALSE, read_chunk |-> None, read_offset |-> 0]

NoCall == [kind |-> "event", wait |-> FALSE, index |-> None, stalled |-> FALSE, ret |-> "idle"]

\* calloc, and a pool that no session has used.
Init ==
    /\ hl_prof_on = FALSE /\ session_open = FALSE /\ session_id = 0
    /\ recording_toggle = Nobody /\ recording_changes = 0 /\ registry_lock = FALSE
    /\ free = <<>>
    /\ chunks = [c \in Chunks |-> [finished |-> FALSE, size |-> 0, next |-> 0]]
    /\ mem = [a \in Cells |-> Blank]
    /\ threads = [t \in Threads |-> Reset(0)]
    /\ pc = [t \in Threads |-> "idle"] /\ call = [t \in Threads |-> NoCall]
    /\ cpc = "idle" /\ todo = {} /\ reading = Nobody
    /\ log = [t \in Threads |-> <<>>] /\ drained = [t \in Threads |-> <<>>]
    /\ count = [t \in Threads |-> 0]

-----------------------------------------------------------------------------
(* The pool. *)

chunk_data(c) == c * ChunkSize
Pushed(c) == <<c>> \o free
pool_reset ==
    /\ free' = [i \in 1 .. ChunkCount |-> i - 1]
    /\ chunks' = [c \in Chunks |-> [chunks[c] EXCEPT !.finished = FALSE]]

-----------------------------------------------------------------------------
(* writer_begin and writer_end. *)

Goto(t, l) == pc' = [pc EXCEPT ![t] = l]

\* Mutant: a state of any session will do.
AfterAnyCompare(t) == IF threads[t].session # 0 THEN "mark" ELSE "state"

\* The comparison of the thread's session, before the mark.
AfterCompare(t) == IF threads[t].session = session_id THEN "mark" ELSE "state"

\* A call of a writer, which first looks at hl_prof_on; calls are not recorded
\* in a section that must not wait.
Begin(t) == \E k \in Kinds, w \in BOOLEAN :
    /\ pc[t] = "idle" /\ hl_prof_on /\ count[t] < MaxRecords[t]
    /\ k \in {"enter", "exit"} => w
    /\ call' = [call EXCEPT ![t] = [NoCall EXCEPT !.kind = k, !.wait = w]]
    /\ Goto(t, AfterCompare(t))
    /\ UNCHANGED <<sessionVars, toggleVars, poolVars, consumerVars, recordVars, threads, drained>>

thread_state(t) ==
    /\ pc[t] = "state" /\ ~registry_lock
    /\ threads' = IF threads[t].session = session_id THEN threads
                  ELSE [threads EXCEPT ![t] = Reset(session_id)]
    /\ Goto(t, "mark")
    /\ UNCHANGED <<sessionVars, toggleVars, poolVars, consumerVars, recordVars, call, drained>>

Mark(t) ==
    /\ pc[t] = "mark"
    /\ threads' = [threads EXCEPT ![t].writing = @ + 1]
    /\ Goto(t, "check")
    /\ UNCHANGED <<sessionVars, toggleVars, poolVars, consumerVars, recordVars, call, drained>>

\* With recording off the mark is taken back and the call returns.
Check(t) ==
    /\ pc[t] = "check"
    /\ Goto(t, IF hl_prof_on THEN "write" ELSE "end")
    /\ UNCHANGED <<sessionVars, toggleVars, poolVars, consumerVars, recordVars, threads, call, drained>>

\* Mutant: the early return of a dropped call leaves its mark behind.
EndKeepsMark(t) ==
    /\ pc[t] = "end"
    /\ threads' = IF call[t].kind = "exit" /\ threads[t].dropped THEN threads
                  ELSE [threads EXCEPT ![t].writing = @ - 1]
    /\ call' = [call EXCEPT ![t] = NoCall]
    /\ Goto(t, call[t].ret)
    /\ UNCHANGED <<sessionVars, toggleVars, poolVars, consumerVars, recordVars, drained>>

writer_end(t) ==
    /\ pc[t] = "end"
    /\ threads' = [threads EXCEPT ![t].writing = @ - 1]
    /\ call' = [call EXCEPT ![t] = NoCall]
    /\ Goto(t, call[t].ret)
    /\ UNCHANGED <<sessionVars, toggleVars, poolVars, consumerVars, recordVars, drained>>

-----------------------------------------------------------------------------
(* Records. *)

\* reserve: a chunk is never filled to its last cell.
Room(t) ==
    threads[t].cur # None /\ chunk_data(threads[t].chunk) + ChunkSize - threads[t].cur > 1

\* The record a thread writes next.
Fresh(t) == <<t, count[t] + 1>>

\* Thread t writes a record at a.
Put(t, a) ==
    /\ mem' = [mem EXCEPT ![a] = Fresh(t)]
    /\ log' = [log EXCEPT ![t] = Append(@, Fresh(t))]
    /\ count' = [count EXCEPT ![t] = @ + 1]

\* COMMIT of a record of one cell at a.
Commit(s, a) == [s EXCEPT !.cur = a + 1, !.pos = a + 1, !.held = None]

\* Mutant: the position is published over a record that may be taken back.
WriteHeldPublished(t) == LET s == threads[t] IN
    /\ pc[t] = "write" /\ Room(t) /\ call[t].kind = "enter" /\ MinCall
    /\ Put(t, s.cur)
    /\ threads' = [threads EXCEPT ![t] =
          IF s.held # None THEN [s EXCEPT !.cur = @ + 1, !.pos = s.cur + 1]
          ELSE [s EXCEPT !.cur = @ + 1, !.pos = s.cur + 1, !.held = s.cur,
                         !.held_recording = recording_changes]]
    /\ Goto(t, "end")
    /\ UNCHANGED <<sessionVars, toggleVars, poolVars, consumerVars, call, drained>>

\* write_enter with a minimum call duration: the record is held back.
WriteHeld(t) == LET s == threads[t] IN
    /\ pc[t] = "write" /\ Room(t) /\ call[t].kind = "enter" /\ MinCall
    /\ Put(t, s.cur)
    /\ threads' = [threads EXCEPT ![t] =
          IF s.held # None THEN [s EXCEPT !.cur = @ + 1]
          ELSE [s EXCEPT !.cur = @ + 1, !.held = s.cur, !.held_recording = recording_changes]]
    /\ Goto(t, "end")
    /\ UNCHANGED <<sessionVars, toggleVars, poolVars, consumerVars, call, drained>>

\* The counts of dropped calls once a record of them is written or lost; when a
\* slot was missing, the call that needed it is counted afterwards.
AfterDropped(k, d) ==
    CASE k = "dropped" -> {FALSE} [] k = "overflow" -> BOOLEAN [] OTHER -> {d}

\* Every other record is kept, and with it the run held before it. A frame is
\* followed by the counts of dropped calls.
WriteKept(t) == LET s == threads[t] k == call[t].kind IN
    /\ pc[t] = "write" /\ Room(t) /\ ~(k = "enter" /\ MinCall)
    /\ Put(t, s.cur)
    /\ \E d \in AfterDropped(k, s.dropped) :
          threads' = [threads EXCEPT ![t] = [Commit(s, s.cur) EXCEPT !.dropped = d]]
    /\ IF k = "frame" /\ s.dropped
       THEN call' = [call EXCEPT ![t].kind = "dropped"] /\ UNCHANGED pc
       ELSE Goto(t, "end") /\ UNCHANGED call
    /\ UNCHANGED <<sessionVars, toggleVars, poolVars, consumerVars, drained>>

\* hl_prof_exit of a short call: its ENTER record is taken back and counted, and
\* when there is no slot left to count it in, the counts are written first.
TakeBack(t) == LET s == threads[t] IN
    /\ pc[t] = "write" /\ call[t].kind = "exit"
    /\ s.held # None /\ s.held_recording = recording_changes
    /\ log' = [log EXCEPT ![t] = Front(@)]
    /\ \E overflow \in BOOLEAN :
          /\ overflow => s.dropped
          /\ threads' = [threads EXCEPT ![t] =
                [s EXCEPT !.cur = @ - 1, !.held = IF @ = s.cur - 1 THEN None ELSE @,
                          !.dropped = TRUE]]
          /\ IF overflow
             THEN call' = [call EXCEPT ![t].kind = "overflow"] /\ UNCHANGED pc
             ELSE Goto(t, "end") /\ UNCHANGED call
    /\ UNCHANGED <<sessionVars, toggleVars, poolVars, consumerVars, mem, count, drained>>

NoRoom(t) ==
    /\ pc[t] = "write" /\ ~Room(t)
    /\ Goto(t, "pop")
    /\ UNCHANGED <<sessionVars, toggleVars, poolVars, consumerVars, recordVars, threads, call, drained>>

-----------------------------------------------------------------------------
(* next_chunk. *)

pool_pop(t) ==
    /\ pc[t] = "pop"
    /\ IF free = <<>>
       THEN Goto(t, "full") /\ UNCHANGED <<free, call>>
       ELSE /\ free' = Tail(free)
            /\ call' = [call EXCEPT ![t].index = Head(free)]
            /\ Goto(t, "link")
    /\ UNCHANGED <<sessionVars, toggleVars, chunks, consumerVars, recordVars, threads, drained>>

\* Mutant: a thread that waits does not look at recording.
FullWaits(t) ==
    /\ pc[t] = "full"
    /\ IF call[t].wait
       THEN /\ call' = [call EXCEPT ![t].stalled = TRUE]
            /\ Goto(t, "pop") /\ UNCHANGED threads
       ELSE /\ \E d \in AfterDropped(call[t].kind, threads[t].dropped) :
                  threads' = [threads EXCEPT ![t].dropped = d]
            /\ Goto(t, "end") /\ UNCHANGED call
    /\ UNCHANGED <<sessionVars, toggleVars, poolVars, consumerVars, recordVars, drained>>

\* The pool was empty: the record is lost, or the thread yields and tries again.
Full(t) ==
    /\ pc[t] = "full"
    /\ IF call[t].wait /\ hl_prof_on
       THEN /\ call' = [call EXCEPT ![t].stalled = TRUE]
            /\ Goto(t, "pop") /\ UNCHANGED threads
       ELSE /\ \E d \in AfterDropped(call[t].kind, threads[t].dropped) :
                  threads' = [threads EXCEPT ![t].dropped = d]
            /\ Goto(t, "end") /\ UNCHANGED call
    /\ UNCHANGED <<sessionVars, toggleVars, poolVars, consumerVars, recordVars, drained>>

\* The old chunk of a thread that continues in chunk i.
Finished(s, i) == [finished |-> TRUE, size |-> s.cur - chunk_data(s.chunk), next |-> i]

\* The old chunk is finished, or the first chunk is published.
Link(t) == LET s == threads[t] i == call[t].index IN
    /\ pc[t] = "link"
    /\ IF s.chunk # None
       THEN /\ chunks' = [chunks EXCEPT ![s.chunk] = Finished(s, i)]
            /\ threads' = [threads EXCEPT ![t].held = None]
       ELSE /\ threads' = [threads EXCEPT ![t].held = None, ![t].first_chunk = i]
            /\ UNCHANGED chunks
    /\ Goto(t, "fresh")
    /\ UNCHANGED <<sessionVars, toggleVars, free, consumerVars, recordVars, call, drained>>

\* The thread enters the new chunk; a wait is recorded in it as a STALL.
Enter(t) == LET i == call[t].index a == chunk_data(call[t].index) IN
    /\ pc[t] = "fresh"
    /\ chunks' = [chunks EXCEPT ![i].finished = FALSE]
    /\ IF call[t].stalled
       THEN /\ Put(t, a)
            /\ threads' = [threads EXCEPT ![t].chunk = i, ![t].cur = a + 1, ![t].pos = a + 1]
       ELSE /\ threads' = [threads EXCEPT ![t].chunk = i, ![t].cur = a, ![t].pos = a]
            /\ UNCHANGED recordVars
    /\ call' = [call EXCEPT ![t].index = None, ![t].stalled = FALSE]
    /\ Goto(t, "write")
    /\ UNCHANGED <<sessionVars, toggleVars, free, consumerVars, drained>>

-----------------------------------------------------------------------------
(* release_thread, with the registry locked and without waiting: counts of   *)
(* dropped calls are written and what is held back is published.             *)

\* Mutant: what is held back is forgotten.
ReleaseForgets(t, x) == LET s == threads[t] IN
    /\ threads' = [threads EXCEPT ![t] = [s EXCEPT !.held = None, !.exited = x, !.dropped = FALSE]]
    /\ UNCHANGED <<poolVars, recordVars>>

release_thread(t, x) == LET s == threads[t] IN
    \/ /\ ~s.dropped \/ (~Room(t) /\ free = <<>>)
       /\ threads' = [threads EXCEPT ![t] =
             [s EXCEPT !.held = None, !.pos = s.cur, !.exited = x, !.dropped = FALSE]]
       /\ UNCHANGED <<poolVars, recordVars>>
    \/ /\ s.dropped /\ Room(t)
       /\ Put(t, s.cur)
       /\ threads' = [threads EXCEPT ![t] =
             [Commit(s, s.cur) EXCEPT !.exited = x, !.dropped = FALSE]]
       /\ UNCHANGED poolVars
    \/ /\ s.dropped /\ ~Room(t) /\ free # <<>>
       /\ LET i == Head(free) IN
          /\ free' = Tail(free)
          /\ chunks' = [chunks EXCEPT ![s.chunk] = Finished(s, i), ![i].finished = FALSE]
          /\ Put(t, chunk_data(i))
          /\ threads' = [threads EXCEPT ![t] =
                [Commit(s, chunk_data(i)) EXCEPT !.chunk = i, !.exited = x, !.dropped = FALSE]]

\* thread_exited: the consumer drains what is left; a state without chunks is freed.
thread_exited(t) ==
    /\ pc[t] = "idle" /\ ~registry_lock
    /\ IF threads[t].session = session_id /\ threads[t].chunk # None
       THEN release_thread(t, TRUE)
       ELSE threads' = [threads EXCEPT ![t] = Reset(0)] /\ UNCHANGED <<poolVars, recordVars>>
    /\ Goto(t, "gone")
    /\ UNCHANGED <<sessionVars, toggleVars, consumerVars, call, drained>>

-----------------------------------------------------------------------------
(* hl_prof_set_recording. *)

SetRecording(t) == \E k \in {"pause", "resume"} :
    /\ pc[t] = "idle" /\ recording_changes < MaxToggles
    /\ call' = [call EXCEPT ![t] = [NoCall EXCEPT !.kind = k]]
    /\ Goto(t, "toggleLock")
    /\ UNCHANGED <<sessionVars, toggleVars, poolVars, consumerVars, recordVars, threads, drained>>

toggle_lock(t) ==
    /\ pc[t] = "toggleLock" /\ recording_toggle = Nobody
    /\ recording_toggle' = t
    /\ Goto(t, "toggleCheck")
    /\ UNCHANGED <<sessionVars, recording_changes, poolVars, consumerVars, recordVars, threads,
                   call, drained>>

\* The RECORDING event: hl_prof_event returns at once when recording is off.
RecordingEvent(t, next) == \E w \in BOOLEAN :
    IF hl_prof_on
    THEN /\ call' = [call EXCEPT ![t] = [NoCall EXCEPT !.wait = w, !.ret = next]]
         /\ Goto(t, AfterCompare(t))
    ELSE UNCHANGED call /\ Goto(t, next)

ToggleCheck(t) == LET k == call[t].kind IN
    /\ pc[t] = "toggleCheck"
    /\ \/ /\ ~session_open \/ hl_prof_on = (k = "resume")
          /\ recording_toggle' = Nobody
          /\ Goto(t, "idle") /\ UNCHANGED call
       \/ /\ session_open /\ k = "pause" /\ hl_prof_on
          /\ RecordingEvent(t, "toggleOff")
          /\ UNCHANGED recording_toggle
       \/ /\ session_open /\ k = "resume" /\ ~hl_prof_on
          /\ Goto(t, "toggleOn") /\ UNCHANGED <<recording_toggle, call>>
    /\ UNCHANGED <<sessionVars, recording_changes, poolVars, consumerVars, recordVars, threads, drained>>

ToggleOff(t) ==
    /\ pc[t] = "toggleOff"
    /\ hl_prof_on' = FALSE
    /\ Goto(t, "toggleDone")
    /\ UNCHANGED <<session_open, session_id, toggleVars, poolVars, consumerVars, recordVars,
                   threads, call, drained>>

ToggleOn(t) ==
    /\ pc[t] = "toggleOn"
    /\ hl_prof_on' = TRUE
    /\ Goto(t, "toggleRecheck")
    /\ UNCHANGED <<session_open, session_id, toggleVars, poolVars, consumerVars, recordVars,
                   threads, call, drained>>

\* A stop that closed the session may have turned recording off already.
ToggleRecheck(t) ==
    /\ pc[t] = "toggleRecheck"
    /\ IF session_open
       THEN RecordingEvent(t, "toggleDone") /\ UNCHANGED <<hl_prof_on, recording_toggle>>
       ELSE /\ hl_prof_on' = FALSE /\ recording_toggle' = Nobody
            /\ Goto(t, "idle") /\ UNCHANGED call
    /\ UNCHANGED <<session_open, session_id, recording_changes, poolVars, consumerVars,
                   recordVars, threads, drained>>

ToggleDone(t) ==
    /\ pc[t] = "toggleDone"
    /\ recording_changes' = recording_changes + 1 /\ recording_toggle' = Nobody
    /\ Goto(t, "idle")
    /\ UNCHANGED <<sessionVars, poolVars, consumerVars, recordVars, threads, call, drained>>

-----------------------------------------------------------------------------
(* hl_prof_start and hl_prof_stop, called by the consumer.                   *)

threadVars == <<threads, pc, call>>
Consumer(l) == cpc' = l

\* The code does not ask for the last conjunct: see StaleWriters.
Start ==
    /\ cpc = "idle" /\ ~session_open /\ session_id < MaxSessions
    /\ StaleWriters \/ \A t \in Threads : pc[t] \notin {"mark", "check"}
    /\ pool_reset
    /\ session_id' = session_id + 1
    /\ log' = [t \in Threads |-> <<>>] /\ drained' = [t \in Threads |-> <<>>]
    /\ Consumer("opening")
    /\ UNCHANGED <<hl_prof_on, session_open, toggleVars, todo, reading, registry_lock, mem,
                   count, threadVars>>

StartOpen ==
    /\ cpc = "opening"
    /\ session_open' = TRUE /\ Consumer("starting")
    /\ UNCHANGED <<hl_prof_on, session_id, toggleVars, poolVars, todo, reading, registry_lock,
                   recordVars, threadVars, drained>>

StartOn ==
    /\ cpc = "starting"
    /\ hl_prof_on' = TRUE /\ Consumer("idle")
    /\ UNCHANGED <<session_open, session_id, toggleVars, poolVars, todo, reading, registry_lock,
                   recordVars, threadVars, drained>>

Stop ==
    /\ cpc = "idle" /\ session_open
    /\ session_open' = FALSE /\ Consumer("stopOff")
    /\ UNCHANGED <<hl_prof_on, session_id, toggleVars, poolVars, todo, reading, registry_lock,
                   recordVars, threadVars, drained>>

\* Mutant: recording is turned off only once the toggle is taken.
StopOffLater ==
    /\ cpc = "stopOff"
    /\ Consumer("stopToggle")
    /\ UNCHANGED <<sessionVars, toggleVars, poolVars, todo, reading, registry_lock,
                   recordVars, threadVars, drained>>

StopOff ==
    /\ cpc = "stopOff"
    /\ hl_prof_on' = FALSE /\ Consumer("stopToggle")
    /\ UNCHANGED <<session_open, session_id, toggleVars, poolVars, todo, reading, registry_lock,
                   recordVars, threadVars, drained>>

StopToggle ==
    /\ cpc = "stopToggle" /\ recording_toggle = Nobody
    /\ recording_toggle' = "stop" /\ Consumer("stopOffAgain")
    /\ UNCHANGED <<sessionVars, recording_changes, poolVars, todo, reading, registry_lock,
                   recordVars, threadVars, drained>>

\* The second store, and process_barrier.
StopOffAgain ==
    /\ cpc = "stopOffAgain"
    /\ hl_prof_on' = FALSE /\ Consumer("stopWait")
    /\ UNCHANGED <<session_open, session_id, toggleVars, poolVars, todo, reading, registry_lock,
                   recordVars, threadVars, drained>>

InSession(t) == threads[t].session = session_id /\ ~threads[t].exited

\* Mutant: only the threads that have a chunk are waited for.
WritersGone == \A t \in Threads :
    InSession(t) /\ threads[t].chunk # None => threads[t].writing = 0

\* wait_writers: the scan of the registry that finds no mark.
NoWriters == \A t \in Threads : InSession(t) => threads[t].writing = 0

StopWait ==
    /\ cpc = "stopWait" /\ NoWriters
    /\ registry_lock' = TRUE
    /\ todo' = {t \in Threads : InSession(t)}
    /\ Consumer("stopRelease")
    /\ UNCHANGED <<sessionVars, toggleVars, poolVars, reading, recordVars, threadVars, drained>>

StopRelease(t) ==
    /\ cpc = "stopRelease" /\ t \in todo
    /\ release_thread(t, FALSE)
    /\ todo' = todo \ {t}
    /\ UNCHANGED <<sessionVars, toggleVars, cpc, reading, registry_lock, pc, call, drained>>

StopDone ==
    /\ cpc = "stopRelease" /\ todo = {}
    /\ registry_lock' = FALSE /\ recording_toggle' = Nobody
    /\ Consumer("stopped")
    /\ UNCHANGED <<sessionVars, recording_changes, poolVars, todo, reading, recordVars,
                   threadVars, drained>>

-----------------------------------------------------------------------------
(* hl_prof_drain: of an open session, and once after a stop.                 *)

Drain ==
    /\ cpc = "stopped" \/ (cpc = "idle" /\ session_open)
    /\ registry_lock' = TRUE /\ todo' = Threads
    /\ Consumer("drain")
    /\ UNCHANGED <<sessionVars, toggleVars, poolVars, reading, recordVars, threadVars, drained>>

\* The entry of drain_thread, with the load of first_chunk.
DrainThread(t) == LET s == threads[t] IN
    /\ cpc = "drain" /\ t \in todo
    /\ FirstWindow \/ ~(pc[t] = "fresh" /\ s.chunk = None)
    /\ reading' = t /\ todo' = todo \ {t}
    /\ IF s.session # session_id \/ (s.read_chunk = None /\ s.first_chunk = None)
       THEN Consumer("done") /\ UNCHANGED threads
       ELSE /\ Consumer("pos")
            /\ threads' = IF s.read_chunk # None THEN threads
                          ELSE [threads EXCEPT ![t].read_chunk = s.first_chunk,
                                               ![t].read_offset = 0]
    /\ UNCHANGED <<sessionVars, toggleVars, poolVars, registry_lock, recordVars, pc, call, drained>>

\* The cells of a chunk from offset m up to n.
Segment(c, m, n) == [i \in 1 .. n - m |-> mem[chunk_data(c) + m + i - 1]]

\* fn gets the cells of the chunk read from the offset up to n.
HandOver(t, n) ==
    drained' = [drained EXCEPT ![t] = @ \o Segment(threads[t].read_chunk, threads[t].read_offset, n)]

\* The load of pos.
DrainPos == LET s == threads[reading] base == chunk_data(s.read_chunk) IN
    /\ cpc = "pos"
    /\ IF s.pos \in base .. base + ChunkSize - 1
       THEN /\ IF s.pos - base > s.read_offset
               THEN /\ HandOver(reading, s.pos - base)
                    /\ threads' = [threads EXCEPT ![reading].read_offset = s.pos - base]
               ELSE UNCHANGED <<drained, threads>>
            /\ Consumer("done")
       ELSE Consumer("finished") /\ UNCHANGED <<drained, threads>>
    /\ UNCHANGED <<sessionVars, toggleVars, poolVars, todo, reading, registry_lock, recordVars,
                   pc, call>>

\* The producer has moved on.
DrainFinished == LET s == threads[reading] c == chunks[s.read_chunk] IN
    /\ cpc = "finished"
    /\ IF ~c.finished THEN Consumer("done") /\ UNCHANGED <<drained, threads, free>>
       ELSE /\ HandOver(reading, c.size)
            /\ free' = Pushed(s.read_chunk)
            /\ threads' = [threads EXCEPT ![reading].read_chunk = c.next,
                                          ![reading].read_offset = 0]
            /\ Consumer("pos")
    /\ UNCHANGED <<sessionVars, toggleVars, chunks, todo, reading, registry_lock, recordVars,
                   pc, call>>

\* Mutant: the chunk of an exited thread is not returned.
DrainDoneLeaks == LET s == threads[reading] IN
    /\ cpc = "done"
    /\ threads' = IF s.exited THEN [threads EXCEPT ![reading] = Reset(0)] ELSE threads
    /\ reading' = Nobody /\ Consumer("drain")
    /\ UNCHANGED <<sessionVars, toggleVars, poolVars, todo, registry_lock, recordVars, pc, call,
                   drained>>

\* The state of an exited thread is freed, and its chunk returned.
DrainDone == LET s == threads[reading] IN
    /\ cpc = "done"
    /\ threads' = IF s.exited THEN [threads EXCEPT ![reading] = Reset(0)] ELSE threads
    /\ free' = IF s.exited /\ s.session = session_id /\ s.chunk # None
               THEN Pushed(s.chunk) ELSE free
    /\ reading' = Nobody /\ Consumer("drain")
    /\ UNCHANGED <<sessionVars, toggleVars, chunks, todo, registry_lock, recordVars, pc, call,
                   drained>>

DrainEnd ==
    /\ cpc = "drain" /\ todo = {}
    /\ registry_lock' = FALSE /\ Consumer("idle")
    /\ UNCHANGED <<sessionVars, toggleVars, poolVars, todo, reading, recordVars, threadVars, drained>>

-----------------------------------------------------------------------------
\* The steps a thread goes on with once it has begun a call.
Writer(t) ==
    \/ thread_state(t) \/ Mark(t) \/ Check(t) \/ writer_end(t)
    \/ WriteHeld(t) \/ WriteKept(t) \/ TakeBack(t) \/ NoRoom(t)
    \/ pool_pop(t) \/ Full(t) \/ Link(t) \/ Enter(t)
Toggle(t) ==
    \/ toggle_lock(t) \/ ToggleCheck(t) \/ ToggleOff(t) \/ ToggleOn(t)
    \/ ToggleRecheck(t) \/ ToggleDone(t)

StopSteps ==
    \/ StopOff \/ StopToggle \/ StopOffAgain \/ StopWait \/ StopDone
    \/ \E t \in Threads : StopRelease(t)
DrainSteps ==
    \/ DrainPos \/ DrainFinished \/ DrainDone \/ DrainEnd
    \/ \E t \in Threads : DrainThread(t)

Next ==
    \/ \E t \in Threads :
          Begin(t) \/ Writer(t) \/ thread_exited(t) \/ SetRecording(t) \/ Toggle(t)
    \/ Start \/ StartOpen \/ StartOn \/ Stop \/ StopSteps
    \/ Drain \/ DrainSteps

Spec == Init /\ [][Next]_vars

\* Threads go on with what they have begun, a stop and a drain go on, and the
\* consumer drains again and again. The toggle is taken in a loop of
\* compare-and-swap, which a stop does not lose for ever.
FairSpec ==
    /\ Spec
    /\ \A t \in Threads : WF_vars(Writer(t)) /\ WF_vars(Toggle(t))
    /\ WF_vars(StartOpen) /\ WF_vars(StartOn)
    /\ WF_vars(StopSteps) /\ SF_vars(StopToggle)
    /\ WF_vars(Drain) /\ WF_vars(DrainSteps)

-----------------------------------------------------------------------------
(* Properties. *)

\* What hl_prof_drain hands over of a thread is a prefix of the records that the
\* thread has in this session: nothing is handed over twice, out of order, from
\* another thread, before it is written, or after which it is taken back.
DrainExact == \A t \in Threads : IsPrefix(drained[t], log[t])

\* The ends of a thread's chunks: the one the consumer reads next, and the one the
\* thread writes or is about to enter.
ReadFrom(t) ==
    IF threads[t].read_chunk # None THEN threads[t].read_chunk ELSE threads[t].first_chunk
WriteTo(t) == IF pc[t] = "fresh" THEN call[t].index ELSE threads[t].chunk

\* The thread has published a chunk in this session.
Live(t) == threads[t].session = session_id /\ threads[t].first_chunk # None

\* The chunks from the one end to the other: the least set that has the first and,
\* with each chunk but the last, the next.
Chain(t) ==
    IF ~Live(t) THEN {}
    ELSE {c \in Chunks : \A S \in SUBSET Chunks :
             (ReadFrom(t) \in S /\ \A d \in S \ {WriteTo(t)} : chunks[d].next \in S) => c \in S}

\* The chunks a thread has, with one that next_chunk has popped and not linked.
Owned(t) == Chain(t) \cup (IF pc[t] = "link" THEN {call[t].index} ELSE {})

\* In a session every chunk is on the free list, once, or with one thread:
\* recycling by the consumer, exits, lost records and stops neither lose a chunk
\* nor hand one to two threads.
ChunksAccounted == session_id > 0 =>
    /\ \A i, j \in 1 .. Len(free) : free[i] = free[j] => i = j
    /\ \A c \in Chunks :
          \/ /\ c \in ToSet(free) /\ \A t \in Threads : c \notin Owned(t)
          \/ /\ c \notin ToSet(free)
             /\ \E t \in Threads : c \in Owned(t) /\ \A u \in Threads \ {t} : c \notin Owned(u)

\* Once hl_prof_stop has waited for the writers no thread writes a record, until
\* the next session: neither a resume nor a late writer gets past the stop.
Stopped == ~session_open /\ cpc \notin {"stopOff", "stopToggle", "stopOffAgain", "stopWait"}
StoppedQuiet == Stopped => ~hl_prof_on /\ \A t \in Threads : pc[t] \notin WriterPc

\* The final drain after a stop returns everything recorded: held calls, counts of
\* dropped calls and the records of threads that have exited included.
FinalDrain ==
    ~session_open /\ cpc = "idle" => \A t \in Threads : drained[t] = log[t]

\* A thread that writes a record does so with its state of the current session.
WriterCurrent == \A t \in Threads : pc[t] \in WriterPc => threads[t].session = session_id

\* hl_prof_stop returns, although a thread that pauses or resumes may be waiting
\* for a chunk with the toggle held, and nobody drains during a stop.
StopReturns == (cpc \in StopPc) ~> (cpc = "stopped")

\* A thread that waits for a chunk gets one or gives up, unless every chunk is the
\* one that some thread is writing: the consumer recycles finished chunks only, an
\* idle thread keeps its chunk, and the waiting thread's own is finished only once
\* it has the next.
Exhausted == \A c \in Chunks : \E t \in Threads : threads[t].chunk = c
StallEnds == \A t \in Threads :
    (pc[t] = "full") ~> (pc[t] \in {"link", "end"} \/ Exhausted)

=============================================================================
