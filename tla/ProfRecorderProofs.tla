------------------------- MODULE ProfRecorderProofs -------------------------
(***************************************************************************)
(* What hl_prof_stop establishes: once it has waited for the writers,      *)
(* recording is off and no thread writes, until the next session; and a    *)
(* thread that writes has the state of the current session. Then what      *)
(* hl_prof_drain hands over: a prefix of the records of each thread, and   *)
(* after a stop all of them; and where the chunks of the pool are.         *)
(*                                                                         *)
(* For any number of threads, chunks, records and sessions, under the      *)
(* conditions of the model: no session starts while a thread is inside     *)
(* writer_begin (~StaleWriters) and, for the drains, no drain reads the    *)
(* first chunk of a thread before next_chunk has cleared its finished flag *)
(* (~FirstWindow).                                                         *)
(***************************************************************************)
EXTENDS ProfRecorder, TLAPS, WellFoundedInduction, SequenceTheorems

\* The state is made of records with these fields: all that the argument needs
\* of its type, since it is about the fields session, writing, exited and ret.
ThreadFields ==
    {"session", "chunk", "cur", "pos", "held", "held_recording", "first_chunk", "writing",
     "exited", "dropped", "read_chunk", "read_offset"}
CallFields == {"kind", "wait", "index", "stalled", "ret"}
Pcs == {"idle", "state", "mark", "check", "end", "gone"} \cup WriterPc \cup TogglePc
Shape ==
    /\ pc \in [Threads -> Pcs]
    /\ DOMAIN threads = Threads /\ DOMAIN call = Threads
    /\ \A t \in Threads : DOMAIN threads[t] = ThreadFields /\ DOMAIN call[t] = CallFields
    /\ \A t \in Threads : call[t].ret \in {"idle", "toggleOff", "toggleDone"}

\* Who holds the toggle: the thread that pauses or resumes, during its RECORDING
\* event too, or a stop.
HoldPcs == {"toggleCheck", "toggleOn", "toggleRecheck", "toggleOff", "toggleDone"}
CallPcs == {"state", "mark", "check", "end"} \cup WriterPc
HolderInv ==
    /\ \A t \in Threads :
          /\ pc[t] \in HoldPcs \/ call[t].ret # "idle" => recording_toggle = t
          /\ call[t].ret # "idle" => pc[t] \in CallPcs
    /\ cpc \in {"stopOffAgain", "stopWait", "stopRelease"} => recording_toggle = "stop"

\* The mark of a thread shows what it does, and only a gone thread has exited.
MarkPcs == {"check", "end"} \cup WriterPc
WritingInv == \A t \in Threads :
    /\ threads[t].writing = IF pc[t] \in MarkPcs THEN 1 ELSE 0
    /\ threads[t].exited => pc[t] = "gone"

\* Between the comparison of the session and the end of its records a thread
\* has the current session.
CurrentPcs == {"mark", "check"} \cup WriterPc
CurrentInv == \A t \in Threads : pc[t] \in CurrentPcs => threads[t].session = session_id

\* From the second store of hl_prof_stop on nobody turns recording on, and
\* from the end of its wait on nobody writes.
QuietInv ==
    /\ cpc \in StopPc \cup {"stopped", "opening"} => ~session_open
    /\ cpc = "starting" => session_open
    /\ Stopped \/ cpc = "stopWait" =>
          ~hl_prof_on /\ \A t \in Threads : pc[t] # "toggleOn"
    /\ Stopped => \A t \in Threads : pc[t] \notin WriterPc

\* The inductive invariant.
IInv == Shape /\ HolderInv /\ WritingInv /\ CurrentInv /\ QuietInv

-----------------------------------------------------------------------------
(* Steps that leave the fields of the argument alone. *)

USE DEF Goto, Consumer, sessionVars, toggleVars, poolVars, consumerVars, recordVars, threadVars

KeepsFields == \A t \in Threads :
    /\ DOMAIN threads'[t] = ThreadFields
    /\ threads'[t].session = threads[t].session
    /\ threads'[t].writing = threads[t].writing
    /\ threads'[t].exited = threads[t].exited
KeepsReturn == \A t \in Threads :
    DOMAIN call'[t] = CallFields /\ call'[t].ret = call[t].ret

\* A writer goes on with a record.
WriterStep(t) ==
    /\ pc[t] \in WriterPc
    /\ \E l \in WriterPc \cup {"end"} : pc' = [pc EXCEPT ![t] = l]
    /\ DOMAIN threads' = Threads /\ DOMAIN call' = Threads
    /\ KeepsFields /\ KeepsReturn
    /\ UNCHANGED <<hl_prof_on, session_open, session_id, recording_toggle, cpc>>

\* A record that is begun is written, or its writer waits for a chunk, under the
\* same mark, session and return address.
LEMMA WriterStepInv == ASSUME NEW t \in Threads, IInv, WriterStep(t) PROVE IInv'
<1> USE DEF IInv, Shape, WriterStep, KeepsFields, KeepsReturn, WriterPc
<1>1. Shape'
  BY DEF Pcs
<1>2. HolderInv'
  BY DEF HolderInv, HoldPcs, CallPcs
<1>3. WritingInv'
  BY DEF WritingInv, MarkPcs
<1>4. CurrentInv'
  BY DEF CurrentInv, CurrentPcs
<1>5. QuietInv'
  BY DEF QuietInv, Stopped
<1> QED
  BY <1>1, <1>2, <1>3, <1>4, <1>5

\* The steps of write_enter, of the other records and of next_chunk are such
\* steps.
LEMMA WriterSteps ==
    ASSUME NEW t \in Threads, Shape,
           \/ WriteHeld(t) \/ WriteKept(t) \/ TakeBack(t) \/ NoRoom(t)
           \/ pool_pop(t) \/ Full(t) \/ Link(t) \/ Enter(t)
    PROVE  WriterStep(t)
<1> USE DEF WriterStep, Shape, WriterPc
<1> USE DEF KeepsFields, KeepsReturn, ThreadFields, CallFields
<1>1. CASE WriteHeld(t)
  BY <1>1 DEF WriteHeld
<1>2. CASE WriteKept(t)
  <2>1. PICK d : threads' = [threads EXCEPT ![t] =
                    [Commit(threads[t], threads[t].cur) EXCEPT !.dropped = d]]
    BY <1>2 DEF WriteKept
  <2>2. KeepsFields /\ DOMAIN threads' = Threads
    BY <2>1 DEF Commit
  <2> QED
    BY <1>2, <2>2 DEF WriteKept
<1>3. CASE TakeBack(t)
  BY <1>3 DEF TakeBack
<1>4. CASE NoRoom(t)
  BY <1>4 DEF NoRoom
<1>5. CASE pool_pop(t)
  BY <1>5 DEF pool_pop
<1>6. CASE Full(t)
  BY <1>6 DEF Full
<1>7. CASE Link(t)
  BY <1>7 DEF Link
<1>8. CASE Enter(t)
  BY <1>8 DEF Enter
<1> QED
  BY <1>1, <1>2, <1>3, <1>4, <1>5, <1>6, <1>7, <1>8

\* release_thread changes neither the session nor the mark of a thread.
LEMMA Released ==
    ASSUME NEW t \in Threads, NEW x \in BOOLEAN, Shape, release_thread(t, x)
    PROVE  /\ DOMAIN threads' = Threads
           /\ \A u \in Threads : /\ DOMAIN threads'[u] = ThreadFields
                                 /\ threads'[u].session = threads[u].session
                                 /\ threads'[u].writing = threads[u].writing
                                 /\ threads'[u].exited = IF u = t THEN x ELSE threads[u].exited
<1> DEFINE s == threads[t]
           Kept(r) == DOMAIN r = ThreadFields /\ r.session = s.session /\ r.writing = s.writing
                      /\ r.exited = x
           Published == [s EXCEPT !.held = None, !.pos = s.cur, !.exited = x, !.dropped = FALSE]
           Counted == [Commit(s, s.cur) EXCEPT !.exited = x, !.dropped = FALSE]
           Moved(i) == [Commit(s, chunk_data(i)) EXCEPT !.chunk = i, !.exited = x, !.dropped = FALSE]
<1>1. Kept(Published) /\ Kept(Counted) /\ \A i : Kept(Moved(i))
  BY DEF Shape, ThreadFields, Commit
<1>2. \/ threads' = [threads EXCEPT ![t] = Published]
      \/ threads' = [threads EXCEPT ![t] = Counted]
      \/ \E i : threads' = [threads EXCEPT ![t] = Moved(i)]
  BY DEF release_thread
<1>3. PICK r : threads' = [threads EXCEPT ![t] = r] /\ Kept(r)
  <2> HIDE DEF Kept, Published, Counted, Moved
  <2> QED
    BY <1>1, <1>2
<1> QED
  BY <1>3 DEF Shape

\* The RECORDING event returns to the toggle, or begins a call that does.
LEMMA EventBegun ==
    ASSUME NEW t \in Threads, Shape, NEW next \in {"toggleOff", "toggleDone"},
           RecordingEvent(t, next)
    PROVE  /\ pc' \in [Threads -> Pcs] /\ DOMAIN call' = Threads
           /\ \A u \in Threads : /\ DOMAIN call'[u] = CallFields
                                 /\ call'[u].ret \in {"idle", "toggleOff", "toggleDone"}
<1> USE DEF Shape, Pcs, TogglePc, CallFields
<1>1. CASE hl_prof_on
  <2>1. PICK w \in BOOLEAN : call' = [call EXCEPT ![t] = [NoCall EXCEPT !.wait = w, !.ret = next]]
    BY <1>1 DEF RecordingEvent
  <2>2. pc' \in [Threads -> Pcs]
    BY <1>1 DEF RecordingEvent, AfterCompare, Goto
  <2> QED
    BY <2>1, <2>2 DEF NoCall
<1>2. CASE ~hl_prof_on
  BY <1>2 DEF RecordingEvent, Goto
<1> QED
  BY <1>1, <1>2

\* Where it goes, and which call it touches.
LEMMA EventMoves ==
    ASSUME NEW t \in Threads, Shape, NEW next \in {"toggleOff", "toggleDone"},
           RecordingEvent(t, next)
    PROVE  \E l \in {next, "state", "mark"} :
              /\ pc' = [pc EXCEPT ![t] = l]
              /\ \A u \in Threads : u # t => call'[u].ret = call[u].ret
              /\ call'[t].ret = IF l = next THEN call[t].ret ELSE next
<1>1. CASE hl_prof_on
  <2>1. PICK w \in BOOLEAN : call' = [call EXCEPT ![t] = [NoCall EXCEPT !.wait = w, !.ret = next]]
    BY <1>1 DEF RecordingEvent
  <2>2. \E l \in {"state", "mark"} : pc' = [pc EXCEPT ![t] = l]
    BY <1>1 DEF RecordingEvent, AfterCompare
  <2> QED
    BY <2>1, <2>2 DEF NoCall, Shape
<1>2. CASE ~hl_prof_on
  BY <1>2 DEF RecordingEvent
<1> QED
  BY <1>1, <1>2

-----------------------------------------------------------------------------
(* The other steps of a thread. *)

\* A call begins with the comparison of the session.
LEMMA BeginKeeps ==
    ASSUME NEW t \in Threads, IInv, Begin(t)
    PROVE  IInv'
<1> USE DEF IInv, Begin, AfterCompare, NoCall
<1>1. Shape'
  BY DEF Shape, Pcs, ThreadFields, CallFields, WriterPc, TogglePc
<1>2. HolderInv'
  BY DEF Shape, HolderInv, HoldPcs, CallPcs, WriterPc, StopPc
<1>3. WritingInv'
  BY DEF Shape, WritingInv, MarkPcs, WriterPc
<1>4. CurrentInv'
  BY DEF Shape, CurrentInv, CurrentPcs, WriterPc
<1>5. QuietInv'
  BY DEF Shape, QuietInv, Stopped, WriterPc, StopPc
<1> QED
  BY <1>1, <1>2, <1>3, <1>4, <1>5

\* A thread without a state of this session gets one.
LEMMA Thread_stateKeeps ==
    ASSUME NEW t \in Threads, IInv, thread_state(t)
    PROVE  IInv'
<1> USE DEF IInv, thread_state, Reset
<1>1. Shape'
  BY DEF Shape, Pcs, ThreadFields, CallFields, WriterPc, TogglePc
<1>2. HolderInv'
  BY DEF Shape, HolderInv, HoldPcs, CallPcs, WriterPc, StopPc
<1>3. WritingInv'
  BY DEF Shape, WritingInv, MarkPcs, WriterPc
<1>4. CurrentInv'
  BY DEF Shape, CurrentInv, CurrentPcs, WriterPc
<1>5. QuietInv'
  BY DEF Shape, QuietInv, Stopped, WriterPc, StopPc
<1> QED
  BY <1>1, <1>2, <1>3, <1>4, <1>5

\* The mark of writer_begin.
LEMMA MarkKeeps ==
    ASSUME NEW t \in Threads, IInv, Mark(t)
    PROVE  IInv'
<1> USE DEF IInv, Mark
<1>1. Shape'
  BY DEF Shape, Pcs, ThreadFields, CallFields, WriterPc, TogglePc
<1>2. HolderInv'
  BY DEF Shape, HolderInv, HoldPcs, CallPcs, WriterPc, StopPc
<1>3. WritingInv'
  BY DEF Shape, WritingInv, MarkPcs, WriterPc
<1>4. CurrentInv'
  BY DEF Shape, CurrentInv, CurrentPcs, WriterPc
<1>5. QuietInv'
  BY DEF Shape, QuietInv, Stopped, WriterPc, StopPc
<1> QED
  BY <1>1, <1>2, <1>3, <1>4, <1>5

\* The second look at hl_prof_on, under the mark.
LEMMA CheckKeeps ==
    ASSUME NEW t \in Threads, IInv, Check(t)
    PROVE  IInv'
<1> USE DEF IInv, Check
<1>1. Shape'
  BY DEF Shape, Pcs, ThreadFields, CallFields, WriterPc, TogglePc
<1>2. HolderInv'
  BY DEF Shape, HolderInv, HoldPcs, CallPcs, WriterPc, StopPc
<1>3. WritingInv'
  BY DEF Shape, WritingInv, MarkPcs, WriterPc
<1>4. CurrentInv'
  BY DEF Shape, CurrentInv, CurrentPcs, WriterPc
<1>5. QuietInv'
  BY DEF Shape, QuietInv, Stopped, WriterPc, StopPc
<1> QED
  BY <1>1, <1>2, <1>3, <1>4, <1>5

\* The mark is taken back.
LEMMA Writer_endKeeps ==
    ASSUME NEW t \in Threads, IInv, writer_end(t)
    PROVE  IInv'
<1> USE DEF IInv, writer_end, NoCall
<1>1. Shape'
  BY DEF Shape, Pcs, ThreadFields, CallFields, WriterPc, TogglePc
<1>2. HolderInv'
  BY DEF Shape, HolderInv, HoldPcs, CallPcs, WriterPc, StopPc
<1>3. WritingInv'
  BY DEF Shape, WritingInv, MarkPcs, WriterPc
<1>4. CurrentInv'
  BY DEF Shape, CurrentInv, CurrentPcs, WriterPc
<1>5. QuietInv'
  BY DEF Shape, QuietInv, Stopped, WriterPc, StopPc
<1> QED
  BY <1>1, <1>2, <1>3, <1>4, <1>5

\* A thread that exits is idle.
LEMMA Thread_exitedKeeps ==
    ASSUME NEW t \in Threads, IInv, thread_exited(t)
    PROVE  IInv'
<1> USE DEF IInv, thread_exited, Reset
<1>1. Shape'
  BY Released DEF Shape, Pcs, ThreadFields, CallFields, WriterPc, TogglePc
<1>2. HolderInv'
  BY Released DEF Shape, HolderInv, HoldPcs, CallPcs, WriterPc, StopPc
<1>3. WritingInv'
  <2>1. CASE release_thread(t, TRUE)
    <3>1. \A u \in Threads : threads'[u].writing = threads[u].writing
                            /\ (u # t => threads'[u].exited = threads[u].exited)
      BY <2>1, Released
    <3>2. pc' = [pc EXCEPT ![t] = "gone"] /\ pc[t] = "idle"
      OBVIOUS
    <3> HIDE DEF thread_exited, Goto
    <3> QED
      BY <3>1, <3>2 DEF Shape, WritingInv, MarkPcs, WriterPc
  <2>2. CASE threads' = [threads EXCEPT ![t] = Reset(0)]
    BY <2>2 DEF Shape, WritingInv, MarkPcs, WriterPc
  <2> QED
    BY <2>1, <2>2
<1>4. CurrentInv'
  BY Released DEF Shape, CurrentInv, CurrentPcs, ThreadFields, WriterPc
<1>5. QuietInv'
  BY Released DEF Shape, QuietInv, Stopped, WriterPc, StopPc
<1> QED
  BY <1>1, <1>2, <1>3, <1>4, <1>5

\* A thread pauses or resumes.
LEMMA SetRecordingKeeps ==
    ASSUME NEW t \in Threads, IInv, SetRecording(t)
    PROVE  IInv'
<1> USE DEF IInv, SetRecording, NoCall
<1>1. Shape'
  BY DEF Shape, Pcs, ThreadFields, CallFields, WriterPc, TogglePc
<1>2. HolderInv'
  BY DEF Shape, HolderInv, HoldPcs, CallPcs, WriterPc, StopPc
<1>3. WritingInv'
  BY DEF Shape, WritingInv, MarkPcs, WriterPc
<1>4. CurrentInv'
  BY DEF Shape, CurrentInv, CurrentPcs, WriterPc
<1>5. QuietInv'
  BY DEF Shape, QuietInv, Stopped, WriterPc, StopPc
<1> QED
  BY <1>1, <1>2, <1>3, <1>4, <1>5

\* The toggle is taken when nobody has it.
LEMMA Toggle_lockKeeps ==
    ASSUME NEW t \in Threads, IInv, toggle_lock(t)
    PROVE  IInv'
<1> USE DEF IInv, toggle_lock
<1>1. Shape'
  BY NobodyAssumption DEF Shape, Pcs, ThreadFields, CallFields, WriterPc, TogglePc
<1>2. HolderInv'
  BY NobodyAssumption DEF Shape, HolderInv, HoldPcs, CallPcs, WriterPc, StopPc
<1>3. WritingInv'
  BY NobodyAssumption DEF Shape, WritingInv, MarkPcs, WriterPc
<1>4. CurrentInv'
  BY NobodyAssumption DEF Shape, CurrentInv, CurrentPcs, WriterPc
<1>5. QuietInv'
  BY NobodyAssumption DEF Shape, QuietInv, Stopped, WriterPc, StopPc
<1> QED
  BY <1>1, <1>2, <1>3, <1>4, <1>5

\* A resume goes on in an open session only.
LEMMA ToggleCheckKeeps ==
    ASSUME NEW t \in Threads, IInv, ToggleCheck(t)
    PROVE  IInv'
<1> USE DEF IInv, ToggleCheck
<1>1. Shape'
  BY EventBegun DEF Shape, Pcs, TogglePc
<1>0. PICK l :
      /\ pc' = [pc EXCEPT ![t] = l]
      /\ \/ l = "idle" /\ recording_toggle' = Nobody /\ call' = call
         \/ /\ l = "toggleOn" /\ recording_toggle' = recording_toggle
            /\ call' = call
         \/ /\ l \in {"toggleOff", "state", "mark"} /\ recording_toggle' = recording_toggle
            /\ \A u \in Threads : u # t => call'[u].ret = call[u].ret
            /\ call'[t].ret = IF l = "toggleOff" THEN call[t].ret ELSE "toggleOff"
  BY EventMoves
<1>2. HolderInv'
  <2>1. pc[t] = "toggleCheck" /\ cpc' = cpc
    OBVIOUS
  <2> HIDE DEF ToggleCheck
  <2>2. recording_toggle = t /\ call[t].ret = "idle"
    BY <2>1 DEF HolderInv, HoldPcs, CallPcs, WriterPc
  <2>3. t # "stop" /\ Nobody \notin Threads
    BY NobodyAssumption
  <2> QED
    BY <1>0, <2>1, <2>2, <2>3 DEF Shape, HolderInv, HoldPcs, CallPcs, WriterPc
<1>3. WritingInv'
  <2>1. threads' = threads /\ pc[t] = "toggleCheck"
    OBVIOUS
  <2> HIDE DEF ToggleCheck
  <2> QED
    BY <1>0, <2>1 DEF Shape, WritingInv, MarkPcs, WriterPc
<1>4. CurrentInv'
  BY NobodyAssumption DEF RecordingEvent, AfterCompare, NoCall, Shape,
     CurrentInv, CurrentPcs, WriterPc, StopPc
<1>5. QuietInv'
  BY NobodyAssumption DEF RecordingEvent, AfterCompare, NoCall, Shape,
     QuietInv, Stopped, WriterPc, StopPc
<1> QED
  BY <1>1, <1>2, <1>3, <1>4, <1>5

\* A pause turns recording off.
LEMMA ToggleOffKeeps ==
    ASSUME NEW t \in Threads, IInv, ToggleOff(t)
    PROVE  IInv'
<1> USE DEF IInv, ToggleOff
<1>1. Shape'
  BY DEF Shape, Pcs, ThreadFields, CallFields, WriterPc, TogglePc
<1>2. HolderInv'
  BY DEF Shape, HolderInv, HoldPcs, CallPcs, WriterPc, StopPc
<1>3. WritingInv'
  BY DEF Shape, WritingInv, MarkPcs, WriterPc
<1>4. CurrentInv'
  BY DEF Shape, CurrentInv, CurrentPcs, WriterPc
<1>5. QuietInv'
  BY DEF Shape, QuietInv, Stopped, WriterPc, StopPc
<1> QED
  BY <1>1, <1>2, <1>3, <1>4, <1>5

\* A resume turns recording on, never past the second store of a stop.
LEMMA ToggleOnKeeps ==
    ASSUME NEW t \in Threads, IInv, ToggleOn(t)
    PROVE  IInv'
<1> USE DEF IInv, ToggleOn
<1>1. Shape'
  BY DEF Shape, Pcs, ThreadFields, CallFields, WriterPc, TogglePc
<1>2. HolderInv'
  BY DEF Shape, HolderInv, HoldPcs, CallPcs, WriterPc, StopPc
<1>3. WritingInv'
  BY DEF Shape, WritingInv, MarkPcs, WriterPc
<1>4. CurrentInv'
  BY DEF Shape, CurrentInv, CurrentPcs, WriterPc
<1>5. QuietInv'
  BY DEF Shape, QuietInv, Stopped, WriterPc, StopPc
<1> QED
  BY <1>1, <1>2, <1>3, <1>4, <1>5

\* A resume that meets a closed session turns recording off again.
LEMMA ToggleRecheckKeeps ==
    ASSUME NEW t \in Threads, IInv, ToggleRecheck(t)
    PROVE  IInv'
<1> USE DEF IInv, ToggleRecheck
<1>1. Shape'
  BY EventBegun DEF Shape, Pcs, TogglePc
<1>0. PICK l :
      /\ pc' = [pc EXCEPT ![t] = l]
      /\ \/ l = "idle" /\ recording_toggle' = Nobody /\ call' = call
         \/ /\ l \in {"toggleDone", "state", "mark"} /\ recording_toggle' = recording_toggle
            /\ \A u \in Threads : u # t => call'[u].ret = call[u].ret
            /\ call'[t].ret = IF l = "toggleDone" THEN call[t].ret ELSE "toggleDone"
  BY EventMoves
<1>2. HolderInv'
  <2>1. pc[t] = "toggleRecheck" /\ cpc' = cpc
    OBVIOUS
  <2> HIDE DEF ToggleRecheck
  <2>2. recording_toggle = t /\ call[t].ret = "idle"
    BY <2>1 DEF HolderInv, HoldPcs, CallPcs, WriterPc
  <2>3. t # "stop" /\ Nobody \notin Threads
    BY NobodyAssumption
  <2> QED
    BY <1>0, <2>1, <2>2, <2>3 DEF Shape, HolderInv, HoldPcs, CallPcs, WriterPc
<1>3. WritingInv'
  <2>1. threads' = threads /\ pc[t] = "toggleRecheck"
    OBVIOUS
  <2> HIDE DEF ToggleRecheck
  <2> QED
    BY <1>0, <2>1 DEF Shape, WritingInv, MarkPcs, WriterPc
<1>4. CurrentInv'
  BY NobodyAssumption DEF RecordingEvent, AfterCompare, NoCall, Shape,
     CurrentInv, CurrentPcs, WriterPc, StopPc
<1>5. QuietInv'
  BY NobodyAssumption DEF RecordingEvent, AfterCompare, NoCall, Shape,
     QuietInv, Stopped, WriterPc, StopPc
<1> QED
  BY <1>1, <1>2, <1>3, <1>4, <1>5

\* The toggle is released.
LEMMA ToggleDoneKeeps ==
    ASSUME NEW t \in Threads, IInv, ToggleDone(t)
    PROVE  IInv'
<1> USE DEF IInv, ToggleDone
<1>1. Shape'
  BY NobodyAssumption DEF Shape, Pcs, ThreadFields, CallFields, WriterPc, TogglePc
<1>2. HolderInv'
  BY NobodyAssumption DEF Shape, HolderInv, HoldPcs, CallPcs, WriterPc, StopPc
<1>3. WritingInv'
  BY NobodyAssumption DEF Shape, WritingInv, MarkPcs, WriterPc
<1>4. CurrentInv'
  BY NobodyAssumption DEF Shape, CurrentInv, CurrentPcs, WriterPc
<1>5. QuietInv'
  BY NobodyAssumption DEF Shape, QuietInv, Stopped, WriterPc, StopPc
<1> QED
  BY <1>1, <1>2, <1>3, <1>4, <1>5

-----------------------------------------------------------------------------
(* The consumer. *)

\* A session starts while nobody writes or is inside writer_begin.
LEMMA StartKeeps ==
    ASSUME IInv, ~StaleWriters, Start
    PROVE  IInv'
<1> USE DEF IInv, Start, pool_reset
<1>1. Shape'
  BY DEF Shape, Pcs, ThreadFields, CallFields, WriterPc, TogglePc
<1>2. HolderInv'
  BY DEF Shape, HolderInv, HoldPcs, CallPcs, WriterPc, StopPc
<1>3. WritingInv'
  BY DEF Shape, WritingInv, MarkPcs, WriterPc
<1>4. CurrentInv'
  BY DEF Shape, CurrentInv, CurrentPcs, QuietInv, Stopped, WriterPc, StopPc
<1>5. QuietInv'
  BY DEF Shape, QuietInv, Stopped, WriterPc, StopPc
<1> QED
  BY <1>1, <1>2, <1>3, <1>4, <1>5

\* The session is open.
LEMMA StartOpenKeeps ==
    ASSUME IInv, StartOpen
    PROVE  IInv'
<1> USE DEF IInv, StartOpen
<1>1. Shape'
  BY NobodyAssumption DEF Shape, Pcs, ThreadFields, CallFields, WriterPc, TogglePc
<1>2. HolderInv'
  BY NobodyAssumption DEF Shape, HolderInv, HoldPcs, CallPcs, WriterPc, StopPc
<1>3. WritingInv'
  BY NobodyAssumption DEF Shape, WritingInv, MarkPcs, WriterPc
<1>4. CurrentInv'
  BY NobodyAssumption DEF Shape, CurrentInv, CurrentPcs, WriterPc
<1>5. QuietInv'
  BY NobodyAssumption DEF Shape, QuietInv, Stopped, WriterPc, StopPc
<1> QED
  BY <1>1, <1>2, <1>3, <1>4, <1>5

\* Recording starts.
LEMMA StartOnKeeps ==
    ASSUME IInv, StartOn
    PROVE  IInv'
<1> USE DEF IInv, StartOn
<1>1. Shape'
  BY NobodyAssumption DEF Shape, Pcs, ThreadFields, CallFields, WriterPc, TogglePc
<1>2. HolderInv'
  BY NobodyAssumption DEF Shape, HolderInv, HoldPcs, CallPcs, WriterPc, StopPc
<1>3. WritingInv'
  BY NobodyAssumption DEF Shape, WritingInv, MarkPcs, WriterPc
<1>4. CurrentInv'
  BY NobodyAssumption DEF Shape, CurrentInv, CurrentPcs, WriterPc
<1>5. QuietInv'
  BY NobodyAssumption DEF Shape, QuietInv, Stopped, WriterPc, StopPc
<1> QED
  BY <1>1, <1>2, <1>3, <1>4, <1>5

\* The session is closed first.
LEMMA StopKeeps ==
    ASSUME IInv, Stop
    PROVE  IInv'
<1> USE DEF IInv, Stop
<1>1. Shape'
  BY NobodyAssumption DEF Shape, Pcs, ThreadFields, CallFields, WriterPc, TogglePc
<1>2. HolderInv'
  BY NobodyAssumption DEF Shape, HolderInv, HoldPcs, CallPcs, WriterPc, StopPc
<1>3. WritingInv'
  BY NobodyAssumption DEF Shape, WritingInv, MarkPcs, WriterPc
<1>4. CurrentInv'
  BY NobodyAssumption DEF Shape, CurrentInv, CurrentPcs, WriterPc
<1>5. QuietInv'
  BY NobodyAssumption DEF Shape, QuietInv, Stopped, WriterPc, StopPc
<1> QED
  BY <1>1, <1>2, <1>3, <1>4, <1>5

\* Recording is turned off.
LEMMA StopOffKeeps ==
    ASSUME IInv, StopOff
    PROVE  IInv'
<1> USE DEF IInv, StopOff
<1>1. Shape'
  BY NobodyAssumption DEF Shape, Pcs, ThreadFields, CallFields, WriterPc, TogglePc
<1>2. HolderInv'
  BY NobodyAssumption DEF Shape, HolderInv, HoldPcs, CallPcs, WriterPc, StopPc
<1>3. WritingInv'
  BY NobodyAssumption DEF Shape, WritingInv, MarkPcs, WriterPc
<1>4. CurrentInv'
  BY NobodyAssumption DEF Shape, CurrentInv, CurrentPcs, WriterPc
<1>5. QuietInv'
  BY NobodyAssumption DEF Shape, QuietInv, Stopped, WriterPc, StopPc
<1> QED
  BY <1>1, <1>2, <1>3, <1>4, <1>5

\* The stop takes the toggle.
LEMMA StopToggleKeeps ==
    ASSUME IInv, StopToggle
    PROVE  IInv'
<1> USE DEF IInv, StopToggle
<1>1. Shape'
  BY NobodyAssumption DEF Shape, Pcs, ThreadFields, CallFields, WriterPc, TogglePc
<1>2. HolderInv'
  BY NobodyAssumption DEF Shape, HolderInv, HoldPcs, CallPcs, WriterPc, StopPc
<1>3. WritingInv'
  BY NobodyAssumption DEF Shape, WritingInv, MarkPcs, WriterPc
<1>4. CurrentInv'
  BY NobodyAssumption DEF Shape, CurrentInv, CurrentPcs, WriterPc
<1>5. QuietInv'
  BY NobodyAssumption DEF Shape, QuietInv, Stopped, WriterPc, StopPc
<1> QED
  BY <1>1, <1>2, <1>3, <1>4, <1>5

\* Nobody holds the toggle, so nobody is about to turn recording on.
LEMMA StopOffAgainKeeps ==
    ASSUME IInv, StopOffAgain
    PROVE  IInv'
<1> USE DEF IInv, StopOffAgain
<1>1. Shape'
  BY NobodyAssumption DEF Shape, Pcs, ThreadFields, CallFields, WriterPc, TogglePc
<1>2. HolderInv'
  BY NobodyAssumption DEF Shape, HolderInv, HoldPcs, CallPcs, WriterPc, StopPc
<1>3. WritingInv'
  BY NobodyAssumption DEF Shape, WritingInv, MarkPcs, WriterPc
<1>4. CurrentInv'
  BY NobodyAssumption DEF Shape, CurrentInv, CurrentPcs, WriterPc
<1>5. QuietInv'
  BY NobodyAssumption DEF Shape, QuietInv, Stopped, HolderInv, HoldPcs, WriterPc, StopPc
<1> QED
  BY <1>1, <1>2, <1>3, <1>4, <1>5

\* No marked writer of the session: every writer is marked and has the session.
LEMMA StopWaitKeeps ==
    ASSUME IInv, StopWait
    PROVE  IInv'
<1> USE DEF IInv, StopWait, NoWriters, InSession
<1>1. Shape'
  BY DEF Shape, Pcs, ThreadFields, CallFields, WriterPc, TogglePc
<1>2. HolderInv'
  BY DEF Shape, HolderInv, HoldPcs, CallPcs, WriterPc, StopPc
<1>3. WritingInv'
  BY DEF Shape, WritingInv, MarkPcs, WriterPc
<1>4. CurrentInv'
  BY DEF Shape, CurrentInv, CurrentPcs, WriterPc
<1>5. QuietInv'
  BY DEF Shape, QuietInv, Stopped, WritingInv, MarkPcs, CurrentInv, CurrentPcs, WriterPc, StopPc
<1> QED
  BY <1>1, <1>2, <1>3, <1>4, <1>5

\* What a thread held back is published.
LEMMA StopReleaseKeeps ==
    ASSUME NEW t \in Threads, IInv, StopRelease(t)
    PROVE  IInv'
<1> USE DEF IInv, StopRelease
<1>1. Shape'
  BY Released DEF Shape, Pcs, ThreadFields, CallFields, WriterPc, TogglePc
<1>2. HolderInv'
  BY Released DEF Shape, HolderInv, HoldPcs, CallPcs, WriterPc, StopPc
<1>3. WritingInv'
  <2>1. \A u \in Threads : /\ threads'[u].writing = threads[u].writing
                           /\ threads'[u].exited => threads[u].exited
    BY Released
  <2>2. pc' = pc
    OBVIOUS
  <2> HIDE DEF StopRelease
  <2> QED
    BY <2>1, <2>2 DEF WritingInv
<1>4. CurrentInv'
  BY Released DEF Shape, CurrentInv, CurrentPcs, ThreadFields, WriterPc
<1>5. QuietInv'
  BY Released DEF Shape, QuietInv, Stopped, WriterPc, StopPc
<1> QED
  BY <1>1, <1>2, <1>3, <1>4, <1>5

\* The stop releases the toggle.
LEMMA StopDoneKeeps ==
    ASSUME IInv, StopDone
    PROVE  IInv'
<1> USE DEF IInv, StopDone
<1>1. Shape'
  BY NobodyAssumption DEF Shape, Pcs, ThreadFields, CallFields, WriterPc, TogglePc
<1>2. HolderInv'
  BY NobodyAssumption DEF Shape, HolderInv, HoldPcs, CallPcs, WriterPc, StopPc
<1>3. WritingInv'
  BY NobodyAssumption DEF Shape, WritingInv, MarkPcs, WriterPc
<1>4. CurrentInv'
  BY NobodyAssumption DEF Shape, CurrentInv, CurrentPcs, WriterPc
<1>5. QuietInv'
  BY NobodyAssumption DEF Shape, QuietInv, Stopped, WriterPc, StopPc
<1> QED
  BY <1>1, <1>2, <1>3, <1>4, <1>5

\* A drain begins.
LEMMA DrainKeeps ==
    ASSUME IInv, Drain
    PROVE  IInv'
<1> USE DEF IInv, Drain
<1>1. Shape'
  BY DEF Shape, Pcs, ThreadFields, CallFields, WriterPc, TogglePc
<1>2. HolderInv'
  BY DEF Shape, HolderInv, HoldPcs, CallPcs, WriterPc, StopPc
<1>3. WritingInv'
  BY DEF Shape, WritingInv, MarkPcs, WriterPc
<1>4. CurrentInv'
  BY DEF Shape, CurrentInv, CurrentPcs, WriterPc
<1>5. QuietInv'
  BY DEF Shape, QuietInv, Stopped, WriterPc, StopPc
<1> QED
  BY <1>1, <1>2, <1>3, <1>4, <1>5

\* A drain moves on to a thread.
LEMMA DrainThreadKeeps ==
    ASSUME NEW t \in Threads, IInv, DrainThread(t)
    PROVE  IInv'
<1> USE DEF IInv, DrainThread
<1>1. Shape'
  BY DEF Shape, Pcs, ThreadFields, CallFields, WriterPc, TogglePc
<1>2. HolderInv'
  BY DEF Shape, HolderInv, HoldPcs, CallPcs, WriterPc, StopPc
<1>3. WritingInv'
  BY DEF Shape, WritingInv, MarkPcs, ThreadFields, WriterPc
<1>4. CurrentInv'
  BY DEF Shape, CurrentInv, CurrentPcs, ThreadFields, WriterPc
<1>5. QuietInv'
  BY DEF Shape, QuietInv, Stopped, WriterPc, StopPc
<1> QED
  BY <1>1, <1>2, <1>3, <1>4, <1>5

\* A drain hands over what is published.
LEMMA DrainPosKeeps ==
    ASSUME IInv, DrainPos
    PROVE  IInv'
<1> USE DEF IInv, DrainPos
<1>1. Shape'
  BY DEF Shape, Pcs, ThreadFields, CallFields, WriterPc, TogglePc
<1>2. HolderInv'
  BY DEF Shape, HolderInv, HoldPcs, CallPcs, WriterPc, StopPc
<1>3. WritingInv'
  BY DEF Shape, WritingInv, MarkPcs, ThreadFields, WriterPc
<1>4. CurrentInv'
  BY DEF Shape, CurrentInv, CurrentPcs, ThreadFields, WriterPc
<1>5. QuietInv'
  BY DEF Shape, QuietInv, Stopped, WriterPc, StopPc
<1> QED
  BY <1>1, <1>2, <1>3, <1>4, <1>5

\* A drain hands over a finished chunk.
LEMMA DrainFinishedKeeps ==
    ASSUME IInv, DrainFinished
    PROVE  IInv'
<1> USE DEF IInv, DrainFinished
<1>1. Shape'
  BY DEF Shape, Pcs, ThreadFields, CallFields, WriterPc, TogglePc
<1>2. HolderInv'
  BY DEF Shape, HolderInv, HoldPcs, CallPcs, WriterPc, StopPc
<1>3. WritingInv'
  BY DEF Shape, WritingInv, MarkPcs, ThreadFields, WriterPc
<1>4. CurrentInv'
  BY DEF Shape, CurrentInv, CurrentPcs, ThreadFields, WriterPc
<1>5. QuietInv'
  BY DEF Shape, QuietInv, Stopped, WriterPc, StopPc
<1> QED
  BY <1>1, <1>2, <1>3, <1>4, <1>5

\* The state of an exited thread is freed.
LEMMA DrainDoneKeeps ==
    ASSUME IInv, DrainDone
    PROVE  IInv'
<1> USE DEF IInv, DrainDone, Reset
<1>1. Shape'
  BY DEF Shape, Pcs, ThreadFields, CallFields, WriterPc, TogglePc
<1>2. HolderInv'
  BY DEF Shape, HolderInv, HoldPcs, CallPcs, WriterPc, StopPc
<1>3. WritingInv'
  BY DEF Shape, WritingInv, MarkPcs, ThreadFields, WriterPc
<1>4. CurrentInv'
  BY DEF Shape, CurrentInv, CurrentPcs, WritingInv, ThreadFields, WriterPc
<1>5. QuietInv'
  BY DEF Shape, QuietInv, Stopped, WriterPc, StopPc
<1> QED
  BY <1>1, <1>2, <1>3, <1>4, <1>5

\* A drain ends.
LEMMA DrainEndKeeps ==
    ASSUME IInv, DrainEnd
    PROVE  IInv'
<1> USE DEF IInv, DrainEnd
<1>1. Shape'
  BY DEF Shape, Pcs, ThreadFields, CallFields, WriterPc, TogglePc
<1>2. HolderInv'
  BY DEF Shape, HolderInv, HoldPcs, CallPcs, WriterPc, StopPc
<1>3. WritingInv'
  BY DEF Shape, WritingInv, MarkPcs, WriterPc
<1>4. CurrentInv'
  BY DEF Shape, CurrentInv, CurrentPcs, WriterPc
<1>5. QuietInv'
  BY DEF Shape, QuietInv, Stopped, WriterPc, StopPc
<1> QED
  BY <1>1, <1>2, <1>3, <1>4, <1>5

-----------------------------------------------------------------------------
(* The theorems. *)

\* At first nobody records and no session is open.
LEMMA InitInv == Init => IInv
<1> SUFFICES ASSUME Init PROVE IInv
  OBVIOUS
<1> USE DEF Init, Reset, NoCall, WriterPc
<1>1. Shape
  BY DEF Shape, Pcs, ThreadFields, CallFields
<1>2. HolderInv /\ WritingInv /\ CurrentInv /\ QuietInv
  BY DEF HolderInv, HoldPcs, CallPcs, WritingInv, MarkPcs, CurrentInv, CurrentPcs, QuietInv,
     Stopped, StopPc
<1> QED
  BY <1>1, <1>2 DEF IInv

\* Every step of the recorder keeps the inductive invariant.
LEMMA NextInv == ASSUME IInv, ~StaleWriters, [Next]_vars PROVE IInv'
<1>1. ASSUME NEW t \in Threads,
             Begin(t) \/ Writer(t) \/ thread_exited(t) \/ SetRecording(t) \/ Toggle(t)
      PROVE  IInv'
  <2>1. CASE Begin(t) \/ thread_exited(t) \/ SetRecording(t)
    BY <2>1, BeginKeeps, Thread_exitedKeeps, SetRecordingKeeps
  <2>2. CASE Writer(t)
    BY <2>2, WriterSteps, WriterStepInv, Thread_stateKeeps, MarkKeeps, CheckKeeps, Writer_endKeeps
       DEF Writer, IInv
  <2>3. CASE Toggle(t)
    BY <2>3, Toggle_lockKeeps, ToggleCheckKeeps, ToggleOffKeeps, ToggleOnKeeps, ToggleRecheckKeeps,
       ToggleDoneKeeps DEF Toggle
  <2> QED
    BY <1>1, <2>1, <2>2, <2>3
<1>2. CASE Start \/ StartOpen \/ StartOn \/ Stop
  BY <1>2, StartKeeps, StartOpenKeeps, StartOnKeeps, StopKeeps
<1>3. CASE StopSteps
  BY <1>3, StopOffKeeps, StopToggleKeeps, StopOffAgainKeeps, StopWaitKeeps, StopReleaseKeeps,
     StopDoneKeeps DEF StopSteps
<1>4. CASE Drain \/ DrainSteps
  BY <1>4, DrainKeeps, DrainThreadKeeps, DrainPosKeeps, DrainFinishedKeeps, DrainDoneKeeps,
     DrainEndKeeps DEF DrainSteps
<1>5. CASE UNCHANGED vars
  BY <1>5 DEF vars, sessionVars, toggleVars, consumerVars, IInv, Shape, HolderInv, WritingInv,
     CurrentInv, QuietInv, Stopped
<1> QED
  BY <1>1, <1>2, <1>3, <1>4, <1>5 DEF Next

\* The inductive invariant holds in every execution.
LEMMA Invariance == ASSUME ~StaleWriters PROVE Spec => []IInv
<1>1. IInv /\ [Next]_vars => IInv'
  BY NextInv
<1> QED
  BY <1>1, InitInv, PTL DEF Spec

\* Once hl_prof_stop has waited for the writers, recording is off and no thread
\* writes a record until the next session, whoever pauses, resumes, records,
\* exits or drains at the same time.
THEOREM StoppedQuietCorrect == ASSUME ~StaleWriters PROVE Spec => []StoppedQuiet
<1>1. IInv => StoppedQuiet
  BY DEF IInv, QuietInv, StoppedQuiet
<1> QED
  BY <1>1, Invariance, PTL

\* A thread that writes a record does so with its state of the current session:
\* the comparison before the mark of writer_begin is enough as long as no session
\* starts in between.
THEOREM WriterCurrentCorrect == ASSUME ~StaleWriters PROVE Spec => []WriterCurrent
<1>1. IInv => WriterCurrent
  BY DEF IInv, CurrentInv, CurrentPcs, WriterCurrent
<1> QED
  BY <1>1, Invariance, PTL

-----------------------------------------------------------------------------
(* Drains *)


\* What the code assumes of a thread's own fields. The position is published up to
\* the run that is held back, except inside next_chunk; a thread asks for a chunk
\* when its own is full; counts of dropped calls are of a thread with a chunk.
Place(t) == LET s == threads[t] base == chunk_data(s.chunk) IN
    /\ s.chunk # None =>
          /\ base <= s.pos /\ s.pos <= s.cur /\ s.cur < base + ChunkSize
          /\ s.first_chunk # None
    /\ s.chunk = None =>
          /\ s.cur = None /\ s.pos = None /\ s.held = None /\ ~s.dropped
          /\ pc[t] # "fresh" => s.first_chunk = None
    /\ s.held # None => s.held = s.pos /\ s.pos < s.cur /\ pc[t] # "fresh"
    /\ s.held = None /\ pc[t] # "fresh" => s.pos = s.cur
    /\ s.first_chunk = None => s.read_chunk = None
    /\ s.read_chunk = None => s.read_offset = 0
    /\ pc[t] = "fresh" /\ s.chunk = None => s.first_chunk = call[t].index /\ s.read_chunk = None
    /\ (pc[t] \in {"link", "fresh"}) <=> (call[t].index # None)
    /\ pc[t] \in {"pop", "full", "link"} => ~Room(t)
    /\ call[t].kind = "overflow" => s.chunk # None /\ pc[t] \in WriterPc \cup {"end"}
    /\ s.exited => s.chunk # None /\ s.held = None /\ ~s.dropped
PlaceInv == \A t \in Threads : Place(t)

\* Where the consumer is. A stop releases threads of its session. A drain looks at
\* finished only once the position has left the chunk, and is done with an exited
\* thread when it has read all of it.
ConsumerInv == LET r == threads[reading] IN
    /\ cpc \in {"drain", "pos", "finished", "done", "stopRelease"} => registry_lock
    /\ cpc = "stopRelease" =>
          \A t \in todo : threads[t].session = session_id /\ ~threads[t].exited
    /\ cpc \in {"pos", "finished", "done"} => reading \in Threads
    /\ cpc \in {"pos", "finished"} => r.session = session_id /\ r.read_chunk # None
    /\ cpc = "finished" => r.read_chunk # r.chunk /\ r.read_chunk # WriteTo(reading)
    /\ cpc = "done" /\ r.exited /\ r.session = session_id =>
          r.read_chunk = r.chunk /\ r.read_offset = r.cur - chunk_data(r.chunk)

\* After a stop nothing is held back, and a thread that the drain has left behind
\* is drained.
FinalInv ==
    /\ Stopped => \A t \in Threads :
          threads[t].session = session_id /\ (cpc = "stopRelease" => t \notin todo) =>
             threads[t].held = None /\ ~threads[t].dropped
    /\ ~session_open /\ cpc \in {"drain", "pos", "finished", "done"} =>
          \A t \in Threads \ todo : (t = reading /\ cpc \in {"pos", "finished"}) \/ drained[t] = log[t]
    /\ ~session_open /\ cpc \in {"idle", "opening"} => \A t \in Threads : drained[t] = log[t]

\* Each chunk has one owner, or none when it is free: own[c].
PoolInv(own) ==
    /\ \A i, j \in 1 .. Len(free) : free[i] = free[j] => i = j
    /\ \A i \in 1 .. Len(free) : own[free[i]] = Nobody
    /\ session_id > 0 =>
          \A c \in Chunks : own[c] = Nobody => \E i \in 1 .. Len(free) : free[i] = c
    /\ \A t \in Threads : pc[t] = "link" => own[call[t].index] = t

\* The chunks of a thread but the one it has popped and not linked.
InChain(c, t, own) == c \in Chunks /\ own[c] = t /\ ~(pc[t] = "link" /\ c = call[t].index)

\* The cells of a chunk that hold records of the thread.
Used(c, t) ==
    IF c # WriteTo(t) THEN chunks[c].size
    ELSE IF pc[t] = "fresh" THEN 0 ELSE threads[t].cur - chunk_data(c)

\* A thread that has published a chunk owns the two ends of its chain, and its own
\* chunk even inside next_chunk.
ChainEnds(t, own) ==
    /\ Live(t) => /\ InChain(ReadFrom(t), t, own) /\ InChain(WriteTo(t), t, own)
                  /\ threads[t].chunk # None => InChain(threads[t].chunk, t, own)
    /\ ~Live(t) => \A c \in Chunks : ~InChain(c, t, own)

\* Every chunk but the last is finished, is not empty, and leads to one whose
\* records follow: off[c] is the number of records before those of chunk c.
ChainLinks(t, own, off) ==
    /\ \A c \in Chunks : InChain(c, t, own) /\ c # WriteTo(t) =>
          /\ chunks[c].finished /\ chunks[c].size \in 1 .. ChunkSize - 1
          /\ InChain(chunks[c].next, t, own)
          /\ off[chunks[c].next] = off[c] + chunks[c].size
    /\ pc[t] = "fresh" /\ InChain(threads[t].chunk, t, own) =>
          /\ chunks[threads[t].chunk].size = threads[t].cur - chunk_data(threads[t].chunk)
          /\ chunks[threads[t].chunk].next = call[t].index
          /\ threads[t].chunk # call[t].index

\* Every chunk but the first is the next of one.
ChainPreds(t, own) == \A c \in Chunks : InChain(c, t, own) /\ c # ReadFrom(t) =>
    \E d \in Chunks : InChain(d, t, own) /\ d # WriteTo(t) /\ chunks[d].next = c

\* Of two chunks one comes before the other.
ChainOrder(t, own, off) ==
    \A c, d \in Chunks : InChain(c, t, own) /\ InChain(d, t, own) /\ c # d =>
       \/ c # WriteTo(t) /\ off[c] + chunks[c].size <= off[d]
       \/ d # WriteTo(t) /\ off[d] + chunks[d].size <= off[c]

\* The consumer reads the first.
ChainFirst(t, own, off) ==
    Live(t) => \A c \in Chunks : InChain(c, t, own) => off[ReadFrom(t)] <= off[c]

\* The chunks hold what the thread has recorded.
ChainContent(t, own, off) ==
    /\ Live(t) => off[WriteTo(t)] + Used(WriteTo(t), t) = Len(log[t])
    /\ \A c \in Chunks : InChain(c, t, own) =>
          \A j \in 0 .. Used(c, t) - 1 : mem[chunk_data(c) + j] = log[t][off[c] + j + 1]

\* What is handed over is a prefix, up to the place where the consumer reads, which
\* is never past the published position.
ReadLimit(t) ==
    IF ReadFrom(t) = threads[t].chunk
    THEN threads[t].pos - chunk_data(threads[t].chunk) ELSE Used(ReadFrom(t), t)
ChainProgress(t, off) ==
    /\ Live(t) => /\ off[ReadFrom(t)] + threads[t].read_offset = Len(drained[t])
                  /\ threads[t].read_offset <= ReadLimit(t)
    /\ ~Live(t) => drained[t] = log[t]
    /\ Len(drained[t]) <= Len(log[t])
    /\ \A i \in 1 .. Len(drained[t]) : drained[t][i] = log[t][i]

ThreadInv(t, own, off) ==
    /\ ChainEnds(t, own) /\ ChainLinks(t, own, off) /\ ChainPreds(t, own)
    /\ ChainOrder(t, own, off) /\ ChainFirst(t, own, off)
    /\ ChainContent(t, own, off) /\ ChainProgress(t, off)

Owners == [Chunks -> Threads \cup {Nobody}]
Offsets == [Chunks -> Nat]
ChainInv(own, off) == PoolInv(own) /\ \A t \in Threads : ThreadInv(t, own, off)

\* The inductive invariant, beside the one of ProfRecorderProofs.
DInv ==
    /\ TypeOK /\ PlaceInv /\ ConsumerInv /\ FinalInv
    /\ \E own \in Owners, off \in Offsets : ChainInv(own, off)

-----------------------------------------------------------------------------
(* Cells, numbers and sequences. *)

\* The cells of a chunk are cells of the pool.
LEMMA CellFacts ==
    ASSUME NEW c \in Chunks
    PROVE  /\ chunk_data(c) \in Nat
           /\ \A j \in 0 .. ChunkSize - 1 : chunk_data(c) + j \in Cells
<1>1. c \in Nat /\ c <= ChunkCount - 1 /\ ChunkSize \in Nat /\ ChunkCount \in Nat
  BY SizeAssumption DEF Chunks
<1>2. c * ChunkSize \in Nat /\ (c + 1) * ChunkSize = c * ChunkSize + ChunkSize
  BY <1>1
<1>3. (c + 1) * ChunkSize <= ChunkCount * ChunkSize
  BY <1>1
<1>4. ChunkCount * ChunkSize \in Nat
  BY <1>1
<1> QED
  BY <1>1, <1>2, <1>3, <1>4 DEF chunk_data, Cells

\* The cells of two chunks are different.
LEMMA CellDisjoint ==
    ASSUME NEW c \in Chunks, NEW d \in Chunks, NEW i \in 0 .. ChunkSize - 1,
           NEW j \in 0 .. ChunkSize - 1, chunk_data(c) + i = chunk_data(d) + j
    PROVE  c = d /\ i = j
<1>1. c \in Nat /\ d \in Nat /\ ChunkSize \in Nat /\ i \in Nat /\ j \in Nat
  BY SizeAssumption DEF Chunks
<1>2. ASSUME NEW m \in Nat, NEW n \in Nat, m < n
      PROVE  m * ChunkSize + ChunkSize <= n * ChunkSize
  <2>1. (m + 1) * ChunkSize <= n * ChunkSize
    BY <1>1, <1>2
  <2> QED
    BY <1>1, <2>1
<1>3. c * ChunkSize \in Nat /\ d * ChunkSize \in Nat
  BY <1>1
<1>4. ~(c < d) /\ ~(d < c)
  BY <1>1, <1>2, <1>3 DEF chunk_data
<1> QED
  BY <1>1, <1>3, <1>4 DEF chunk_data

\* Induction over the numbers, through the least one outside a set.
LEMMA LeastNumber ==
    ASSUME NEW S \in SUBSET Nat, S # {}
    PROVE  \E n \in S : \A m \in S : n <= m
<1>1. PICK R : R = {ss \in Nat \X Nat : ss[1] < ss[2]}
  OBVIOUS
<1>2. IsWellFoundedOn(R, Nat)
  BY <1>1, NatLessThanWellFounded, Zenon DEF OpToRel
<1>3. PICK n \in S : \A m \in S : ~(<<m, n>> \in R)
  BY <1>2, WFMin
<1>4. ASSUME NEW m \in S PROVE n <= m
  <2>1. m \in Nat /\ n \in Nat
    OBVIOUS
  <2>2. m < n => <<m, n>> \in R
    BY <1>1, <2>1
  <2> QED
    BY <1>3, <2>1, <2>2
<1> QED
  BY <1>4

\* The free list after a pop.
LEMMA Popped ==
    ASSUME NEW q \in Seq(Chunks), q # <<>>,
           \A i, j \in 1 .. Len(q) : q[i] = q[j] => i = j
    PROVE  /\ Head(q) \in Chunks /\ Tail(q) \in Seq(Chunks) /\ Len(Tail(q)) = Len(q) - 1
           /\ Len(q) \in Nat \ {0} /\ Head(q) = q[1]
           /\ \A i \in 1 .. Len(Tail(q)) : Tail(q)[i] = q[i + 1]
           /\ \A i, j \in 1 .. Len(Tail(q)) : Tail(q)[i] = Tail(q)[j] => i = j
           /\ \A i \in 1 .. Len(Tail(q)) : Tail(q)[i] # Head(q)
           /\ \A i \in 1 .. Len(q) : q[i] = Head(q) \/ \E j \in 1 .. Len(Tail(q)) : Tail(q)[j] = q[i]
<1>1. /\ Head(q) \in Chunks /\ Tail(q) \in Seq(Chunks) /\ Len(Tail(q)) = Len(q) - 1
      /\ Len(q) \in Nat \ {0} /\ Head(q) = q[1]
      /\ \A i \in 1 .. Len(Tail(q)) : Tail(q)[i] = q[i + 1]
  OBVIOUS
<1>2. \A i \in 1 .. Len(q) : q[i] = Head(q) \/ \E j \in 1 .. Len(Tail(q)) : Tail(q)[j] = q[i]
  <2> SUFFICES ASSUME NEW i \in 1 .. Len(q), i # 1
               PROVE  \E j \in 1 .. Len(Tail(q)) : Tail(q)[j] = q[i]
    BY <1>1
  <2>1. i - 1 \in 1 .. Len(Tail(q)) /\ Tail(q)[i - 1] = q[i]
    BY <1>1
  <2> QED
    BY <2>1
<1> QED
  BY <1>1, <1>2

\* The free list after a push.
InFront(p, c, q) == p = <<c>> \o q
LEMMA PushedBack ==
    ASSUME NEW q \in Seq(Chunks), NEW c \in Chunks, NEW p, InFront(p, c, q),
           \A i, j \in 1 .. Len(q) : q[i] = q[j] => i = j,
           \A i \in 1 .. Len(q) : q[i] # c
    PROVE  /\ p \in Seq(Chunks) /\ Len(p) = Len(q) + 1
           /\ \A i, j \in 1 .. Len(p) : p[i] = p[j] => i = j
           /\ \A i \in 1 .. Len(p) : p[i] = c \/ \E j \in 1 .. Len(q) : p[i] = q[j]
           /\ \E i \in 1 .. Len(p) : p[i] = c
           /\ \A j \in 1 .. Len(q) : \E i \in 1 .. Len(p) : p[i] = q[j]
<1>1. /\ p \in Seq(Chunks) /\ Len(p) = Len(q) + 1 /\ Len(q) \in Nat
      /\ p[1] = c /\ \A i \in 2 .. Len(p) : p[i] = q[i - 1]
  BY DEF InFront
<1>2. \A i \in 2 .. Len(p) : i - 1 \in 1 .. Len(q)
  BY <1>1
<1>3. \A j \in 1 .. Len(q) : j + 1 \in 2 .. Len(p) /\ p[j + 1] = q[j]
  BY <1>1
<1>4. \A i, j \in 1 .. Len(p) : p[i] = p[j] => i = j
  <2> SUFFICES ASSUME NEW i \in 1 .. Len(p), NEW j \in 1 .. Len(p), p[i] = p[j] PROVE i = j
    OBVIOUS
  <2>1. CASE i = 1 \/ j = 1
    BY <1>1, <1>2, <2>1
  <2>2. CASE i # 1 /\ j # 1
    <3>1. i \in 2 .. Len(p) /\ j \in 2 .. Len(p)
      BY <1>1, <2>2
    <3>2. i - 1 = j - 1
      BY <1>1, <1>2, <3>1
    <3> QED
      BY <3>1, <3>2, <1>1
  <2> QED
    BY <2>1, <2>2
<1>5. \A i \in 1 .. Len(p) : i = 1 \/ i \in 2 .. Len(p)
  BY <1>1
<1>6. \A i \in 1 .. Len(p) : p[i] = c \/ \E j \in 1 .. Len(q) : p[i] = q[j]
  BY <1>1, <1>2, <1>5
<1>7. 1 \in 1 .. Len(p) /\ \A j \in 2 .. Len(p) : j \in 1 .. Len(p)
  BY <1>1
<1>8. \A j \in 1 .. Len(q) : \E i \in 1 .. Len(p) : p[i] = q[j]
  BY <1>3, <1>7
<1> QED
  BY <1>1, <1>4, <1>6, <1>7, <1>8

\* A record that is appended, and one that is taken back.
LEMMA Appended ==
    ASSUME NEW q \in Seq(Record), NEW r \in Record
    PROVE  /\ Append(q, r) \in Seq(Record) /\ Len(Append(q, r)) = Len(q) + 1
           /\ Len(q) \in Nat
           /\ \A i \in 1 .. Len(q) : Append(q, r)[i] = q[i]
           /\ Append(q, r)[Len(q) + 1] = r
  OBVIOUS

LEMMA TakenBack ==
    ASSUME NEW q \in Seq(Record), Len(q) > 0
    PROVE  /\ Front(q) \in Seq(Record) /\ Len(Front(q)) = Len(q) - 1
           /\ \A i \in 1 .. Len(q) - 1 : Front(q)[i] = q[i]
<1>1. Len(q) \in Nat /\ Len(q) - 1 \in 0 .. Len(q) /\ \A i \in 1 .. Len(q) : q[i] \in Record
  OBVIOUS
<1>2. Front(q) = [i \in 1 .. Len(q) - 1 |-> q[i]]
  BY <1>1 DEF Front
<1>3. \A i \in 1 .. Len(q) - 1 : q[i] \in Record
  BY <1>1
<1> QED
  BY <1>1, <1>2, <1>3

-----------------------------------------------------------------------------
(* What the invariant says. *)

USE DEF Goto, Consumer, sessionVars, toggleVars, poolVars, consumerVars, recordVars, threadVars

\* The chunks of a thread are those it owns: a chunk that is the next of one in a
\* closed set is in the set, and the first chunk is in it.
LEMMA ChainIs ==
    ASSUME NEW own \in Owners, NEW off \in Offsets, NEW t \in Threads, ThreadInv(t, own, off)
    PROVE  Chain(t) = {c \in Chunks : InChain(c, t, own)}
<1> DEFINE Mine == {c \in Chunks : InChain(c, t, own)}
           Closed(S) == ReadFrom(t) \in S /\ \A d \in S \ {WriteTo(t)} : chunks[d].next \in S
<1>1. CASE ~Live(t)
  BY <1>1 DEF Chain, ThreadInv, ChainEnds
<1>2. CASE Live(t)
  <2>1. Closed(Mine)
    BY <1>2 DEF ThreadInv, ChainEnds, ChainLinks, InChain
  <2>2. ASSUME NEW S \in SUBSET Chunks, Closed(S) PROVE Mine \subseteq S
    <3> SUFFICES ASSUME Mine \ S # {} PROVE FALSE
      OBVIOUS
    <3> DEFINE N == {off[c] : c \in Mine \ S}
    <3>1. N \in SUBSET Nat /\ N # {}
      BY DEF Offsets
    <3>2. PICK n \in N : \A m \in N : n <= m
      BY <3>1, LeastNumber
    <3>3. PICK c \in Mine \ S : off[c] = n
      OBVIOUS
    <3>4. c \in Chunks /\ InChain(c, t, own) /\ c # ReadFrom(t)
      BY <2>2, <3>3
    <3>5. PICK d \in Chunks : InChain(d, t, own) /\ d # WriteTo(t) /\ chunks[d].next = c
      BY <3>4 DEF ThreadInv, ChainPreds
    <3>6. d \in Mine /\ d \notin S
      BY <2>2, <3>3, <3>5
    <3>7. off[c] = off[d] + chunks[d].size /\ chunks[d].size \in 1 .. ChunkSize - 1
      BY <3>5 DEF ThreadInv, ChainLinks
    <3>8. off[d] \in Nat /\ off[c] \in Nat /\ off[d] \in N
      BY <3>4, <3>6 DEF Offsets
    <3> QED
      BY <3>2, <3>3, <3>7, <3>8, SizeAssumption
  <2>3. Mine \in SUBSET Chunks
    OBVIOUS
  <2>4. Chain(t) = {c \in Chunks : \A S \in SUBSET Chunks : Closed(S) => c \in S}
    BY <1>2 DEF Chain
  <2> HIDE DEF Mine, Closed
  <2>5. Chain(t) = Mine
    BY <2>1, <2>2, <2>3, <2>4
  <2> QED
    BY <2>5 DEF Mine
<1> QED
  BY <1>1, <1>2

\* With one that it has popped and not linked.
LEMMA OwnedIs ==
    ASSUME NEW own \in Owners, NEW off \in Offsets, NEW t \in Threads, TypeOK, PlaceInv,
           PoolInv(own), ThreadInv(t, own, off)
    PROVE  Owned(t) = {c \in Chunks : own[c] = t}
<1>1. Chain(t) = {c \in Chunks : InChain(c, t, own)}
  BY ChainIs
<1>2. CASE pc[t] = "link"
  <2>1. own[call[t].index] = t /\ call[t].index \in Chunks
    BY <1>2 DEF PoolInv, PlaceInv, Place, TypeOK
  <2> QED
    BY <1>1, <1>2, <2>1 DEF Owned, InChain
<1>3. CASE pc[t] # "link"
  BY <1>1, <1>3 DEF Owned, InChain
<1> QED
  BY <1>2, <1>3

LEMMA DInvAccounted == ASSUME DInv PROVE ChunksAccounted
<1>1. PICK own \in Owners, off \in Offsets : ChainInv(own, off)
  BY DEF DInv
<1>2. \A t \in Threads : Owned(t) = {c \in Chunks : own[c] = t}
  BY <1>1, OwnedIs DEF DInv, ChainInv
<1>3. \A c : c \in ToSet(free) <=> \E i \in 1 .. Len(free) : free[i] = c
  BY DEF ToSet, DInv, TypeOK
<1> SUFFICES ASSUME session_id > 0 PROVE ChunksAccounted!2
  BY DEF ChunksAccounted
<1>4. ASSUME NEW c \in Chunks
      PROVE  \/ /\ c \in ToSet(free) /\ \A t \in Threads : c \notin Owned(t)
             \/ /\ c \notin ToSet(free)
                /\ \E t \in Threads : c \in Owned(t) /\ \A u \in Threads \ {t} : c \notin Owned(u)
  <2>1. CASE own[c] = Nobody
    BY <1>1, <1>2, <1>3, <2>1, NobodyAssumption DEF ChainInv, PoolInv
  <2>2. CASE own[c] # Nobody
    <3>1. c \notin ToSet(free)
      BY <1>1, <1>3, <2>2 DEF ChainInv, PoolInv
    <3>2. own[c] \in Threads
      BY <2>2 DEF Owners
    <3> QED
      BY <1>2, <3>1, <3>2
  <2> QED
    BY <2>1, <2>2
<1> QED
  BY <1>1, <1>4 DEF ChainInv, PoolInv

LEMMA DInvExact == ASSUME DInv PROVE DrainExact
<1>1. PICK own \in Owners, off \in Offsets : ChainInv(own, off)
  BY DEF DInv
<1> SUFFICES ASSUME NEW t \in Threads PROVE IsPrefix(drained[t], log[t])
  BY DEF DrainExact
<1> DEFINE d == drained[t]
           l == log[t]
<1>2. /\ d \in Seq(Record \cup {Blank}) /\ l \in Seq(Record)
      /\ Len(d) <= Len(l) /\ \A i \in 1 .. Len(d) : d[i] = l[i]
  BY <1>1 DEF DInv, TypeOK, ChainInv, ThreadInv, ChainProgress
<1> HIDE DEF d, l
<1>3. SubSeq(d, 1, Len(d)) = [i \in 1 .. Len(d) |-> d[i]]
  BY <1>2
<1>4. SubSeq(l, 1, Len(d)) = [i \in 1 .. Len(d) |-> l[i]]
  BY <1>2
<1>5. [i \in 1 .. Len(d) |-> d[i]] = [i \in 1 .. Len(d) |-> l[i]]
  BY <1>2
<1>6. IsPrefix(d, l)
  BY <1>2, <1>3, <1>4, <1>5 DEF IsPrefix
<1> QED
  BY <1>6 DEF d, l

LEMMA DInvFinal == ASSUME DInv PROVE FinalDrain
BY DEF DInv, FinalInv, FinalDrain

-----------------------------------------------------------------------------
(* A thread that a step does not concern. *)

\* The step leaves alone what the chain of thread t depends on.
SameThread(t) ==
    /\ session_id' = session_id
    /\ threads'[t].session = threads[t].session
    /\ threads'[t].chunk = threads[t].chunk
    /\ threads'[t].cur = threads[t].cur
    /\ threads'[t].pos = threads[t].pos
    /\ threads'[t].first_chunk = threads[t].first_chunk
    /\ threads'[t].read_chunk = threads[t].read_chunk
    /\ threads'[t].read_offset = threads[t].read_offset
    /\ pc'[t] = "fresh" <=> pc[t] = "fresh"
    /\ pc[t] = "fresh" => call'[t].index = call[t].index
    /\ log'[t] = log[t] /\ drained'[t] = drained[t]

\* and the chunks of the chain.
SameChain(t, own, off, own1, off1) ==
    /\ \A c \in Chunks : InChain(c, t, own1)' <=> InChain(c, t, own)
    /\ \A c \in Chunks : InChain(c, t, own) =>
          /\ chunks'[c] = chunks[c] /\ off1[c] = off[c]
          /\ \A j \in 0 .. ChunkSize - 1 : mem'[chunk_data(c) + j] = mem[chunk_data(c) + j]

LEMMA ChainFrame ==
    ASSUME NEW t \in Threads, NEW own \in Owners, NEW off \in Offsets,
           NEW own1 \in Owners, NEW off1 \in Offsets, TypeOK, PlaceInv,
           SameThread(t), SameChain(t, own, off, own1, off1), ThreadInv(t, own, off)
    PROVE  ThreadInv(t, own1, off1)'
<1>1. /\ Live(t)' = Live(t) /\ ReadFrom(t)' = ReadFrom(t) /\ WriteTo(t)' = WriteTo(t)
  BY DEF SameThread, Live, ReadFrom, WriteTo
<1>2. \A c : InChain(c, t, own1)' = InChain(c, t, own)
  BY DEF SameChain, InChain
<1>3. \A c \in Chunks : InChain(c, t, own) => Used(c, t)' = Used(c, t)
  BY <1>1 DEF SameThread, SameChain, Used
<1>4. \A c \in Chunks : InChain(c, t, own) => Used(c, t) \in Int /\ Used(c, t) <= ChunkSize
  <2> SUFFICES ASSUME NEW c \in Chunks, InChain(c, t, own) PROVE Used(c, t) \in Int /\ Used(c, t) <= ChunkSize
    OBVIOUS
  <2>1. CASE c # WriteTo(t)
    BY <2>1, SizeAssumption DEF Used, TypeOK
  <2>2. CASE c = WriteTo(t) /\ pc[t] = "fresh"
    BY <2>2, SizeAssumption DEF Used
  <2>3. CASE c = WriteTo(t) /\ pc[t] # "fresh"
    <3>1. threads[t].chunk = c /\ c # None
      BY <2>3, SizeAssumption DEF WriteTo, Chunks, None
    <3>2. threads[t].cur \in Int
      BY SizeAssumption DEF TypeOK, Cells, None
    <3>3. threads[t].cur < chunk_data(c) + ChunkSize
      BY <3>1 DEF PlaceInv, Place
    <3> QED
      BY <2>3, <3>2, <3>3, SizeAssumption, CellFacts DEF Used
  <2> QED
    BY <2>1, <2>2, <2>3
<1>5. \A c \in Chunks : InChain(c, t, own) =>
         \A j \in 0 .. Used(c, t) - 1 : mem'[chunk_data(c) + j] = mem[chunk_data(c) + j]
  BY <1>4, SizeAssumption DEF SameChain, InChain
<1>6. ChainEnds(t, own1)'
  BY <1>1, <1>2 DEF ThreadInv, ChainEnds, SameThread
<1>7. ChainLinks(t, own1, off1)'
  BY <1>1, <1>2 DEF ThreadInv, ChainLinks, ChainEnds, SameThread, SameChain, InChain
<1>8. ChainPreds(t, own1)'
  BY <1>1, <1>2 DEF ThreadInv, ChainPreds, SameThread, SameChain, InChain
<1>9. ChainOrder(t, own1, off1)'
  BY <1>1, <1>2 DEF ThreadInv, ChainOrder, SameThread, SameChain, InChain
<1>10. ChainFirst(t, own1, off1)'
  BY <1>1, <1>2 DEF ThreadInv, ChainFirst, ChainEnds, SameThread, SameChain, InChain
<1>11. ChainContent(t, own1, off1)'
  BY <1>1, <1>2, <1>3, <1>5 DEF ThreadInv, ChainContent, ChainEnds, SameThread, SameChain, InChain
<1>12. ChainProgress(t, off1)'
  BY <1>1, <1>3 DEF ThreadInv, ChainProgress, ChainEnds, SameThread, SameChain, InChain, ReadLimit
<1> QED
  BY <1>6, <1>7, <1>8, <1>9, <1>10, <1>11, <1>12 DEF ThreadInv

\* The step leaves alone the chunks that thread t owns.
SameChunks(t, own, off, own1, off1) ==
    /\ \A c \in Chunks : own1[c] = t <=> own[c] = t
    /\ \A c \in Chunks : own[c] = t =>
          /\ chunks'[c] = chunks[c] /\ off1[c] = off[c]
          /\ \A j \in 0 .. ChunkSize - 1 : mem'[chunk_data(c) + j] = mem[chunk_data(c) + j]

LEMMA ThreadFrame ==
    ASSUME NEW t \in Threads, NEW own \in Owners, NEW off \in Offsets,
           NEW own1 \in Owners, NEW off1 \in Offsets, TypeOK, PlaceInv,
           SameThread(t), pc'[t] = "link" <=> pc[t] = "link", call'[t].index = call[t].index,
           SameChunks(t, own, off, own1, off1), ThreadInv(t, own, off)
    PROVE  ThreadInv(t, own1, off1)'
<1>1. SameChain(t, own, off, own1, off1)
  BY DEF SameChain, SameChunks, InChain
<1> QED
  BY <1>1, ChainFrame
-----------------------------------------------------------------------------
(* Steps of a thread that leave its chunks and records alone. *)

ThreadRec ==
    [session : 0 .. session_id, chunk : Chunks \cup {None}, cur : Cells \cup {None},
     pos : Cells \cup {None}, held : Cells \cup {None}, held_recording : Nat,
     first_chunk : Chunks \cup {None}, writing : 0 .. 1, exited : BOOLEAN,
     dropped : BOOLEAN, read_chunk : Chunks \cup {None}, read_offset : 0 .. ChunkSize]
CallRec ==
    [kind : AllKinds \cup {"dropped", "overflow", "pause", "resume"}, wait : BOOLEAN,
     index : Chunks \cup {None}, stalled : BOOLEAN, ret : {"idle", "toggleOff", "toggleDone"}]

\* Two states of a thread that differ in the mark and in the counts of dropped calls.
SameRecord(r, s) ==
    /\ r.session = s.session /\ r.chunk = s.chunk /\ r.cur = s.cur /\ r.pos = s.pos
    /\ r.held = s.held /\ r.first_chunk = s.first_chunk /\ r.exited = s.exited
    /\ r.read_chunk = s.read_chunk /\ r.read_offset = s.read_offset

QuietStep(t) ==
    /\ UNCHANGED <<session_open, session_id, poolVars, consumerVars, recordVars, drained>>
    /\ hl_prof_on' \in BOOLEAN /\ recording_changes' \in Nat
    /\ recording_toggle' \in Threads \cup {"stop", Nobody}
    /\ \E r \in ThreadRec :
          /\ threads' = [threads EXCEPT ![t] = r] /\ SameRecord(r, threads[t])
          /\ r.dropped => r.chunk # None
          /\ r.dropped = threads[t].dropped \/ pc[t] \in WriterPc
    /\ \E k \in CallRec :
          /\ call' = [call EXCEPT ![t] = k] /\ k.index = call[t].index
          /\ k.kind = "overflow" => threads[t].chunk # None /\ pc'[t] \in WriterPc \cup {"end"}
    /\ pc[t] \notin {"link", "fresh"}
    /\ \E l \in Pcs \ {"link", "fresh"} :
          /\ pc' = [pc EXCEPT ![t] = l]
          /\ l \in {"pop", "full"} => ~Room(t)

\* The state is unchanged but for its control.
LEMMA SameRec == ASSUME TypeOK, NEW t \in Threads
                 PROVE  /\ threads[t] \in ThreadRec /\ call[t] \in CallRec
                        /\ threads = [threads EXCEPT ![t] = threads[t]]
                        /\ call = [call EXCEPT ![t] = call[t]]
                        /\ pc[t] \in Pcs
BY DEF TypeOK, ThreadRec, CallRec, Pcs

LEMMA QuietKeeps ==
    ASSUME NEW t \in Threads, IInv, DInv, QuietStep(t)
    PROVE  DInv'
<1> DEFINE s == threads[t]
<1>1. PICK r \in ThreadRec :
          /\ threads' = [threads EXCEPT ![t] = r] /\ SameRecord(r, threads[t])
          /\ r.dropped => r.chunk # None
          /\ r.dropped = threads[t].dropped \/ pc[t] \in WriterPc
  BY DEF QuietStep
<1>2. PICK k \in CallRec :
          /\ call' = [call EXCEPT ![t] = k] /\ k.index = call[t].index
          /\ k.kind = "overflow" => threads[t].chunk # None /\ pc'[t] \in WriterPc \cup {"end"}
  BY DEF QuietStep
<1>3. PICK l \in Pcs \ {"link", "fresh"} :
          /\ pc' = [pc EXCEPT ![t] = l]
          /\ l \in {"pop", "full"} => ~Room(t)
  BY DEF QuietStep
<1>4. /\ UNCHANGED <<session_open, session_id, poolVars, consumerVars, recordVars, drained>>
      /\ hl_prof_on' \in BOOLEAN /\ recording_changes' \in Nat
      /\ recording_toggle' \in Threads \cup {"stop", Nobody}
      /\ pc[t] \notin {"link", "fresh"}
  BY DEF QuietStep
<1>5. /\ threads \in [Threads -> ThreadRec] /\ call \in [Threads -> CallRec]
      /\ pc \in [Threads -> Pcs]
  BY DEF DInv, TypeOK, ThreadRec, CallRec, Pcs
<1>6. /\ threads' \in [Threads -> ThreadRec'] /\ call' \in [Threads -> CallRec']
      /\ pc' \in [Threads -> Pcs]
  BY <1>1, <1>2, <1>3, <1>4, <1>5 DEF ThreadRec, CallRec
<1>7. TypeOK'
  BY <1>4, <1>6 DEF DInv, TypeOK, ThreadRec, CallRec, Pcs
<1>8. \A u \in Threads :
         /\ SameRecord(threads'[u], threads[u])
         /\ call'[u].index = call[u].index
         /\ u # t => threads'[u] = threads[u] /\ call'[u] = call[u] /\ pc'[u] = pc[u]
         /\ pc'[u] = "link" <=> pc[u] = "link"
         /\ pc'[u] = "fresh" <=> pc[u] = "fresh"
  BY <1>1, <1>2, <1>3, <1>4, <1>5 DEF SameRecord
<1>9. threads'[t] = r /\ call'[t] = k /\ pc'[t] = l
  BY <1>1, <1>2, <1>3, <1>5
<1>10. PlaceInv'
  <2> SUFFICES ASSUME NEW u \in Threads PROVE Place(u)'
    BY DEF PlaceInv
  <2>0. Place(u)
    BY DEF DInv, PlaceInv
  <2>1. Room(u)' = Room(u)
    BY <1>8 DEF Room, SameRecord
  <2>2. CASE u # t
    BY <1>8, <2>0, <2>1, <2>2 DEF Place
  <2>3. CASE u = t
    <3>1. threads[t].exited => pc[t] \notin WriterPc
      BY DEF IInv, WritingInv, WriterPc
    <3> QED
      BY <3>1, <1>1, <1>2, <1>3, <1>4, <1>8, <1>9, <2>0, <2>1, <2>3 DEF Place, SameRecord
  <2> QED
    BY <2>2, <2>3
<1>11. ConsumerInv'
  <2>1. WriteTo(reading)' = WriteTo(reading) \/ reading \notin Threads
    BY <1>4, <1>8 DEF WriteTo, SameRecord
  <2>2. todo \subseteq Threads
    BY DEF DInv, TypeOK
  <2> QED
    BY <1>4, <1>8, <2>1, <2>2 DEF DInv, ConsumerInv, SameRecord
<1>12. FinalInv'
  <2>1. Stopped' = Stopped /\ (Stopped => pc[t] \notin WriterPc)
    BY <1>4 DEF Stopped, IInv, QuietInv
  <2>2. Stopped => \A u \in Threads : threads'[u].dropped = threads[u].dropped
    BY <1>1, <1>8, <1>9, <2>1
  <2> QED
    BY <1>4, <1>8, <2>1, <2>2 DEF DInv, FinalInv, SameRecord
<1>13. PICK own \in Owners, off \in Offsets : ChainInv(own, off)
  BY DEF DInv
<1>14. PoolInv(own)'
  BY <1>4, <1>8, <1>13 DEF ChainInv, PoolInv
<1>15. ASSUME NEW u \in Threads PROVE ThreadInv(u, own, off)'
  <2>1. SameThread(u) /\ SameChunks(u, own, off, own, off)
    BY <1>4, <1>8 DEF SameThread, SameChunks, SameRecord
  <2> QED
    BY <1>8, <1>13, <2>1, ThreadFrame DEF DInv, ChainInv
<1>16. ChainInv(own, off)'
  BY <1>14, <1>15 DEF ChainInv
<1> QED
  BY <1>7, <1>10, <1>11, <1>12, <1>16 DEF DInv

\* The steps of writer_begin and writer_end, of a record that waits for a chunk or is
\* lost, and of hl_prof_set_recording are such steps.
LEMMA QuietThread ==
    ASSUME NEW t \in Threads, IInv, DInv, pc[t] \notin {"link", "fresh"},
           UNCHANGED <<session_open, session_id, poolVars, consumerVars, recordVars, drained>>,
           hl_prof_on' \in BOOLEAN, recording_changes' \in Nat,
           recording_toggle' \in Threads \cup {"stop", Nobody},
           threads' = threads \/ \E w \in 0 .. 1 : threads' = [threads EXCEPT ![t].writing = w],
           (call' = call /\ pc[t] \notin WriterPc \cup {"end"}) \/ \E k \in CallRec :
              call' = [call EXCEPT ![t] = k] /\ k.index = None /\ k.kind # "overflow",
           NEW l \in Pcs \ {"pop", "full", "link", "fresh"}, pc' = [pc EXCEPT ![t] = l]
    PROVE  DInv'
<1>1. /\ threads[t] \in ThreadRec /\ call[t] \in CallRec
      /\ threads = [threads EXCEPT ![t] = threads[t]]
      /\ call = [call EXCEPT ![t] = call[t]] /\ pc[t] \in Pcs
  BY SameRec DEF DInv
<1>2. Place(t) /\ call[t].index = None
  BY DEF DInv, PlaceInv, Place
<1>3. \E r \in ThreadRec :
          /\ threads' = [threads EXCEPT ![t] = r] /\ SameRecord(r, threads[t])
          /\ r.dropped => r.chunk # None
          /\ r.dropped = threads[t].dropped \/ pc[t] \in WriterPc
  <2>1. CASE threads' = threads
    BY <1>1, <1>2, <2>1 DEF SameRecord, Place
  <2>2. CASE \E w \in 0 .. 1 : threads' = [threads EXCEPT ![t].writing = w]
    <3>1. PICK w \in 0 .. 1 : threads' = [threads EXCEPT ![t].writing = w]
      BY <2>2
    <3>2. [threads[t] EXCEPT !.writing = w] \in ThreadRec
      BY <1>1 DEF ThreadRec
    <3>3. SameRecord([threads[t] EXCEPT !.writing = w], threads[t])
      BY <1>1 DEF ThreadRec, SameRecord
    <3>4. [threads[t] EXCEPT !.writing = w].dropped = threads[t].dropped
      BY <1>1 DEF ThreadRec
    <3>5. [threads[t] EXCEPT !.writing = w].chunk = threads[t].chunk
      BY <1>1 DEF ThreadRec
    <3> QED
      BY <1>2, <3>1, <3>2, <3>3, <3>4, <3>5 DEF Place
  <2> QED
    BY <2>1, <2>2
<1>4. \E k \in CallRec :
          /\ call' = [call EXCEPT ![t] = k] /\ k.index = call[t].index
          /\ k.kind = "overflow" => threads[t].chunk # None /\ pc'[t] \in WriterPc \cup {"end"}
  BY <1>1, <1>2 DEF Place
<1>5. QuietStep(t)
  BY <1>3, <1>4 DEF QuietStep
<1> QED
  BY <1>5, QuietKeeps

\* The types of the switches.
LEMMA Globals ==
    ASSUME DInv
    PROVE  /\ hl_prof_on \in BOOLEAN /\ recording_changes \in Nat /\ recording_changes + 1 \in Nat
           /\ recording_toggle \in Threads \cup {"stop", Nobody}
BY DEF DInv, TypeOK

\* What such a call is.
LEMMA NoCallRec ==
    ASSUME NEW w \in BOOLEAN, NEW k \in AllKinds \cup {"pause", "resume"},
           NEW n \in {"idle", "toggleOff", "toggleDone"}, NEW c,
           \/ c = NoCall \/ c = [NoCall EXCEPT !.wait = w, !.ret = n]
           \/ c = [NoCall EXCEPT !.kind = k, !.wait = w] \/ c = [NoCall EXCEPT !.kind = k]
    PROVE  c \in CallRec /\ c.index = None /\ c.kind # "overflow"
<1> USE DEF NoCall, CallRec, AllKinds
<1>1. CASE c = NoCall
  BY <1>1
<1>2. CASE c = [NoCall EXCEPT !.wait = w, !.ret = n]
  BY <1>2
<1>3. CASE c = [NoCall EXCEPT !.kind = k, !.wait = w]
  BY <1>3
<1>4. CASE c = [NoCall EXCEPT !.kind = k]
  BY <1>4
<1> QED
  BY <1>1, <1>2, <1>3, <1>4

LEMMA BeginDrain == ASSUME NEW t \in Threads, IInv, DInv, Begin(t) PROVE DInv'
<1>1. AfterCompare(t) \in Pcs \ {"pop", "full", "link", "fresh"}
  BY DEF AfterCompare, Pcs
<1>2. PICK k \in Kinds, w \in BOOLEAN :
         call' = [call EXCEPT ![t] = [NoCall EXCEPT !.kind = k, !.wait = w]]
  BY DEF Begin
<1>3. \E c \in CallRec : call' = [call EXCEPT ![t] = c] /\ c.index = None /\ c.kind # "overflow"
  BY <1>2, NoCallRec, KindAssumption
<1>4. /\ pc[t] = "idle" /\ pc' = [pc EXCEPT ![t] = AfterCompare(t)] /\ threads' = threads
      /\ hl_prof_on' = hl_prof_on /\ UNCHANGED toggleVars
      /\ UNCHANGED <<session_open, session_id, poolVars, consumerVars, recordVars, drained>>
  BY DEF Begin
<1> QED
  BY <1>1, <1>3, <1>4, Globals, QuietThread

LEMMA MarkDrain == ASSUME NEW t \in Threads, IInv, DInv, Mark(t) PROVE DInv'
<1>1. threads[t].writing = 0
  BY DEF Mark, IInv, WritingInv, MarkPcs, WriterPc
<1>2. \E w \in 0 .. 1 : threads' = [threads EXCEPT ![t].writing = w]
  <2>1. threads' = [threads EXCEPT ![t].writing = 1]
    BY <1>1 DEF Mark
  <2> QED
    BY <2>1
<1>3. "check" \in Pcs \ {"pop", "full", "link", "fresh"}
  BY DEF Pcs
<1>4. /\ pc[t] = "mark" /\ pc' = [pc EXCEPT ![t] = "check"] /\ call' = call
      /\ hl_prof_on' = hl_prof_on /\ UNCHANGED toggleVars
      /\ UNCHANGED <<session_open, session_id, poolVars, consumerVars, recordVars, drained>>
  BY DEF Mark
<1> QED
  BY <1>2, <1>3, <1>4, Globals, QuietThread DEF WriterPc

LEMMA CheckDrain == ASSUME NEW t \in Threads, IInv, DInv, Check(t) PROVE DInv'
<1>1. (IF hl_prof_on THEN "write" ELSE "end") \in Pcs \ {"pop", "full", "link", "fresh"}
  BY DEF Pcs, WriterPc
<1> QED
  BY <1>1, Globals, QuietThread DEF Check, WriterPc

LEMMA WriterEndDrain == ASSUME NEW t \in Threads, IInv, DInv, writer_end(t) PROVE DInv'
<1>1. threads[t].writing = 1
  BY DEF writer_end, IInv, WritingInv, MarkPcs, WriterPc
<1>2. \E w \in 0 .. 1 : threads' = [threads EXCEPT ![t].writing = w]
  <2>1. threads' = [threads EXCEPT ![t].writing = 0]
    BY <1>1 DEF writer_end
  <2> QED
    BY <2>1
<1>3. call[t].ret \in Pcs \ {"pop", "full", "link", "fresh"}
  BY DEF DInv, TypeOK, Pcs, TogglePc
<1>4. NoCall \in CallRec /\ NoCall.index = None /\ NoCall.kind # "overflow"
  BY DEF NoCall, CallRec, AllKinds
<1>5. /\ pc[t] = "end" /\ pc' = [pc EXCEPT ![t] = call[t].ret]
      /\ call' = [call EXCEPT ![t] = NoCall]
      /\ hl_prof_on' = hl_prof_on /\ UNCHANGED toggleVars
      /\ UNCHANGED <<session_open, session_id, poolVars, consumerVars, recordVars, drained>>
  BY DEF writer_end
<1> QED
  BY <1>2, <1>3, <1>4, <1>5, Globals, QuietThread

LEMMA SetRecordingDrain == ASSUME NEW t \in Threads, IInv, DInv, SetRecording(t) PROVE DInv'
<1>1. PICK k \in {"pause", "resume"} : call' = [call EXCEPT ![t] = [NoCall EXCEPT !.kind = k]]
  BY DEF SetRecording
<1>2. \E c \in CallRec : call' = [call EXCEPT ![t] = c] /\ c.index = None /\ c.kind # "overflow"
  BY <1>1, NoCallRec
<1>3. "toggleLock" \in Pcs \ {"pop", "full", "link", "fresh"}
  BY DEF Pcs, TogglePc
<1>4. /\ pc[t] = "idle" /\ pc' = [pc EXCEPT ![t] = "toggleLock"] /\ threads' = threads
      /\ hl_prof_on' = hl_prof_on /\ UNCHANGED toggleVars
      /\ UNCHANGED <<session_open, session_id, poolVars, consumerVars, recordVars, drained>>
  BY DEF SetRecording
<1> QED
  BY <1>2, <1>3, <1>4, Globals, QuietThread

\* The RECORDING event of a pause or a resume.
LEMMA EventDrain ==
    ASSUME NEW t \in Threads, NEW n \in {"toggleOff", "toggleDone"}, RecordingEvent(t, n)
    PROVE  /\ call' = call \/ \E k \in CallRec :
                 call' = [call EXCEPT ![t] = k] /\ k.index = None /\ k.kind # "overflow"
           /\ \E l \in Pcs \ {"pop", "full", "link", "fresh"} : pc' = [pc EXCEPT ![t] = l]
<1>1. AfterCompare(t) \in Pcs \ {"pop", "full", "link", "fresh"}
  BY DEF AfterCompare, Pcs
<1>2. n \in Pcs \ {"pop", "full", "link", "fresh"}
  BY DEF Pcs, TogglePc
<1> QED
  BY <1>1, <1>2, NoCallRec DEF RecordingEvent

LEMMA ToggleDrain == ASSUME NEW t \in Threads, IInv, DInv, Toggle(t) PROVE DInv'
<1> USE DEF Pcs, TogglePc
<1>1. CASE toggle_lock(t)
  BY <1>1, Globals, QuietThread DEF toggle_lock, WriterPc
<1>2. CASE ToggleCheck(t)
  <2>1. /\ call' = call \/ \E k \in CallRec :
                 call' = [call EXCEPT ![t] = k] /\ k.index = None /\ k.kind # "overflow"
        /\ \E l \in Pcs \ {"pop", "full", "link", "fresh"} : pc' = [pc EXCEPT ![t] = l]
    <3>1. RecordingEvent(t, "toggleOff")
             \/ (call' = call /\ \E l \in {"idle", "toggleOn"} : pc' = [pc EXCEPT ![t] = l])
      BY <1>2 DEF ToggleCheck
    <3> QED
      BY <3>1, EventDrain
  <2> QED
    BY <1>2, <2>1, Globals, QuietThread DEF ToggleCheck, WriterPc
<1>3. CASE ToggleOff(t)
  BY <1>3, Globals, QuietThread DEF ToggleOff, WriterPc
<1>4. CASE ToggleOn(t)
  BY <1>4, Globals, QuietThread DEF ToggleOn, WriterPc
<1>5. CASE ToggleRecheck(t)
  <2>1. /\ call' = call \/ \E k \in CallRec :
                 call' = [call EXCEPT ![t] = k] /\ k.index = None /\ k.kind # "overflow"
        /\ \E l \in Pcs \ {"pop", "full", "link", "fresh"} : pc' = [pc EXCEPT ![t] = l]
    <3>1. RecordingEvent(t, "toggleDone") \/ (call' = call /\ pc' = [pc EXCEPT ![t] = "idle"])
      BY <1>5 DEF ToggleRecheck
    <3> QED
      BY <3>1, EventDrain
  <2> QED
    BY <1>5, <2>1, Globals, QuietThread DEF ToggleRecheck, WriterPc
<1>6. CASE ToggleDone(t)
  BY <1>6, Globals, QuietThread DEF ToggleDone, WriterPc
<1> QED
  BY <1>1, <1>2, <1>3, <1>4, <1>5, <1>6 DEF Toggle

\* A thread asks for a chunk, finds none, and waits or gives up.
LEMMA NoRoomDrain == ASSUME NEW t \in Threads, IInv, DInv, NoRoom(t) PROVE DInv'
<1>1. Place(t) /\ threads[t] \in ThreadRec /\ call[t] \in CallRec
  BY SameRec DEF DInv, PlaceInv
<1>2. threads[t].dropped => threads[t].chunk # None
  BY <1>1 DEF Place
<1>3. threads = [threads EXCEPT ![t] = threads[t]] /\ call = [call EXCEPT ![t] = call[t]]
  BY SameRec DEF DInv
<1>4. QuietStep(t)
  BY <1>1, <1>2, <1>3 DEF NoRoom, QuietStep, Place, SameRecord, Pcs, WriterPc, DInv, TypeOK
<1> QED
  BY <1>4, QuietKeeps

LEMMA PopEmptyDrain ==
    ASSUME NEW t \in Threads, IInv, DInv, pool_pop(t), free = <<>> PROVE DInv'
<1>1. Place(t) /\ threads[t] \in ThreadRec /\ call[t] \in CallRec
  BY SameRec DEF DInv, PlaceInv
<1>2. threads[t].dropped => threads[t].chunk # None
  BY <1>1 DEF Place
<1>3. threads = [threads EXCEPT ![t] = threads[t]] /\ call = [call EXCEPT ![t] = call[t]]
  BY SameRec DEF DInv
<1>4. QuietStep(t)
  BY <1>1, <1>2, <1>3 DEF pool_pop, QuietStep, Place, SameRecord, Pcs, WriterPc, DInv, TypeOK
<1> QED
  BY <1>4, QuietKeeps

LEMMA FullDrain == ASSUME NEW t \in Threads, IInv, DInv, Full(t) PROVE DInv'
<1>1. Place(t) /\ threads[t] \in ThreadRec /\ call[t] \in CallRec
  BY SameRec DEF DInv, PlaceInv
<1>2. threads[t].dropped => threads[t].chunk # None
  BY <1>1 DEF Place
<1>3. threads = [threads EXCEPT ![t] = threads[t]] /\ call = [call EXCEPT ![t] = call[t]]
  BY SameRec DEF DInv
<1>4. pc[t] = "full" /\ ~Room(t)
  BY <1>1 DEF Full, Place
<1>5. CASE call[t].wait /\ hl_prof_on
  <2>1. /\ [call[t] EXCEPT !.stalled = TRUE] \in CallRec
        /\ [call[t] EXCEPT !.stalled = TRUE].index = call[t].index
        /\ [call[t] EXCEPT !.stalled = TRUE].kind = call[t].kind
    BY <1>1 DEF CallRec
  <2>2. \E k \in CallRec :
          /\ call' = [call EXCEPT ![t] = k] /\ k.index = call[t].index
          /\ k.kind = "overflow" => threads[t].chunk # None /\ pc'[t] \in WriterPc \cup {"end"}
    BY <1>1, <1>4, <1>5, <2>1 DEF Full, Place, WriterPc, DInv, TypeOK
  <2>3. QuietStep(t)
    BY <1>1, <1>2, <1>3, <1>4, <1>5, <2>2
       DEF Full, QuietStep, SameRecord, Pcs, WriterPc, DInv, TypeOK
  <2> QED
    BY <2>3, QuietKeeps
<1>6. CASE ~(call[t].wait /\ hl_prof_on)
  <2>1. PICK d \in AfterDropped(call[t].kind, threads[t].dropped) :
           threads' = [threads EXCEPT ![t].dropped = d]
    BY <1>6 DEF Full
  <2>2. d \in BOOLEAN /\ (d => threads[t].chunk # None)
    BY <1>1, <1>2, <2>1 DEF AfterDropped, Place, ThreadRec
  <2>3. /\ [threads[t] EXCEPT !.dropped = d] \in ThreadRec
        /\ [threads[t] EXCEPT !.dropped = d].dropped = d
        /\ [threads[t] EXCEPT !.dropped = d].chunk = threads[t].chunk
        /\ SameRecord([threads[t] EXCEPT !.dropped = d], threads[t])
    BY <1>1, <2>2 DEF ThreadRec, SameRecord
  <2>4. QuietStep(t)
    BY <1>1, <1>3, <1>4, <1>6, <2>1, <2>2, <2>3
       DEF Full, QuietStep, Place, Pcs, WriterPc, DInv, TypeOK
  <2> QED
    BY <2>4, QuietKeeps
<1> QED
  BY <1>5, <1>6

\* thread_state finds the state of this session.
LEMMA SameStateDrain ==
    ASSUME NEW t \in Threads, IInv, DInv, thread_state(t), threads[t].session = session_id
    PROVE  DInv'
BY Globals, QuietThread DEF thread_state, Pcs, WriterPc
-----------------------------------------------------------------------------
(* Steps of the consumer that leave the threads alone. *)

LEMMA ControlKeeps ==
    ASSUME IInv, DInv, UNCHANGED <<session_id, poolVars, recordVars, threadVars, drained>>,
           hl_prof_on' \in BOOLEAN, session_open' \in BOOLEAN, registry_lock' \in BOOLEAN,
           recording_changes' = recording_changes,
           recording_toggle' \in Threads \cup {"stop", Nobody},
           cpc' \in {"idle", "opening", "starting", "stopped", "drain", "pos", "finished", "done"}
                    \cup StopPc,
           todo' \subseteq Threads, reading' \in Threads \cup {Nobody}, ConsumerInv', FinalInv'
    PROVE  DInv'
<1>1. TypeOK'
  BY DEF DInv, TypeOK
<1>2. PlaceInv'
  BY DEF DInv, PlaceInv, Place, Room
<1>3. PICK own \in Owners, off \in Offsets : ChainInv(own, off)
  BY DEF DInv
<1>4. PoolInv(own)'
  BY <1>3 DEF ChainInv, PoolInv
<1>5. ASSUME NEW u \in Threads PROVE ThreadInv(u, own, off)'
  <2>1. SameThread(u) /\ SameChunks(u, own, off, own, off)
    BY DEF SameThread, SameChunks
  <2> QED
    BY <1>3, <2>1, ThreadFrame DEF DInv, ChainInv
<1> QED
  BY <1>1, <1>2, <1>4, <1>5 DEF DInv, ChainInv

\* hl_prof_start opens the session and turns recording on; hl_prof_stop closes it.
LEMMA StartStopDrain ==
    ASSUME IInv, IInv', DInv, StartOpen \/ StartOn \/ Stop \/ StopOff \/ StopToggle \/ StopOffAgain
    PROVE  DInv'
<1> USE DEF StartOpen, StartOn, Stop, StopOff, StopToggle, StopOffAgain
<1>1. /\ UNCHANGED <<session_id, poolVars, recordVars, threadVars, drained, todo, reading,
                     registry_lock, recording_changes>>
      /\ hl_prof_on' \in BOOLEAN /\ session_open' \in BOOLEAN
      /\ recording_toggle' \in Threads \cup {"stop", Nobody}
  BY DEF DInv, TypeOK
<1>2. cpc' \in {"idle", "starting"} \cup StopPc /\ cpc' # "stopRelease"
  BY DEF StopPc
<1>3. ConsumerInv'
  BY <1>1, <1>2 DEF DInv, ConsumerInv, StopPc
<1>4. ~Stopped'
  BY DEF Stopped, IInv, QuietInv, StopPc
<1>5. FinalInv'
  <2>1. session_open' \/ cpc' \in {"stopToggle", "stopOffAgain", "stopWait", "stopOff"}
    BY <1>4 DEF Stopped
  <2> QED
    BY <1>2, <1>4, <2>1 DEF FinalInv, StopPc
<1>6. todo' \subseteq Threads /\ registry_lock' \in BOOLEAN /\ reading' \in Threads \cup {Nobody}
  BY <1>1 DEF DInv, TypeOK
<1> QED
  BY <1>1, <1>2, <1>3, <1>5, <1>6, ControlKeeps DEF StopPc

\* The stop has waited for the writers: what is not to be released is of another
\* session or has exited, and an exited thread holds nothing back.
LEMMA StopWaitDrain == ASSUME IInv, DInv, StopWait PROVE DInv'
<1> USE DEF StopWait
<1>1. ConsumerInv'
  BY DEF ConsumerInv, InSession
<1>2. ~session_open
  BY DEF IInv, QuietInv, StopPc
<1>3. \A t \in Threads : threads[t].exited => threads[t].held = None /\ ~threads[t].dropped
  BY DEF DInv, PlaceInv, Place
<1>4. FinalInv'
  BY <1>3 DEF FinalInv, InSession
<1> QED
  BY <1>1, <1>4, ControlKeeps DEF DInv, TypeOK, StopPc, InSession

\* Every thread is released.
LEMMA StopDoneDrain == ASSUME IInv, DInv, StopDone PROVE DInv'
<1>1. ConsumerInv'
  BY DEF StopDone, ConsumerInv
<1>2. FinalInv'
  BY DEF StopDone, FinalInv, DInv, Stopped
<1> QED
  BY <1>1, <1>2, ControlKeeps DEF StopDone, DInv, TypeOK, StopPc

\* A drain begins, of an open session or after a stop, and ends.
LEMMA DrainDrain == ASSUME IInv, DInv, Drain PROVE DInv'
<1>1. ConsumerInv'
  BY DEF Drain, ConsumerInv
<1>2. FinalInv'
  BY DEF Drain, FinalInv, DInv, Stopped
<1> QED
  BY <1>1, <1>2, ControlKeeps DEF Drain, DInv, TypeOK, StopPc

LEMMA DrainEndDrain == ASSUME IInv, DInv, DrainEnd PROVE DInv'
<1>1. ConsumerInv'
  BY DEF DrainEnd, ConsumerInv
<1>2. FinalInv'
  BY DEF DrainEnd, FinalInv, DInv, Stopped
<1> QED
  BY <1>1, <1>2, ControlKeeps DEF DrainEnd, DInv, TypeOK, StopPc
-----------------------------------------------------------------------------
(* A thread gets a state of the session; a session starts. *)

\* Thread u is as it was.
Untouched(u) == threads'[u] = threads[u] /\ call'[u] = call[u] /\ pc'[u] = pc[u]

LEMMA PlaceFrame == ASSUME NEW u, Untouched(u), Place(u) PROVE Place(u)'
BY DEF Untouched, Place, Room

\* The steps of thread t leave the others alone.
LEMMA OthersUntouched ==
    ASSUME TypeOK, NEW t \in Threads, NEW r, NEW k, NEW l, threads' = [threads EXCEPT ![t] = r],
           call' = [call EXCEPT ![t] = k], pc' = [pc EXCEPT ![t] = l]
    PROVE  /\ \A u \in Threads : u # t => Untouched(u)
           /\ threads'[t] = r /\ call'[t] = k /\ pc'[t] = l
BY DEF TypeOK, Untouched

LEMMA NewStateDrain ==
    ASSUME NEW t \in Threads, IInv, DInv, thread_state(t), threads[t].session # session_id
    PROVE  DInv'
<1> USE DEF thread_state
<1>1. /\ threads' = [threads EXCEPT ![t] = Reset(session_id)]
      /\ call' = [call EXCEPT ![t] = call[t]] /\ pc' = [pc EXCEPT ![t] = "mark"]
  BY SameRec DEF DInv
<1>3. /\ UNCHANGED <<sessionVars, toggleVars, poolVars, consumerVars, recordVars, call, drained>>
      /\ pc[t] = "state" /\ ~registry_lock
  OBVIOUS
<1> HIDE DEF thread_state
<1>2. /\ \A u \in Threads : u # t => Untouched(u)
      /\ threads'[t] = Reset(session_id) /\ call'[t] = call[t] /\ pc'[t] = "mark"
  <2>1. TypeOK
    BY DEF DInv
  <2>2. PICK r : r = Reset(session_id)
    OBVIOUS
  <2>3. threads' = [threads EXCEPT ![t] = r]
    BY <1>1, <2>2
  <2> QED
    BY <1>1, <2>1, <2>2, <2>3, OthersUntouched
<1>4. Reset(session_id) \in ThreadRec
  BY SizeAssumption DEF Reset, ThreadRec, None, DInv, TypeOK
<1>5. TypeOK'
  <2>1. threads' \in [Threads -> ThreadRec'] /\ pc' \in [Threads -> Pcs]
    BY <1>1, <1>3, <1>4 DEF DInv, TypeOK, ThreadRec, Pcs
  <2> QED
    BY <1>3, <2>1 DEF DInv, TypeOK, ThreadRec, Pcs
<1>6. Place(t) /\ call[t].index = None
  BY <1>3 DEF DInv, PlaceInv, Place
<1>7. PlaceInv'
  <2>1. Place(t)'
    BY <1>2, <1>6, <1>3 DEF Place, Reset, WriterPc
  <2> QED
    BY <1>2, <2>1, PlaceFrame DEF DInv, PlaceInv
<1>8. ConsumerInv'
  BY <1>3 DEF DInv, ConsumerInv
<1>9. FinalInv'
  BY <1>2, <1>3 DEF DInv, FinalInv, Stopped, Untouched, Reset
<1>10. PICK own \in Owners, off \in Offsets : ChainInv(own, off)
  BY DEF DInv
<1>11. PoolInv(own)'
  BY <1>2, <1>3, <1>10 DEF ChainInv, PoolInv, Untouched
<1>12. ASSUME NEW u \in Threads, u # t PROVE ThreadInv(u, own, off)'
  <2>1. SameThread(u) /\ SameChunks(u, own, off, own, off)
    BY <1>2, <1>3, <1>12 DEF SameThread, SameChunks, Untouched
  <2> QED
    BY <1>2, <1>10, <1>12, <2>1, ThreadFrame DEF DInv, ChainInv, Untouched
<1>13. ThreadInv(t, own, off)'
  <2>1. ThreadInv(t, own, off) /\ ~Live(t)
    BY <1>10 DEF ChainInv, Live
  <2>2. \A c : ~InChain(c, t, own)'
    BY <1>2, <1>3, <2>1 DEF ThreadInv, ChainEnds, InChain
  <2>3. ~Live(t)'
    BY <1>2 DEF Live, Reset
  <2> QED
    BY <1>3, <2>1, <2>2, <2>3 DEF ThreadInv, ChainEnds, ChainLinks, ChainPreds, ChainOrder,
       ChainFirst, ChainContent, ChainProgress
<1> QED
  BY <1>5, <1>7, <1>8, <1>9, <1>11, <1>12, <1>13 DEF DInv, ChainInv

\* Every chunk is free and every thread has the state of another session.
LEMMA StartDrain == ASSUME IInv, DInv, Start PROVE DInv'
<1> DEFINE own1 == [c \in Chunks |-> Nobody]
           off1 == [c \in Chunks |-> 0]
<1>1. /\ session_id' = session_id + 1 /\ session_id \in Nat
      /\ free' = [i \in 1 .. ChunkCount |-> i - 1]
      /\ chunks' = [c \in Chunks |-> [chunks[c] EXCEPT !.finished = FALSE]]
      /\ log' = [t \in Threads |-> <<>>] /\ drained' = [t \in Threads |-> <<>>]
      /\ UNCHANGED <<hl_prof_on, session_open, toggleVars, todo, reading, registry_lock, mem,
                     count, threadVars>>
      /\ cpc = "idle" /\ cpc' = "opening" /\ ~session_open
  BY DEF Start, pool_reset, DInv, TypeOK
<1>2. \A t \in Threads : pc[t] \notin WriterPc
  BY <1>1 DEF IInv, QuietInv, Stopped
<1>3. TypeOK'
  <2>1. free' \in Seq(Chunks)
    <3>1. ChunkCount \in Nat /\ \A i \in 1 .. ChunkCount : i - 1 \in Chunks
      BY SizeAssumption DEF Chunks
    <3>2. [i \in 1 .. ChunkCount |-> i - 1] \in [1 .. ChunkCount -> Chunks]
      BY <3>1
    <3>3. free' \in [1 .. ChunkCount -> Chunks] /\ ChunkCount \in Nat
      BY <1>1, <3>1, <3>2
    <3>4. Seq(Chunks) = UNION {[1 .. n -> Chunks] : n \in Nat}
      BY SeqDef
    <3> QED
      BY <3>3, <3>4, Zenon
  <2>2. chunks' \in [Chunks -> [finished : BOOLEAN, size : 0 .. ChunkSize, next : Chunks]]
    <3> DEFINE Rec == [finished : BOOLEAN, size : 0 .. ChunkSize, next : Chunks]
    <3>1. \A c \in Chunks : chunks[c] \in Rec
      BY DEF DInv, TypeOK
    <3>2. \A x \in Rec : [x EXCEPT !.finished = FALSE] \in Rec
      OBVIOUS
    <3> HIDE DEF Rec
    <3>3. chunks' \in [Chunks -> Rec]
      BY <1>1, <3>1, <3>2
    <3> QED
      BY <3>3 DEF Rec
  <2>3. threads' \in [Threads -> ThreadRec']
    <3>1. 0 .. session_id \subseteq 0 .. session_id'
      BY <1>1
    <3>2. threads \in [Threads -> ThreadRec]
      BY DEF DInv, TypeOK, ThreadRec
    <3> QED
      BY <1>1, <3>1, <3>2 DEF ThreadRec
  <2>4. log' \in [Threads -> Seq(Record)] /\ drained' \in [Threads -> Seq(Record \cup {Blank})]
    BY <1>1
  <2>5. cpc' \in {"idle", "opening", "starting", "stopped", "drain", "pos", "finished", "done"}
                \cup StopPc /\ session_id' \in Nat
    BY <1>1
  <2> HIDE DEF own1, off1
  <2> QED
    BY <1>1, <2>1, <2>2, <2>3, <2>4, <2>5 DEF DInv, TypeOK, ThreadRec
<1>4. PlaceInv'
  BY <1>1 DEF DInv, PlaceInv, Place, Room
<1>5. ConsumerInv'
  BY <1>1 DEF ConsumerInv
<1>6. \A t \in Threads : threads'[t].session # session_id'
  BY <1>1 DEF DInv, TypeOK
<1>7. FinalInv'
  BY <1>1, <1>6 DEF FinalInv, Stopped
<1>8. own1 \in Owners /\ off1 \in Offsets
  BY DEF Owners, Offsets
<1>9. PoolInv(own1)'
  <2>1. Len(free') = ChunkCount /\ \A i \in 1 .. ChunkCount : free'[i] = i - 1
    BY <1>1, SizeAssumption
  <2>2. \A c \in Chunks : c + 1 \in 1 .. ChunkCount /\ free'[c + 1] = c
    BY <2>1, SizeAssumption DEF Chunks
  <2>3. \A i \in 1 .. ChunkCount : free'[i] \in Chunks
    BY <2>1, SizeAssumption DEF Chunks
  <2>4. \A i, j \in 1 .. ChunkCount : free'[i] = free'[j] => i = j
    BY <2>1, SizeAssumption
  <2> QED
    BY <1>1, <1>2, <2>1, <2>2, <2>3, <2>4 DEF PoolInv, WriterPc
<1>10. ASSUME NEW t \in Threads PROVE ThreadInv(t, own1, off1)'
  <2>1. \A c : ~InChain(c, t, own1)'
    BY NobodyAssumption DEF InChain
  <2>2. ~Live(t)'
    BY <1>6 DEF Live
  <2>3. log'[t] = <<>> /\ drained'[t] = <<>>
    BY <1>1
  <2> QED
    BY <2>1, <2>2, <2>3 DEF ThreadInv, ChainEnds, ChainLinks, ChainPreds, ChainOrder,
       ChainFirst, ChainContent, ChainProgress
<1> HIDE DEF own1, off1
<1> QED
  BY <1>3, <1>4, <1>5, <1>7, <1>8, <1>9, <1>10 DEF DInv, ChainInv

-----------------------------------------------------------------------------
(* Records. *)

\* Where a thread with a chunk writes.
LEMMA CurrentCell ==
    ASSUME NEW t \in Threads, TypeOK, PlaceInv, threads[t].chunk # None
    PROVE  /\ threads[t].chunk \in Chunks /\ threads[t].cur \in Cells /\ threads[t].pos \in Cells
           /\ threads[t].cur \in Nat /\ threads[t].pos \in Nat
           /\ chunk_data(threads[t].chunk) \in Nat
           /\ threads[t].cur - chunk_data(threads[t].chunk) \in 0 .. ChunkSize - 1
           /\ threads[t].pos - chunk_data(threads[t].chunk) \in
                 0 .. threads[t].cur - chunk_data(threads[t].chunk)
<1> DEFINE s == threads[t]
           b == chunk_data(s.chunk)
<1>1. s.chunk \in Chunks /\ s.cur \in Cells \cup {None} /\ s.pos \in Cells \cup {None}
  BY DEF TypeOK
<1>2. b \in Nat
  BY <1>1, CellFacts
<1>3. b <= s.pos /\ s.pos <= s.cur /\ s.cur < b + ChunkSize
  BY DEF PlaceInv, Place
<1>4. \A x \in Cells \cup {None} : x \in Int /\ (x >= 0 => x \in Cells)
  BY SizeAssumption DEF Cells, None
<1>5. s.cur \in Int /\ s.pos \in Int
  BY <1>1, <1>4
<1> HIDE DEF s, b
<1>6. s.cur >= 0 /\ s.pos >= 0
  BY <1>2, <1>3, <1>5
<1>7. s.cur - b \in 0 .. ChunkSize - 1 /\ s.pos - b \in 0 .. s.cur - b
  BY <1>2, <1>3, <1>5, SizeAssumption
<1>8. s.cur \in Cells /\ s.pos \in Cells /\ s.cur \in Nat /\ s.pos \in Nat
  BY <1>1, <1>4, <1>5, <1>6
<1> QED
  BY <1>1, <1>2, <1>7, <1>8 DEF s, b

\* A record written by t is not in a chunk of another thread, nor in another chunk.
LEMMA PutElsewhere ==
    ASSUME NEW t \in Threads, TypeOK, NEW d \in Chunks, NEW i \in 0 .. ChunkSize - 1,
           NEW v, mem' = [mem EXCEPT ![chunk_data(d) + i] = v]
    PROVE  /\ mem'[chunk_data(d) + i] = v
           /\ \A c \in Chunks, j \in 0 .. ChunkSize - 1 :
                 c # d \/ j # i => mem'[chunk_data(c) + j] = mem[chunk_data(c) + j]
<1>1. \A c \in Chunks, j \in 0 .. ChunkSize - 1 : chunk_data(c) + j \in DOMAIN mem
  BY CellFacts DEF TypeOK
<1>2. \A c \in Chunks, j \in 0 .. ChunkSize - 1 :
         c # d \/ j # i => chunk_data(c) + j # chunk_data(d) + i
  BY CellDisjoint
<1> QED
  BY <1>1, <1>2

\* The records of the earlier chunks come before those of the last.
LEMMA BeforeLast ==
    ASSUME NEW t \in Threads, NEW own \in Owners, NEW off \in Offsets, TypeOK, PlaceInv,
           ThreadInv(t, own, off), NEW c \in Chunks, InChain(c, t, own)
    PROVE  /\ Used(c, t) \in 0 .. ChunkSize - 1 /\ off[c] \in Nat /\ Live(t)
           /\ off[c] + Used(c, t) <= Len(log[t])
           /\ c # WriteTo(t) =>
                 off[c] + chunks[c].size <= off[WriteTo(t)] /\ off[WriteTo(t)] <= Len(log[t])
           /\ WriteTo(t) \in Chunks
<1>1. Live(t)
  BY DEF ThreadInv, ChainEnds
<1>2. InChain(WriteTo(t), t, own) /\ WriteTo(t) \in Chunks
  BY <1>1 DEF ThreadInv, ChainEnds, InChain
<1>3. off[c] \in Nat /\ off[WriteTo(t)] \in Nat
  BY <1>2 DEF Offsets
<1>4. ASSUME c = WriteTo(t) PROVE Used(c, t) \in 0 .. ChunkSize - 1
  <2>1. CASE pc[t] = "fresh"
    BY <1>4, <2>1, SizeAssumption DEF Used
  <2>2. CASE pc[t] # "fresh"
    <3>1. c = threads[t].chunk /\ threads[t].chunk # None
      BY <1>4, <2>2, SizeAssumption DEF WriteTo, None, Chunks
    <3> QED
      BY <1>4, <2>2, <3>1, CurrentCell DEF Used
  <2> QED
    BY <2>1, <2>2
<1>5. ASSUME c # WriteTo(t) PROVE Used(c, t) \in 0 .. ChunkSize - 1 /\ Used(c, t) = chunks[c].size
  BY <1>5, SizeAssumption DEF ThreadInv, ChainLinks, Used
<1>6. Used(WriteTo(t), t) \in 0 .. ChunkSize - 1
  <2>1. CASE pc[t] = "fresh"
    BY <2>1, SizeAssumption DEF Used
  <2>2. CASE pc[t] # "fresh"
    <3>1. WriteTo(t) = threads[t].chunk /\ threads[t].chunk # None
      BY <1>2, <2>2, SizeAssumption DEF WriteTo, None, Chunks
    <3> QED
      BY <2>2, <3>1, CurrentCell DEF Used
  <2> QED
    BY <2>1, <2>2
<1>7. off[WriteTo(t)] + Used(WriteTo(t), t) = Len(log[t])
  BY <1>1 DEF ThreadInv, ChainContent
<1>8. ASSUME c # WriteTo(t) PROVE off[c] + chunks[c].size <= off[WriteTo(t)]
  BY <1>2, <1>8 DEF ThreadInv, ChainOrder
<1>9. Len(log[t]) \in Nat
  BY <1>3, <1>6, <1>7, SizeAssumption
<1> QED
  BY <1>1, <1>2, <1>3, <1>4, <1>5, <1>6, <1>7, <1>8, <1>9, SizeAssumption

\* Thread t writes a record in its chunk and publishes it or not.
Recorded(t) ==
    /\ Live(t) /\ threads[t].chunk # None /\ Room(t)
    /\ pc[t] \notin {"link", "fresh"} /\ pc'[t] \notin {"link", "fresh"}
    /\ Put(t, threads[t].cur)
    /\ UNCHANGED <<session_id, chunks, drained>>
    /\ threads'[t].session = threads[t].session /\ threads'[t].chunk = threads[t].chunk
    /\ threads'[t].first_chunk = threads[t].first_chunk
    /\ threads'[t].read_chunk = threads[t].read_chunk
    /\ threads'[t].read_offset = threads[t].read_offset
    /\ threads'[t].cur = threads[t].cur + 1
    /\ threads'[t].pos \in {threads[t].pos, threads[t].cur + 1}

LEMMA FreshRecord ==
    ASSUME TypeOK, NEW t \in Threads
    PROVE  Fresh(t) \in Record /\ count[t] + 1 \in Nat
<1>1. count[t] \in Nat
  BY DEF TypeOK
<1> QED
  BY <1>1 DEF Fresh, Record

\* The types of what a record changes.
LEMMA PutType ==
    ASSUME TypeOK, NEW t \in Threads, NEW a \in Cells, Put(t, a)
    PROVE  /\ mem' \in [Cells -> Record \cup {Blank}]
           /\ log' \in [Threads -> Seq(Record)] /\ count' \in [Threads -> Nat]
           /\ log'[t] = Append(log[t], Fresh(t))
           /\ \A u \in Threads : u # t => log'[u] = log[u]
           /\ mem' = [mem EXCEPT ![a] = Fresh(t)]
<1>1. Fresh(t) \in Record /\ count[t] + 1 \in Nat
  BY FreshRecord
<1>2. log[t] \in Seq(Record)
  BY DEF TypeOK
<1>3. Append(log[t], Fresh(t)) \in Seq(Record)
  BY <1>1, <1>2
<1> QED
  BY <1>1, <1>3 DEF TypeOK, Put

LEMMA RecordedChain ==
    ASSUME NEW t \in Threads, NEW own \in Owners, NEW off \in Offsets, TypeOK, PlaceInv,
           ThreadInv(t, own, off), Recorded(t)
    PROVE  ThreadInv(t, own, off)'
<1> DEFINE s == threads[t]
           b == chunk_data(s.chunk)
           n == s.cur - b
<1>1. /\ s.chunk \in Chunks /\ s.cur \in Cells /\ b \in Nat /\ s.cur \in Nat
      /\ n \in 0 .. ChunkSize - 1 /\ s.pos - b \in 0 .. n /\ s.pos \in Nat
  BY CurrentCell DEF Recorded
<1>2. n + 1 \in 0 .. ChunkSize - 1 /\ s.cur = b + n
  BY <1>1, SizeAssumption DEF Recorded, Room
<1>3. /\ mem' = [mem EXCEPT ![b + n] = Fresh(t)]
      /\ log'[t] = Append(log[t], Fresh(t))
  BY <1>1, <1>2, PutType DEF Recorded
<1>4. /\ mem'[b + n] = Fresh(t)
      /\ \A c \in Chunks, j \in 0 .. ChunkSize - 1 :
            c # s.chunk \/ j # n => mem'[chunk_data(c) + j] = mem[chunk_data(c) + j]
  BY <1>1, <1>3, PutElsewhere
<1>5. /\ Len(log'[t]) = Len(log[t]) + 1 /\ Len(log[t]) \in Nat
      /\ \A i \in 1 .. Len(log[t]) : log'[t][i] = log[t][i]
      /\ log'[t][Len(log[t]) + 1] = Fresh(t)
  <2>1. log[t] \in Seq(Record) /\ Fresh(t) \in Record
    BY FreshRecord DEF TypeOK
  <2> QED
    BY <1>3, <2>1, Appended
<1>6. /\ Live(t)' = Live(t) /\ ReadFrom(t)' = ReadFrom(t)
      /\ WriteTo(t)' = WriteTo(t) /\ WriteTo(t) = s.chunk
  BY DEF Recorded, Live, ReadFrom, WriteTo
<1>7. \A c : InChain(c, t, own)' = InChain(c, t, own)
  BY DEF Recorded, InChain
<1>8. /\ \A c \in Chunks : c = s.chunk => Used(c, t) = n /\ Used(c, t)' = n + 1
      /\ \A c \in Chunks \ {s.chunk} : Used(c, t)' = Used(c, t)
  BY <1>1, <1>6 DEF Recorded, Used
<1>9. Live(t) /\ chunks' = chunks /\ drained' = drained
      /\ threads'[t].chunk = s.chunk /\ threads'[t].read_offset = s.read_offset
  BY DEF Recorded
<1>10. ChainEnds(t, own)'
  BY <1>6, <1>7, <1>9 DEF ThreadInv, ChainEnds
<1>11. ChainLinks(t, own, off)'
  BY <1>6, <1>7, <1>9 DEF ThreadInv, ChainLinks, Recorded
<1>12. ChainPreds(t, own)'
  BY <1>6, <1>7, <1>9 DEF ThreadInv, ChainPreds
<1>13. ChainOrder(t, own, off)'
  BY <1>6, <1>7, <1>9 DEF ThreadInv, ChainOrder
<1>14. ChainFirst(t, own, off)'
  BY <1>6, <1>7, <1>9 DEF ThreadInv, ChainFirst
<1>15. off[s.chunk] + n = Len(log[t]) /\ off[s.chunk] \in Nat
  BY <1>1, <1>6, <1>8, <1>9 DEF ThreadInv, ChainContent, Offsets
<1> HIDE DEF n
<1>16. ChainContent(t, own, off)'
  <2>1. \A c \in Chunks : c = s.chunk => off[c] + Used(c, t)' = Len(log'[t])
    <3> SUFFICES ASSUME NEW c \in Chunks, c = s.chunk
                 PROVE  off[c] + Used(c, t)' = Len(log'[t])
      OBVIOUS
    <3>1. Used(c, t)' = n + 1 /\ off[c] + n = Len(log[t]) /\ off[c] \in Nat /\ n \in Nat
      BY <1>1, <1>8, <1>15
    <3>2. Len(log'[t]) = Len(log[t]) + 1
      BY <1>5
    <3>3. off[c] + (n + 1) = Len(log[t]) + 1
      BY <3>1
    <3> QED
      BY <3>1, <3>2, <3>3
  <2>0. off[WriteTo(t)'] + Used(WriteTo(t), t)' = Len(log'[t])
    BY <1>1, <1>6, <2>1
  <2>2. ASSUME NEW c \in Chunks, InChain(c, t, own), NEW j \in 0 .. Used(c, t)' - 1
        PROVE  mem'[chunk_data(c) + j] = log'[t][off[c] + j + 1]
    <3>0. Used(c, t) \in 0 .. ChunkSize - 1 /\ off[c] \in Nat /\ off[c] + Used(c, t) <= Len(log[t])
      BY <2>2, BeforeLast
    <3>1. CASE c = s.chunk /\ j = n
      BY <1>4, <1>5, <1>15, <3>1
    <3>2. CASE ~(c = s.chunk /\ j = n)
      <4>1. j \in 0 .. Used(c, t) - 1 /\ j \in 0 .. ChunkSize - 1
        <5>1. CASE c = s.chunk
          BY <1>1, <1>8, <2>2, <3>2, <5>1, SizeAssumption
        <5>2. CASE c # s.chunk
          BY <1>8, <2>2, <3>0, <5>2, SizeAssumption
        <5> QED
          BY <5>1, <5>2
      <4>2. mem'[chunk_data(c) + j] = mem[chunk_data(c) + j]
        BY <1>4, <3>2, <4>1
      <4>3. mem[chunk_data(c) + j] = log[t][off[c] + j + 1]
        BY <2>2, <4>1 DEF ThreadInv, ChainContent
      <4>4. off[c] + j + 1 \in 1 .. Len(log[t])
        <5>1. \A o, u, i, l \in Nat : i < u /\ o + u <= l => o + i + 1 \in 1 .. l
          OBVIOUS
        <5>2. j \in Nat /\ Used(c, t) \in Nat /\ j < Used(c, t) /\ Len(log[t]) \in Nat
          BY <1>5, <3>0, <4>1, SizeAssumption
        <5> QED
          BY <3>0, <5>1, <5>2
      <4> QED
        BY <1>5, <4>2, <4>3, <4>4
    <3> QED
      BY <3>1, <3>2
  <2> QED
    BY <1>6, <1>7, <2>0, <2>2 DEF ChainContent
<1>17. ChainProgress(t, off)'
  <2>1. ChainProgress(t, off)
    BY DEF ThreadInv
  <2>2. ReadLimit(t) \in Int /\ ReadLimit(t)' \in Int /\ ReadLimit(t) <= ReadLimit(t)'
    <3>1. CASE ReadFrom(t) = s.chunk
      BY <1>1, <1>2, <1>6, <1>9, <3>1 DEF ReadLimit, Recorded, n
    <3>2. CASE ReadFrom(t) # s.chunk
      <4>1. ReadFrom(t) \in Chunks /\ InChain(ReadFrom(t), t, own)
        BY <1>9 DEF ThreadInv, ChainEnds, InChain
      <4>2. Used(ReadFrom(t), t) \in 0 .. ChunkSize - 1
        BY <4>1, BeforeLast
      <4> QED
        BY <1>6, <1>8, <1>9, <3>2, <4>1, <4>2, SizeAssumption DEF ReadLimit
    <3> QED
      BY <3>1, <3>2
  <2>3. s.read_offset \in Int
    BY SizeAssumption DEF TypeOK
  <2>4. Len(drained[t]) \in Nat
    BY DEF TypeOK
  <2>5. \A i \in 1 .. Len(drained[t]) : i \in 1 .. Len(log[t])
    BY <1>5, <2>1, <2>4 DEF ChainProgress
  <2>6. threads'[t].read_offset <= ReadLimit(t)'
    BY <1>9, <2>1, <2>2, <2>3 DEF ChainProgress
  <2> QED
    BY <1>5, <1>6, <1>9, <2>1, <2>4, <2>5, <2>6 DEF ChainProgress
<1> QED
  BY <1>10, <1>11, <1>12, <1>13, <1>14, <1>16, <1>17 DEF ThreadInv

\* The chunks of the others.
LEMMA RecordedOthers ==
    ASSUME NEW t \in Threads, NEW own \in Owners, NEW off \in Offsets, TypeOK, PlaceInv,
           ThreadInv(t, own, off), Recorded(t), NEW u \in Threads, u # t
    PROVE  SameChunks(u, own, off, own, off) /\ log'[u] = log[u] /\ drained'[u] = drained[u]
<1> DEFINE s == threads[t]
           b == chunk_data(s.chunk)
           n == s.cur - b
<1>1. /\ s.chunk \in Chunks /\ s.cur \in Cells /\ b \in Nat /\ s.cur \in Nat
      /\ n \in 0 .. ChunkSize - 1
  BY CurrentCell DEF Recorded
<1>2. mem' = [mem EXCEPT ![b + n] = Fresh(t)] /\ log'[u] = log[u]
  <2>1. s.cur = b + n
    BY <1>1
  <2> QED
    BY <1>1, <2>1, PutType DEF Recorded
<1>3. /\ mem'[b + n] = Fresh(t)
      /\ \A c \in Chunks, j \in 0 .. ChunkSize - 1 :
            c # s.chunk \/ j # n => mem'[chunk_data(c) + j] = mem[chunk_data(c) + j]
  BY <1>1, <1>2, PutElsewhere
<1>4. own[s.chunk] = t
  BY DEF ThreadInv, ChainEnds, InChain, Recorded
<1> HIDE DEF n
<1> QED
  BY <1>2, <1>3, <1>4 DEF SameChunks, Recorded

\* A thread that writes has a published chunk, or none, and recording is not stopped.
LEMMA WriterFacts ==
    ASSUME NEW t \in Threads, IInv, DInv, pc[t] \in WriterPc
    PROVE  /\ ~Stopped /\ ~threads[t].exited /\ threads[t].session = session_id
           /\ threads[t].chunk # None => Live(t)
           /\ threads[t] \in ThreadRec /\ call[t] \in CallRec /\ Place(t)
<1>1. ~Stopped /\ ~threads[t].exited /\ threads[t].session = session_id
  BY DEF IInv, QuietInv, WritingInv, CurrentInv, CurrentPcs, WriterPc
<1>2. threads[t].chunk # None => Live(t)
  BY <1>1 DEF DInv, PlaceInv, Place, Live
<1> QED
  BY <1>1, <1>2, SameRec DEF DInv, PlaceInv

\* Without a stop the invariant of the final drain says nothing.
LEMMA NotStopped == ASSUME ~Stopped' PROVE FinalInv'
BY DEF Stopped, FinalInv

\* The thread goes on in the same chunk.
Stays(t) ==
    /\ threads'[t].session = threads[t].session /\ threads'[t].chunk = threads[t].chunk
    /\ threads'[t].first_chunk = threads[t].first_chunk
    /\ threads'[t].read_chunk = threads[t].read_chunk
    /\ threads'[t].read_offset = threads[t].read_offset
    /\ threads'[t].exited = threads[t].exited
    /\ call'[t].index = call[t].index
    /\ call'[t].kind = "overflow" => threads[t].chunk # None
    /\ threads'[t].held # None =>
          threads'[t].held = threads'[t].pos /\ threads'[t].pos < threads'[t].cur
    /\ threads'[t].held = None => threads'[t].pos = threads'[t].cur
    /\ pc[t] = "write" /\ pc'[t] \in {"write", "end"}

LEMMA StaysKeeps ==
    ASSUME NEW t \in Threads, IInv, DInv, Stays(t), threads[t].chunk # None,
           NEW r \in ThreadRec, threads' = [threads EXCEPT ![t] = r],
           NEW k \in CallRec, call' = [call EXCEPT ![t] = k],
           NEW l \in {"write", "end"}, pc' = [pc EXCEPT ![t] = l],
           UNCHANGED <<sessionVars, toggleVars, poolVars, consumerVars, drained>>,
           mem' \in [Cells -> Record \cup {Blank}], log' \in [Threads -> Seq(Record)],
           count' \in [Threads -> Nat],
           chunk_data(r.chunk) <= r.pos, r.pos <= r.cur, r.cur < chunk_data(r.chunk) + ChunkSize
    PROVE  /\ TypeOK' /\ PlaceInv' /\ ConsumerInv' /\ FinalInv'
           /\ \A own \in Owners : PoolInv(own) => PoolInv(own)'
           /\ \A u \in Threads : u # t => Untouched(u)
<1>1. /\ \A u \in Threads : u # t => Untouched(u)
      /\ threads'[t] = r /\ call'[t] = k /\ pc'[t] = l
  BY OthersUntouched DEF DInv
<1>2. /\ ~Stopped /\ ~threads[t].exited /\ Place(t) /\ pc[t] = "write"
      /\ call[t].index = None
  BY WriterFacts DEF Stays, WriterPc, Place
<1>3. TypeOK'
  <2>1. /\ threads' \in [Threads -> ThreadRec'] /\ call' \in [Threads -> CallRec']
        /\ pc' \in [Threads -> Pcs]
    BY DEF DInv, TypeOK, ThreadRec, CallRec, Pcs, WriterPc
  <2> QED
    BY <2>1 DEF DInv, TypeOK, ThreadRec, CallRec, Pcs
<1>4. PlaceInv'
  <2>1. Place(t)'
    BY <1>1, <1>2 DEF Place, Stays, WriterPc
  <2> QED
    BY <1>1, <2>1, PlaceFrame DEF DInv, PlaceInv
<1>5. ConsumerInv'
  <2>1. WriteTo(reading)' = WriteTo(reading) \/ reading \notin Threads
    BY <1>1, <1>2 DEF WriteTo, Untouched, Stays
  <2> QED
    BY <1>1, <1>2, <2>1 DEF DInv, ConsumerInv, Untouched, Stays
<1>6. ~Stopped'
  BY <1>2 DEF Stopped
<1>7. \A own \in Owners : PoolInv(own) => PoolInv(own)'
  BY <1>1, <1>2 DEF PoolInv, Untouched, Stays
<1> QED
  BY <1>1, <1>3, <1>4, <1>5, <1>6, <1>7, NotStopped

LEMMA RecordKeeps ==
    ASSUME NEW t \in Threads, IInv, DInv, Stays(t), Room(t), Put(t, threads[t].cur),
           NEW r \in ThreadRec, threads' = [threads EXCEPT ![t] = r],
           NEW k \in CallRec, call' = [call EXCEPT ![t] = k],
           NEW l \in {"write", "end"}, pc' = [pc EXCEPT ![t] = l],
           UNCHANGED <<sessionVars, toggleVars, poolVars, consumerVars, drained>>,
           r.cur = threads[t].cur + 1, r.pos \in {threads[t].pos, threads[t].cur + 1}
    PROVE  DInv'
<1>0. /\ \A u \in Threads : u # t => Untouched(u)
      /\ threads'[t] = r /\ call'[t] = k /\ pc'[t] = l
  BY OthersUntouched DEF DInv
<1>1. /\ ~Stopped /\ Place(t) /\ pc[t] = "write" /\ threads[t].session = session_id
      /\ threads[t].chunk # None => Live(t)
  BY WriterFacts DEF Stays, WriterPc
<1>2. threads[t].chunk # None
  BY <1>1 DEF Room, Place
<1>3. TypeOK /\ PlaceInv
  BY DEF DInv
<1>4. /\ threads[t].chunk \in Chunks /\ threads[t].cur \in Cells /\ threads[t].pos \in Cells
      /\ threads[t].cur \in Nat /\ threads[t].pos \in Nat
      /\ chunk_data(threads[t].chunk) \in Nat
      /\ threads[t].cur - chunk_data(threads[t].chunk) \in 0 .. ChunkSize - 1
      /\ threads[t].pos - chunk_data(threads[t].chunk) \in
            0 .. threads[t].cur - chunk_data(threads[t].chunk)
  BY <1>2, <1>3, CurrentCell
<1>5. chunk_data(threads[t].chunk) + ChunkSize - threads[t].cur > 1
  BY DEF Room
<1>6. r.chunk = threads[t].chunk
  BY <1>0 DEF Stays
<1>7. chunk_data(r.chunk) <= r.pos /\ r.pos <= r.cur /\ r.cur < chunk_data(r.chunk) + ChunkSize
  BY <1>4, <1>5, <1>6, SizeAssumption
<1>8. /\ mem' \in [Cells -> Record \cup {Blank}]
      /\ log' \in [Threads -> Seq(Record)] /\ count' \in [Threads -> Nat]
  BY <1>3, <1>4, PutType
<1>9. /\ TypeOK' /\ PlaceInv' /\ ConsumerInv' /\ FinalInv'
      /\ \A own \in Owners : PoolInv(own) => PoolInv(own)'
  BY <1>2, <1>7, <1>8, StaysKeeps
<1>10. Recorded(t)
  BY <1>0, <1>1, <1>2 DEF Recorded, Stays
<1>11. PICK own \in Owners, off \in Offsets : ChainInv(own, off)
  BY DEF DInv
<1>12. ThreadInv(t, own, off)'
  BY <1>3, <1>10, <1>11, RecordedChain DEF ChainInv
<1>13. ASSUME NEW u \in Threads, u # t PROVE ThreadInv(u, own, off)'
  <2>1. SameChunks(u, own, off, own, off) /\ log'[u] = log[u] /\ drained'[u] = drained[u]
    BY <1>3, <1>10, <1>11, <1>13, RecordedOthers DEF ChainInv
  <2>2. SameThread(u)
    BY <1>0, <1>13, <2>1 DEF SameThread, Untouched
  <2> QED
    BY <1>0, <1>3, <1>11, <1>13, <2>1, <2>2, ThreadFrame DEF ChainInv, Untouched
<1>14. ChainInv(own, off)'
  BY <1>9, <1>11, <1>12, <1>13 DEF ChainInv
<1> QED
  BY <1>9, <1>14 DEF DInv

\* write_enter with a minimum call duration.
LEMMA WriteHeldDrain == ASSUME NEW t \in Threads, IInv, DInv, WriteHeld(t) PROVE DInv'
<1> DEFINE s == threads[t]
           r == IF s.held # None THEN [s EXCEPT !.cur = @ + 1]
                ELSE [s EXCEPT !.cur = @ + 1, !.held = s.cur, !.held_recording = recording_changes]
<1>1. /\ pc[t] = "write" /\ Room(t) /\ Put(t, s.cur) /\ threads' = [threads EXCEPT ![t] = r]
      /\ pc' = [pc EXCEPT ![t] = "end"] /\ call' = call
      /\ UNCHANGED <<sessionVars, toggleVars, poolVars, consumerVars, call, drained>>
  BY DEF WriteHeld
<1>2. /\ threads[t] \in ThreadRec /\ call[t] \in CallRec /\ Place(t)
      /\ call = [call EXCEPT ![t] = call[t]] /\ TypeOK /\ PlaceInv
  BY <1>1, WriterFacts, SameRec DEF DInv, WriterPc
<1>3. s.chunk # None
  BY <1>1, <1>2 DEF Room, Place
<1>4. s.cur \in Cells /\ s.cur + 1 \in Cells /\ s.cur \in Nat /\ s.pos \in Nat /\ s.pos <= s.cur
  <2>1. /\ s.chunk \in Chunks /\ s.cur \in Cells /\ s.cur \in Nat /\ chunk_data(s.chunk) \in Nat
        /\ s.cur - chunk_data(s.chunk) \in 0 .. ChunkSize - 1 /\ s.pos \in Nat
        /\ s.pos - chunk_data(s.chunk) \in 0 .. s.cur - chunk_data(s.chunk)
    BY <1>2, <1>3, CurrentCell
  <2>2. (s.cur - chunk_data(s.chunk)) + 1 \in 0 .. ChunkSize - 1
    BY <1>1, <2>1, SizeAssumption DEF Room
  <2>3. chunk_data(s.chunk) + ((s.cur - chunk_data(s.chunk)) + 1) \in Cells
    BY <2>1, <2>2, CellFacts
  <2>4. chunk_data(s.chunk) + ((s.cur - chunk_data(s.chunk)) + 1) = s.cur + 1 /\ s.pos <= s.cur
    BY <2>1
  <2> QED
    BY <2>1, <2>3, <2>4
<1>5. recording_changes \in Nat
  BY Globals
<1>6. /\ r \in ThreadRec /\ r.cur = s.cur + 1 /\ r.pos = s.pos
      /\ r.session = s.session /\ r.chunk = s.chunk /\ r.first_chunk = s.first_chunk
      /\ r.read_chunk = s.read_chunk /\ r.read_offset = s.read_offset /\ r.exited = s.exited
      /\ r.held # None /\ r.held = s.pos
  <2>1. CASE s.held # None
    BY <1>2, <1>4, <2>1 DEF ThreadRec, Place
  <2>2. CASE s.held = None
    <3>1. s.pos = s.cur /\ s.cur # None
      BY <1>1, <1>2, <1>4, <2>2 DEF Place, None
    <3> QED
      BY <1>2, <1>4, <1>5, <2>2, <3>1 DEF ThreadRec
  <2> QED
    BY <2>1, <2>2
<1> HIDE DEF r
<1>7. /\ threads'[t] = r /\ call'[t] = call[t] /\ pc'[t] = "end"
  BY <1>1, <1>2, OthersUntouched
<1>8. Stays(t)
  BY <1>1, <1>2, <1>3, <1>4, <1>6, <1>7 DEF Stays
<1>9. /\ threads' = [threads EXCEPT ![t] = r] /\ call' = [call EXCEPT ![t] = call[t]]
      /\ pc' = [pc EXCEPT ![t] = "end"]
      /\ UNCHANGED <<sessionVars, toggleVars, poolVars, consumerVars, drained>>
      /\ Room(t) /\ Put(t, threads[t].cur)
      /\ r.cur = threads[t].cur + 1 /\ r.pos \in {threads[t].pos, threads[t].cur + 1}
  BY <1>1, <1>2, <1>6
<1>10. r \in ThreadRec /\ call[t] \in CallRec
  BY <1>2, <1>6
<1> HIDE DEF s
<1> QED
  BY <1>8, <1>9, <1>10, RecordKeeps

\* Every other record.
LEMMA WriteKeptDrain == ASSUME NEW t \in Threads, IInv, DInv, WriteKept(t) PROVE DInv'
<1> DEFINE s == threads[t]
<1>1. /\ pc[t] = "write" /\ Room(t) /\ Put(t, s.cur)
      /\ UNCHANGED <<sessionVars, toggleVars, poolVars, consumerVars, drained>>
  BY DEF WriteKept
<1>2. /\ threads[t] \in ThreadRec /\ call[t] \in CallRec /\ Place(t)
      /\ call = [call EXCEPT ![t] = call[t]] /\ pc = [pc EXCEPT ![t] = "write"]
      /\ TypeOK /\ PlaceInv
  <2>1. pc = [pc EXCEPT ![t] = "write"]
    BY <1>1 DEF DInv, TypeOK
  <2> QED
    BY <1>1, <2>1, WriterFacts, SameRec DEF DInv, WriterPc
<1>3. s.chunk # None
  BY <1>1, <1>2 DEF Room, Place
<1>4. s.cur \in Cells /\ s.cur + 1 \in Cells /\ s.cur \in Nat
  <2>1. /\ s.chunk \in Chunks /\ s.cur \in Cells /\ s.cur \in Nat /\ chunk_data(s.chunk) \in Nat
        /\ s.cur - chunk_data(s.chunk) \in 0 .. ChunkSize - 1
    BY <1>2, <1>3, CurrentCell
  <2>2. (s.cur - chunk_data(s.chunk)) + 1 \in 0 .. ChunkSize - 1
    BY <1>1, <2>1, SizeAssumption DEF Room
  <2>3. chunk_data(s.chunk) + ((s.cur - chunk_data(s.chunk)) + 1) \in Cells
    BY <2>1, <2>2, CellFacts
  <2>4. chunk_data(s.chunk) + ((s.cur - chunk_data(s.chunk)) + 1) = s.cur + 1
    BY <2>1
  <2> QED
    BY <2>1, <2>3, <2>4
<1>5. PICK d \in BOOLEAN : threads' = [threads EXCEPT ![t] = [Commit(s, s.cur) EXCEPT !.dropped = d]]
  <2>1. s.dropped \in BOOLEAN
    BY <1>2 DEF ThreadRec
  <2>2. AfterDropped(call[t].kind, s.dropped) \subseteq BOOLEAN
    BY <2>1 DEF AfterDropped
  <2> QED
    BY <2>2 DEF WriteKept
<1> DEFINE r == [Commit(s, s.cur) EXCEPT !.dropped = d]
<1>6. /\ r \in ThreadRec /\ r.cur = s.cur + 1 /\ r.pos = s.cur + 1 /\ r.held = None
      /\ r.session = s.session /\ r.chunk = s.chunk /\ r.first_chunk = s.first_chunk
      /\ r.read_chunk = s.read_chunk /\ r.read_offset = s.read_offset /\ r.exited = s.exited
  BY <1>2, <1>4 DEF ThreadRec, Commit
<1>7. PICK k \in CallRec, l \in {"write", "end"} :
         /\ call' = [call EXCEPT ![t] = k] /\ pc' = [pc EXCEPT ![t] = l]
         /\ k.index = call[t].index
  <2>1. CASE call[t].kind = "frame" /\ s.dropped
    <3>1. /\ [call[t] EXCEPT !.kind = "dropped"] \in CallRec
          /\ [call[t] EXCEPT !.kind = "dropped"].index = call[t].index
      BY <1>2 DEF CallRec
    <3>2. call' = [call EXCEPT ![t] = [call[t] EXCEPT !.kind = "dropped"]] /\ pc' = pc
      BY <2>1 DEF WriteKept
    <3> QED
      BY <1>2, <3>1, <3>2
  <2>2. CASE ~(call[t].kind = "frame" /\ s.dropped)
    BY <1>2, <2>2 DEF WriteKept
  <2> QED
    BY <2>1, <2>2
<1> HIDE DEF r
<1>10. threads' = [threads EXCEPT ![t] = r]
  BY <1>5 DEF r
<1>8. threads'[t] = r /\ call'[t] = k /\ pc'[t] = l
  <2>1. TypeOK
    BY <1>2
  <2> QED
    BY <1>7, <1>10, <2>1, OthersUntouched
<1>9. Stays(t)
  BY <1>1, <1>3, <1>6, <1>7, <1>8 DEF Stays
<1> QED
  BY <1>1, <1>6, <1>7, <1>9, <1>10, RecordKeeps

\* The last record is taken back: it was held, so the consumer has not read it.
LEMMA TakenChain ==
    ASSUME NEW t \in Threads, NEW own \in Owners, NEW off \in Offsets, TypeOK, PlaceInv,
           ThreadInv(t, own, off), Live(t), Stays(t), threads[t].held # None,
           threads'[t].cur = threads[t].cur - 1, threads'[t].pos = threads[t].pos,
           log'[t] = Front(log[t]), UNCHANGED <<session_id, chunks, mem, drained>>
    PROVE  ThreadInv(t, own, off)'
<1> DEFINE s == threads[t]
           b == chunk_data(s.chunk)
           n == s.cur - b
<1>0. s.chunk # None /\ s.pos < s.cur /\ pc[t] = "write" /\ pc'[t] \in {"write", "end"}
  BY DEF PlaceInv, Place, Stays
<1>1. /\ s.chunk \in Chunks /\ b \in Nat /\ s.cur \in Nat
      /\ n \in 0 .. ChunkSize - 1 /\ s.pos - b \in 0 .. n /\ s.pos \in Nat
  BY <1>0, CurrentCell
<1>2. n >= 1 /\ s.pos - b <= n - 1
  BY <1>0, <1>1, SizeAssumption
<1>3. /\ Live(t)' = Live(t) /\ ReadFrom(t)' = ReadFrom(t)
      /\ WriteTo(t)' = WriteTo(t) /\ WriteTo(t) = s.chunk
  BY <1>0 DEF Stays, Live, ReadFrom, WriteTo
<1>4. \A c : InChain(c, t, own)' = InChain(c, t, own)
  BY <1>0 DEF InChain
<1>5. /\ \A c \in Chunks : c = s.chunk => Used(c, t) = n /\ Used(c, t)' = n - 1
      /\ \A c \in Chunks \ {s.chunk} : Used(c, t)' = Used(c, t)
  BY <1>0, <1>1, <1>3 DEF Used
<1>6. off[s.chunk] + n = Len(log[t]) /\ off[s.chunk] \in Nat
  BY <1>1, <1>3, <1>5 DEF ThreadInv, ChainContent, Offsets
<1> HIDE DEF n
<1>7. Len(log[t]) > 0 /\ Len(log[t]) \in Nat
  <2>1. \A m \in Nat : m >= 1 => \A o \in Nat : o + m > 0 /\ o + m \in Nat
    OBVIOUS
  <2>2. n \in Nat
    BY <1>1, SizeAssumption
  <2> QED
    BY <1>2, <1>6, <2>1, <2>2
<1>8. /\ Len(log'[t]) = Len(log[t]) - 1
      /\ \A i \in 1 .. Len(log[t]) - 1 : log'[t][i] = log[t][i]
  <2>1. log[t] \in Seq(Record)
    BY DEF TypeOK
  <2> QED
    BY <1>7, <2>1, TakenBack
<1>9. /\ threads'[t].chunk = s.chunk /\ threads'[t].read_offset = s.read_offset
  BY DEF Stays
<1>10. ChainEnds(t, own)'
  BY <1>3, <1>4, <1>9 DEF ThreadInv, ChainEnds
<1>11. ChainLinks(t, own, off)'
  BY <1>0, <1>3, <1>4, <1>9 DEF ThreadInv, ChainLinks
<1>12. ChainPreds(t, own)'
  BY <1>3, <1>4 DEF ThreadInv, ChainPreds
<1>13. ChainOrder(t, own, off)'
  BY <1>3, <1>4 DEF ThreadInv, ChainOrder
<1>14. ChainFirst(t, own, off)'
  BY <1>3, <1>4 DEF ThreadInv, ChainFirst
<1>15. ASSUME NEW c \in Chunks, InChain(c, t, own)
       PROVE  /\ Used(c, t)' \in 0 .. ChunkSize - 1 /\ Used(c, t)' <= Used(c, t)
              /\ Used(c, t) \in 0 .. ChunkSize - 1
              /\ off[c] \in Nat /\ off[c] + Used(c, t)' <= Len(log[t]) - 1
  <2>1. /\ Used(c, t) \in 0 .. ChunkSize - 1 /\ off[c] \in Nat
        /\ c # WriteTo(t) =>
              off[c] + chunks[c].size <= off[WriteTo(t)] /\ off[WriteTo(t)] <= Len(log[t])
    BY <1>15, BeforeLast
  <2>2. CASE c = s.chunk
    <3>1. Used(c, t) = n /\ Used(c, t)' = n - 1 /\ off[c] + n = Len(log[t])
      BY <1>5, <1>6, <2>2
    <3>2. n - 1 \in 0 .. ChunkSize - 1 /\ n - 1 <= n
      BY <1>1, <1>2, SizeAssumption
    <3>3. n \in Nat /\ \A o \in Nat : o + (n - 1) <= (o + n) - 1
      BY <1>1, SizeAssumption
    <3> QED
      BY <2>1, <3>1, <3>2, <3>3
  <2>3. CASE c # s.chunk
    <3>1. Used(c, t) = chunks[c].size /\ Used(c, t)' = Used(c, t)
      BY <1>3, <1>5, <2>3 DEF Used
    <3>2. off[c] + Used(c, t) <= off[s.chunk]
      BY <1>3, <2>1, <2>3, <3>1
    <3>3. off[s.chunk] <= Len(log[t]) - 1
      BY <1>1, <1>2, <1>6
    <3>4. Used(c, t) \in Nat /\ Used(c, t) <= Used(c, t)
      BY <2>1, SizeAssumption
    <3>5. off[c] + Used(c, t) <= Len(log[t]) - 1
      BY <1>6, <1>7, <2>1, <3>2, <3>3, <3>4
    <3> QED
      BY <2>1, <3>1, <3>4, <3>5
  <2> QED
    BY <2>2, <2>3
<1>16. ChainContent(t, own, off)'
  <2>1. off[WriteTo(t)'] + Used(WriteTo(t), t)' = Len(log'[t])
    <3>1. ASSUME NEW c \in Chunks, c = s.chunk PROVE off[c] + Used(c, t)' = Len(log'[t])
      <4>1. Used(c, t)' = n - 1 /\ off[c] + n = Len(log[t]) /\ n \in Nat /\ off[c] \in Nat
        BY <1>1, <1>5, <1>6, <3>1
      <4>2. off[c] + (n - 1) = Len(log[t]) - 1
        BY <4>1
      <4> QED
        BY <1>8, <4>1, <4>2
    <3> QED
      BY <1>1, <1>3, <3>1
  <2>2. ASSUME NEW c \in Chunks, InChain(c, t, own), NEW j \in 0 .. Used(c, t)' - 1
        PROVE  mem'[chunk_data(c) + j] = log'[t][off[c] + j + 1]
    <3>1. /\ Used(c, t)' \in 0 .. ChunkSize - 1 /\ Used(c, t)' <= Used(c, t)
          /\ Used(c, t) \in 0 .. ChunkSize - 1
          /\ off[c] \in Nat /\ off[c] + Used(c, t)' <= Len(log[t]) - 1
      BY <1>15, <2>2
    <3>2. j \in 0 .. Used(c, t) - 1
      BY <2>2, <3>1, SizeAssumption
    <3>3. mem[chunk_data(c) + j] = log[t][off[c] + j + 1]
      BY <2>2, <3>2 DEF ThreadInv, ChainContent
    <3>4. off[c] + j + 1 \in 1 .. Len(log[t]) - 1
      BY <1>7, <2>2, <3>1, SizeAssumption
    <3> QED
      BY <1>8, <3>3, <3>4
  <2> QED
    BY <1>3, <1>4, <2>1, <2>2 DEF ChainContent
<1>17. ChainProgress(t, off)'
  <2>1. ChainProgress(t, off)
    BY DEF ThreadInv
  <2>2. ReadFrom(t) \in Chunks /\ InChain(ReadFrom(t), t, own)
    BY DEF ThreadInv, ChainEnds, InChain
  <2>3. s.read_offset \in Int
    BY SizeAssumption DEF TypeOK
  <2>4. /\ ReadLimit(t)' = ReadLimit(t) /\ ReadLimit(t) \in Int
        /\ off[ReadFrom(t)] + ReadLimit(t) <= Len(log[t]) - 1 /\ off[ReadFrom(t)] \in Nat
    <3>1. CASE ReadFrom(t) = s.chunk
      BY <1>1, <1>2, <1>3, <1>6, <1>9, <3>1 DEF ReadLimit
    <3>2. CASE ReadFrom(t) # s.chunk
      <4>1. Used(ReadFrom(t), t)' = Used(ReadFrom(t), t)
        BY <1>3, <1>5, <2>2, <3>2
      <4>2. ASSUME NEW c \in Chunks, c = ReadFrom(t)
            PROVE  /\ off[c] + Used(c, t) <= Len(log[t]) - 1 /\ Used(c, t) \in Int
                   /\ off[c] \in Nat /\ Used(c, t)' = Used(c, t)
        BY <1>5, <1>15, <2>2, <3>2, <4>2, SizeAssumption
      <4> QED
        BY <1>3, <1>9, <2>2, <3>2, <4>1, <4>2 DEF ReadLimit
    <3> QED
      BY <3>1, <3>2
  <2>5. Len(drained[t]) \in Nat /\ Len(drained[t]) <= Len(log[t]) - 1
    <3>1. Len(drained[t]) \in Nat
      BY DEF TypeOK
    <3>2. off[ReadFrom(t)] + s.read_offset = Len(drained[t]) /\ s.read_offset <= ReadLimit(t)
      BY <2>1 DEF ChainProgress
    <3> QED
      BY <1>7, <2>3, <2>4, <3>1, <3>2
  <2>6. \A i \in 1 .. Len(drained[t]) : i \in 1 .. Len(log[t]) - 1 /\ i \in 1 .. Len(log[t])
    BY <1>7, <2>5
  <2> QED
    BY <1>3, <1>8, <1>9, <2>1, <2>4, <2>5, <2>6 DEF ChainProgress
<1> QED
  BY <1>10, <1>11, <1>12, <1>13, <1>14, <1>16, <1>17 DEF ThreadInv

\* hl_prof_exit of a short call.
LEMMA TakeBackDrain == ASSUME NEW t \in Threads, IInv, DInv, TakeBack(t) PROVE DInv'
<1> DEFINE s == threads[t]
           r == [s EXCEPT !.cur = @ - 1, !.held = IF @ = s.cur - 1 THEN None ELSE @,
                          !.dropped = TRUE]
<1>1. /\ pc[t] = "write" /\ s.held # None /\ threads' = [threads EXCEPT ![t] = r]
      /\ log' = [log EXCEPT ![t] = Front(@)]
      /\ UNCHANGED <<sessionVars, toggleVars, poolVars, consumerVars, mem, count, drained>>
  BY DEF TakeBack
<1>2. /\ threads[t] \in ThreadRec /\ call[t] \in CallRec /\ Place(t)
      /\ call = [call EXCEPT ![t] = call[t]] /\ pc = [pc EXCEPT ![t] = "write"]
      /\ TypeOK /\ PlaceInv /\ (s.chunk # None => Live(t))
  <2>1. pc = [pc EXCEPT ![t] = "write"]
    BY <1>1 DEF DInv, TypeOK
  <2> QED
    BY <1>1, <2>1, WriterFacts, SameRec DEF DInv, WriterPc
<1>3. s.chunk # None /\ s.held = s.pos /\ s.pos < s.cur
  BY <1>1, <1>2 DEF Place
<1>4. /\ s.chunk \in Chunks /\ s.cur \in Cells /\ s.cur \in Nat /\ chunk_data(s.chunk) \in Nat
      /\ s.cur - chunk_data(s.chunk) \in 0 .. ChunkSize - 1 /\ s.pos \in Nat /\ s.pos \in Cells
      /\ s.pos - chunk_data(s.chunk) \in 0 .. s.cur - chunk_data(s.chunk)
  BY <1>2, <1>3, CurrentCell
<1>5. s.cur - 1 \in Cells /\ s.pos <= s.cur - 1 /\ chunk_data(s.chunk) <= s.pos
      /\ s.cur - 1 < chunk_data(s.chunk) + ChunkSize
  <2>1. s.pos <= s.cur - 1 /\ chunk_data(s.chunk) <= s.pos
        /\ s.cur - 1 < chunk_data(s.chunk) + ChunkSize
    BY <1>3, <1>4, SizeAssumption
  <2>2. s.cur - 1 \in Cells
    BY <1>3, <1>4, SizeAssumption DEF Cells
  <2> QED
    BY <2>1, <2>2
<1>6. /\ r \in ThreadRec /\ r.cur = s.cur - 1 /\ r.pos = s.pos
      /\ r.session = s.session /\ r.chunk = s.chunk /\ r.first_chunk = s.first_chunk
      /\ r.read_chunk = s.read_chunk /\ r.read_offset = s.read_offset /\ r.exited = s.exited
      /\ r.held = IF s.held = s.cur - 1 THEN None ELSE s.held
  BY <1>2, <1>5 DEF ThreadRec
<1>7. PICK k \in CallRec, l \in {"write", "end"} :
         /\ call' = [call EXCEPT ![t] = k] /\ pc' = [pc EXCEPT ![t] = l]
         /\ k.index = call[t].index
  <2>1. /\ [call[t] EXCEPT !.kind = "overflow"] \in CallRec
        /\ [call[t] EXCEPT !.kind = "overflow"].index = call[t].index
    BY <1>2 DEF CallRec
  <2>2. \/ call' = [call EXCEPT ![t] = [call[t] EXCEPT !.kind = "overflow"]] /\ pc' = pc
        \/ call' = call /\ pc' = [pc EXCEPT ![t] = "end"]
    BY DEF TakeBack
  <2> QED
    BY <1>2, <2>1, <2>2
<1> HIDE DEF r
<1>8. /\ \A u \in Threads : u # t => Untouched(u)
      /\ threads'[t] = r /\ call'[t] = k /\ pc'[t] = l
  <2>1. threads' = [threads EXCEPT ![t] = r]
    BY <1>1
  <2>2. call' = [call EXCEPT ![t] = k] /\ pc' = [pc EXCEPT ![t] = l]
    BY <1>7
  <2>3. TypeOK
    BY <1>2
  <2> QED
    BY <2>1, <2>2, <2>3, OthersUntouched
<1>9. Stays(t)
  <2>1. r.held # None => r.held = r.pos /\ r.pos < r.cur
    BY <1>3, <1>4, <1>5, <1>6
  <2>2. r.held = None => r.pos = r.cur
    BY <1>1, <1>3, <1>6
  <2> QED
    BY <1>1, <1>3, <1>6, <1>7, <1>8, <2>1, <2>2 DEF Stays
<1>10. /\ log'[t] = Front(log[t]) /\ log' \in [Threads -> Seq(Record)]
       /\ \A u \in Threads : u # t => log'[u] = log[u]
  <2>1. log \in [Threads -> Seq(Record)]
    BY <1>2 DEF TypeOK
  <2>2. Front(log[t]) \in Seq(Record)
    BY <2>1 DEF Front
  <2> QED
    BY <1>1, <2>1, <2>2
<1>11. mem' \in [Cells -> Record \cup {Blank}] /\ count' \in [Threads -> Nat]
  BY <1>1, <1>2 DEF TypeOK
<1>12. /\ TypeOK' /\ PlaceInv' /\ ConsumerInv' /\ FinalInv'
       /\ \A own \in Owners : PoolInv(own) => PoolInv(own)'
  <2>1. /\ threads' = [threads EXCEPT ![t] = r] /\ call' = [call EXCEPT ![t] = k]
        /\ pc' = [pc EXCEPT ![t] = l] /\ threads[t].chunk # None
        /\ UNCHANGED <<sessionVars, toggleVars, poolVars, consumerVars, drained>>
    BY <1>1, <1>3, <1>7
  <2>2. /\ chunk_data(r.chunk) <= r.pos /\ r.pos <= r.cur
        /\ r.cur < chunk_data(r.chunk) + ChunkSize /\ r \in ThreadRec
    BY <1>5, <1>6
  <2> HIDE DEF s
  <2> QED
    BY <1>9, <1>10, <1>11, <2>1, <2>2, StaysKeeps
<1>13. PICK own \in Owners, off \in Offsets : ChainInv(own, off)
  BY DEF DInv
<1>14. ThreadInv(t, own, off)'
  BY <1>1, <1>2, <1>3, <1>6, <1>8, <1>9, <1>10, <1>13, TakenChain DEF ChainInv
<1>15. ASSUME NEW u \in Threads, u # t PROVE ThreadInv(u, own, off)'
  <2>1. SameChunks(u, own, off, own, off)
    BY <1>1 DEF SameChunks
  <2>2. SameThread(u)
    BY <1>1, <1>8, <1>10, <1>15 DEF SameThread, Untouched
  <2> QED
    BY <1>2, <1>8, <1>13, <1>15, <2>1, <2>2, ThreadFrame DEF ChainInv, Untouched
<1>16. ChainInv(own, off)'
  BY <1>12, <1>13, <1>14, <1>15 DEF ChainInv
<1> QED
  BY <1>12, <1>16 DEF DInv
-----------------------------------------------------------------------------
(* next_chunk. *)

\* The first chunk of the free list becomes the thread's.
Taken(t, own, own1) ==
    own1[Head(free)] = t /\ \A c \in Chunks : c # Head(free) => own1[c] = own[c]
PoolLeft(t, own1) ==
    /\ \A i, j \in 1 .. Len(Tail(free)) : Tail(free)[i] = Tail(free)[j] => i = j
    /\ \A i \in 1 .. Len(Tail(free)) : own1[Tail(free)[i]] = Nobody
    /\ session_id > 0 => \A c \in Chunks : own1[c] = Nobody =>
          \E i \in 1 .. Len(Tail(free)) : Tail(free)[i] = c
    /\ \A u \in Threads : u # t /\ pc[u] = "link" => own1[call[u].index] = u

LEMMA PoolPopped ==
    ASSUME NEW t \in Threads, TypeOK, PlaceInv, NEW own \in Owners, PoolInv(own), free # <<>>
    PROVE  /\ Head(free) \in Chunks /\ Tail(free) \in Seq(Chunks) /\ own[Head(free)] = Nobody
           /\ \A own1 \in Owners : Taken(t, own, own1) => PoolLeft(t, own1)
<1> DEFINE i == Head(free)
<1>1. /\ i \in Chunks /\ Tail(free) \in Seq(Chunks) /\ Len(Tail(free)) = Len(free) - 1
      /\ Len(free) \in Nat \ {0} /\ i = free[1]
      /\ \A m \in 1 .. Len(Tail(free)) : Tail(free)[m] = free[m + 1]
      /\ \A m, n \in 1 .. Len(Tail(free)) : Tail(free)[m] = Tail(free)[n] => m = n
      /\ \A m \in 1 .. Len(Tail(free)) : Tail(free)[m] # i
      /\ \A m \in 1 .. Len(free) :
            free[m] = i \/ \E n \in 1 .. Len(Tail(free)) : Tail(free)[n] = free[m]
  BY Popped DEF PoolInv, TypeOK
<1>2. own[i] = Nobody
  BY <1>1 DEF PoolInv
<1> HIDE DEF i
<1>3. ASSUME NEW own1 \in Owners, own1[i] = t, \A c \in Chunks : c # i => own1[c] = own[c]
      PROVE  PoolLeft(t, own1)
  <2>1. \A m \in 1 .. Len(Tail(free)) : own1[Tail(free)[m]] = Nobody
    <3> SUFFICES ASSUME NEW m \in 1 .. Len(Tail(free)) PROVE own1[Tail(free)[m]] = Nobody
      OBVIOUS
    <3>1. m + 1 \in 1 .. Len(free) /\ Tail(free)[m] = free[m + 1] /\ Tail(free)[m] # i
      BY <1>1
    <3>2. Tail(free)[m] \in Chunks
      BY <1>1
    <3> QED
      BY <1>3, <3>1, <3>2 DEF PoolInv
  <2>2. ASSUME session_id > 0, NEW c \in Chunks, own1[c] = Nobody
        PROVE  \E m \in 1 .. Len(Tail(free)) : Tail(free)[m] = c
    <3>1. c # i /\ own[c] = Nobody
      BY <1>3, <2>2, NobodyAssumption
    <3>2. PICK m \in 1 .. Len(free) : free[m] = c
      BY <2>2, <3>1 DEF PoolInv
    <3> QED
      BY <1>1, <3>1, <3>2
  <2>3. ASSUME NEW u \in Threads, u # t, pc[u] = "link" PROVE own1[call[u].index] = u
    <3>1. own[call[u].index] = u /\ call[u].index \in Chunks
      BY <2>3 DEF PoolInv, PlaceInv, Place, TypeOK
    <3> QED
      BY <1>2, <1>3, <3>1, NobodyAssumption
  <2> QED
    BY <1>1, <2>1, <2>2, <2>3 DEF PoolLeft
<1> QED
  BY <1>1, <1>2, <1>3 DEF Taken, i

\* A chunk is popped: it is the thread's, beside its chain.
LEMMA PopDrain ==
    ASSUME NEW t \in Threads, IInv, DInv, pool_pop(t), free # <<>> PROVE DInv'
<1> DEFINE i == Head(free)
           k == [call[t] EXCEPT !.index = i]
<1>1. /\ pc[t] = "pop" /\ free' = Tail(free) /\ call' = [call EXCEPT ![t] = k]
      /\ pc' = [pc EXCEPT ![t] = "link"] /\ threads' = threads
      /\ UNCHANGED <<sessionVars, toggleVars, chunks, consumerVars, recordVars, threads, drained>>
  BY DEF pool_pop
<1>2. /\ ~Stopped /\ ~threads[t].exited /\ Place(t) /\ call[t] \in CallRec
      /\ threads = [threads EXCEPT ![t] = threads[t]] /\ TypeOK /\ PlaceInv
  BY <1>1, WriterFacts, SameRec DEF DInv, WriterPc
<1>3. PICK own \in Owners, off \in Offsets : ChainInv(own, off)
  BY DEF DInv
<1>4. /\ i \in Chunks /\ Tail(free) \in Seq(Chunks) /\ own[i] = Nobody
      /\ \A own1 \in Owners : Taken(t, own, own1) => PoolLeft(t, own1)
  BY <1>2, <1>3, PoolPopped DEF ChainInv
<1>5. own[i] = Nobody
  BY <1>4
<1> HIDE DEF i
<1>6. k \in CallRec /\ k.index = i /\ k.kind = call[t].kind
  BY <1>2, <1>4 DEF CallRec
<1> HIDE DEF k
<1>7. /\ \A u \in Threads : u # t => Untouched(u)
      /\ threads'[t] = threads[t] /\ call'[t] = k /\ pc'[t] = "link"
  <2>1. threads' = [threads EXCEPT ![t] = threads[t]]
    BY <1>1, <1>2
  <2> QED
    BY <1>1, <1>2, <2>1, OthersUntouched
<1>8. TypeOK'
  <2>1. /\ threads' \in [Threads -> ThreadRec'] /\ call' \in [Threads -> CallRec']
        /\ pc' \in [Threads -> Pcs]
    BY <1>1, <1>2, <1>6 DEF TypeOK, ThreadRec, CallRec, Pcs, WriterPc
  <2> QED
    BY <1>1, <1>2, <1>4, <2>1 DEF TypeOK, ThreadRec, CallRec, Pcs
<1>9. i # None
  BY <1>4, SizeAssumption DEF Chunks, None
<1>10. PlaceInv'
  <2>1. Place(t)'
    BY <1>1, <1>2, <1>6, <1>7, <1>9 DEF Place, Room, WriterPc
  <2> QED
    BY <1>2, <1>7, <2>1, PlaceFrame DEF PlaceInv
<1>11. ConsumerInv'
  <2>1. WriteTo(reading)' = WriteTo(reading) \/ reading \notin Threads
    BY <1>1, <1>7 DEF WriteTo, Untouched
  <2> QED
    BY <1>1, <1>7, <2>1 DEF DInv, ConsumerInv, Untouched
<1>12. FinalInv'
  BY <1>1, <1>2, NotStopped DEF Stopped
<1>13. PICK own1 \in Owners : own1[i] = t /\ \A c \in Chunks : c # i => own1[c] = own[c]
  <2>1. [own EXCEPT ![i] = t] \in Owners
    BY DEF Owners
  <2> QED
    BY <1>4, <2>1 DEF Owners
<1>14. PoolInv(own1)'
  <2>1. PoolLeft(t, own1)
    BY <1>4, <1>13 DEF Taken, i
  <2>2. \A u \in Threads : pc'[u] = "link" => own1[call'[u].index] = u
    BY <1>6, <1>7, <1>13, <2>1 DEF PoolLeft, Untouched
  <2> QED
    BY <1>1, <2>1, <2>2 DEF PoolInv, PoolLeft
<1>15. ASSUME NEW u \in Threads, u # t PROVE ThreadInv(u, own1, off)'
  <2>1. SameChunks(u, own, off, own1, off)
    BY <1>1, <1>5, <1>13, <1>15, NobodyAssumption DEF SameChunks
  <2>2. SameThread(u)
    BY <1>1, <1>7, <1>15 DEF SameThread, Untouched
  <2> QED
    BY <1>2, <1>3, <1>7, <1>13, <1>15, <2>1, <2>2, ThreadFrame DEF ChainInv, Untouched
<1>16. ThreadInv(t, own1, off)'
  <2>1. SameChain(t, own, off, own1, off)
    BY <1>1, <1>5, <1>6, <1>7, <1>13, NobodyAssumption DEF SameChain, InChain
  <2>2. SameThread(t)
    BY <1>1, <1>7 DEF SameThread
  <2> QED
    BY <1>2, <1>3, <1>13, <2>1, <2>2, ChainFrame DEF ChainInv
<1>17. ChainInv(own1, off)'
  BY <1>14, <1>15, <1>16 DEF ChainInv
<1> QED
  BY <1>8, <1>10, <1>11, <1>12, <1>13, <1>17 DEF DInv

\* A chunk i is put at the end of the chain of t, and the old end is finished.
Extended(t, i, own, off, own1, off1) ==
    /\ Live(t) /\ Live(t)' /\ pc[t] # "fresh" /\ threads[t].chunk # None
    /\ i \in Chunks /\ ~InChain(i, t, own)
    /\ \A c \in Chunks : InChain(c, t, own1)' <=> InChain(c, t, own) \/ c = i
    /\ WriteTo(t)' = i /\ ReadFrom(t)' = ReadFrom(t)
    /\ threads'[t].chunk \in {threads[t].chunk, i}
    /\ \A c \in Chunks \ {i, threads[t].chunk} : chunks'[c] = chunks[c]
    /\ chunks'[threads[t].chunk] = Finished(threads[t], i)
    /\ ~Room(t)
    /\ off1[i] = Len(log[t]) /\ \A c \in Chunks \ {i} : off1[c] = off[c]

LEMMA ExtendedChain ==
    ASSUME NEW t \in Threads, NEW own \in Owners, NEW off \in Offsets, TypeOK, PlaceInv,
           ThreadInv(t, own, off), NEW own1 \in Owners, NEW off1 \in Offsets, NEW i,
           Extended(t, i, own, off, own1, off1)
    PROVE  /\ ChainEnds(t, own1)' /\ ChainPreds(t, own1)'
           /\ ChainOrder(t, own1, off1)' /\ ChainFirst(t, own1, off1)'
           /\ \A c \in Chunks : InChain(c, t, own1)' /\ c # WriteTo(t)' =>
                 /\ chunks'[c].finished /\ chunks'[c].size \in 1 .. ChunkSize - 1
                 /\ InChain(chunks[c].next, t, own1)'
                 /\ off1[chunks'[c].next] = off1[c] + chunks'[c].size
           /\ \A c \in Chunks : InChain(c, t, own) =>
                 c # i /\ off1[c] = off[c] /\ chunks'[c].size = Used(c, t)
<1> DEFINE s == threads[t]
           b == chunk_data(s.chunk)
           n == s.cur - b
<1>1. /\ s.chunk \in Chunks /\ b \in Nat /\ s.cur \in Nat /\ n \in 0 .. ChunkSize - 1
  BY CurrentCell DEF Extended
<1>2. n \in 1 .. ChunkSize - 1
  <2>1. s.cur # None
    BY <1>1 DEF None
  <2>2. ~(b + ChunkSize - s.cur > 1)
    BY <2>1 DEF Extended, Room
  <2> QED
    BY <1>1, <2>2, SizeAssumption
<1>3. /\ chunks'[s.chunk].finished /\ chunks'[s.chunk].size = n /\ chunks'[s.chunk].next = i
  BY DEF Extended, Finished
<1>4. /\ WriteTo(t) = s.chunk /\ InChain(s.chunk, t, own) /\ s.chunk # i
      /\ Used(s.chunk, t) = n /\ off[s.chunk] + n = Len(log[t]) /\ off[s.chunk] \in Nat
  <2>1. WriteTo(t) = s.chunk /\ InChain(s.chunk, t, own) /\ s.chunk # i
    BY DEF Extended, WriteTo, ThreadInv, ChainEnds
  <2>2. Used(s.chunk, t) = n
    BY <2>1 DEF Used, Extended
  <2> QED
    BY <1>1, <2>1, <2>2 DEF Extended, ThreadInv, ChainContent, Offsets
<1> HIDE DEF n
<1>5. ASSUME NEW c \in Chunks, InChain(c, t, own)
      PROVE  /\ c # i /\ off1[c] = off[c] /\ off[c] \in Nat
             /\ chunks'[c].size = Used(c, t) /\ Used(c, t) \in 1 .. ChunkSize - 1
             /\ off[c] + Used(c, t) <= Len(log[t])
             /\ c # s.chunk => chunks'[c] = chunks[c]
  <2>1. c # i
    BY <1>5 DEF Extended
  <2>2. off1[c] = off[c]
    BY <2>1 DEF Extended
  <2>3. c # s.chunk => chunks'[c] = chunks[c]
    BY <2>1 DEF Extended
  <2>4. off[c] \in Nat /\ off[c] + Used(c, t) <= Len(log[t])
    BY <1>5, BeforeLast
  <2>5. chunks'[c].size = Used(c, t) /\ Used(c, t) \in 1 .. ChunkSize - 1
    <3>1. CASE c = s.chunk
      BY <1>2, <1>3, <1>4, <3>1
    <3>2. CASE c # s.chunk
      BY <1>4, <1>5, <2>3, <3>2 DEF Used, ThreadInv, ChainLinks
    <3> QED
      BY <3>1, <3>2
  <2> QED
    BY <2>1, <2>2, <2>3, <2>4, <2>5
<1>6. /\ Live(t) /\ Live(t)' /\ WriteTo(t)' = i /\ ReadFrom(t)' = ReadFrom(t) /\ i \in Chunks
      /\ \A c \in Chunks : InChain(c, t, own1)' <=> InChain(c, t, own) \/ c = i
      /\ off1[i] = Len(log[t]) /\ off1[i] \in Nat
  BY DEF Extended, Offsets
<1>7. InChain(ReadFrom(t), t, own) /\ ReadFrom(t) \in Chunks
  BY <1>6 DEF ThreadInv, ChainEnds, InChain
<1>8. ChainEnds(t, own1)'
  <2>1. ASSUME NEW c \in Chunks, InChain(c, t, own) PROVE InChain(c, t, own1)'
    BY <1>6, <2>1
  <2>2. ASSUME NEW c, c = ReadFrom(t) PROVE InChain(c, t, own1)'
    BY <1>7, <2>1, <2>2
  <2>3. ASSUME NEW c, c = i PROVE InChain(c, t, own1)'
    BY <1>6, <2>3
  <2>4. ASSUME NEW c, c = s.chunk PROVE InChain(c, t, own1)'
    BY <1>1, <1>4, <2>1, <2>4
  <2>5. \A c : c \in {ReadFrom(t), i, s.chunk} => InChain(c, t, own1)'
    BY <2>2, <2>3, <2>4
  <2>6. ReadFrom(t)' = ReadFrom(t) /\ WriteTo(t)' = i /\ threads'[t].chunk \in {s.chunk, i}
    BY DEF Extended
  <2> QED
    BY <1>6, <2>5, <2>6 DEF ChainEnds
<1>9. ASSUME NEW c \in Chunks, InChain(c, t, own1)', c # WriteTo(t)'
      PROVE  /\ chunks'[c].finished /\ chunks'[c].size \in 1 .. ChunkSize - 1
             /\ InChain(chunks[c].next, t, own1)'
             /\ off1[chunks'[c].next] = off1[c] + chunks'[c].size
  <2>1. InChain(c, t, own)
    BY <1>6, <1>9
  <2>0. ASSUME NEW d \in Chunks, d = chunks'[c].next, InChain(d, t, own1)'
        PROVE  InChain(chunks[c].next, t, own1)'
    BY <2>0 DEF InChain
  <2>2. CASE c = s.chunk
    BY <1>3, <1>4, <1>5, <1>6, <2>0, <2>1, <2>2
  <2>3. CASE c # s.chunk
    <3>1. /\ chunks'[c] = chunks[c] /\ chunks[c].finished /\ chunks[c].size \in 1 .. ChunkSize - 1
          /\ InChain(chunks[c].next, t, own) /\ off[chunks[c].next] = off[c] + chunks[c].size
      BY <1>4, <1>5, <2>1, <2>3 DEF ThreadInv, ChainLinks
    <3>2. chunks[c].next \in Chunks
      BY <3>1 DEF InChain
    <3>3. InChain(chunks[c].next, t, own1)' /\ off1[chunks[c].next] = off[chunks[c].next]
      BY <1>5, <1>6, <3>1, <3>2
    <3> QED
      BY <1>5, <2>0, <2>1, <3>1, <3>2, <3>3
  <2> QED
    BY <2>2, <2>3
<1>10. ChainPreds(t, own1)'
  <2> SUFFICES ASSUME NEW c \in Chunks, InChain(c, t, own1)', c # ReadFrom(t)
               PROVE  \E d \in Chunks : InChain(d, t, own1)' /\ d # i /\ chunks'[d].next = c
    BY <1>6 DEF ChainPreds
  <2>1. CASE c = i
    BY <1>1, <1>3, <1>4, <1>6, <2>1
  <2>2. CASE c # i
    <3>1. PICK d \in Chunks : InChain(d, t, own) /\ d # s.chunk /\ chunks[d].next = c
      BY <1>4, <1>6, <2>2 DEF ThreadInv, ChainPreds
    <3> QED
      BY <1>5, <1>6, <3>1
  <2> QED
    BY <2>1, <2>2
<1>11. ChainOrder(t, own1, off1)'
  <2> SUFFICES ASSUME NEW c \in Chunks, NEW d \in Chunks,
                      InChain(c, t, own1)', InChain(d, t, own1)', c # d
               PROVE  \/ c # i /\ off1[c] + chunks'[c].size <= off1[d]
                      \/ d # i /\ off1[d] + chunks'[d].size <= off1[c]
    BY <1>6 DEF ChainOrder
  <2>1. CASE c = i
    BY <1>5, <1>6, <2>1
  <2>2. CASE d = i
    BY <1>5, <1>6, <2>2
  <2>3. CASE c # i /\ d # i
    <3>1. InChain(c, t, own) /\ InChain(d, t, own)
      BY <1>6, <2>3
    <3>2. \/ c # s.chunk /\ off[c] + chunks[c].size <= off[d]
          \/ d # s.chunk /\ off[d] + chunks[d].size <= off[c]
      BY <1>4, <3>1 DEF ThreadInv, ChainOrder
    <3> QED
      BY <1>5, <2>3, <3>1, <3>2
  <2> QED
    BY <2>1, <2>2, <2>3
<1>12. ChainFirst(t, own1, off1)'
  <2> SUFFICES ASSUME NEW c \in Chunks, InChain(c, t, own1)' PROVE off1[ReadFrom(t)] <= off1[c]
    BY <1>6 DEF ChainFirst
  <2>1. off1[ReadFrom(t)] = off[ReadFrom(t)] /\ off[ReadFrom(t)] \in Nat
        /\ off[ReadFrom(t)] <= Len(log[t])
    <3>1. /\ off1[ReadFrom(t)] = off[ReadFrom(t)] /\ off[ReadFrom(t)] \in Nat
          /\ off[ReadFrom(t)] + Used(ReadFrom(t), t) <= Len(log[t])
          /\ Used(ReadFrom(t), t) \in 1 .. ChunkSize - 1
      BY <1>5, <1>7
    <3> QED
      BY <1>6, <3>1, SizeAssumption
  <2>2. CASE c = i
    BY <1>6, <2>1, <2>2
  <2>3. CASE c # i
    BY <1>5, <1>6, <2>1, <2>3 DEF ThreadInv, ChainFirst
  <2> QED
    BY <2>2, <2>3
<1> QED
  BY <1>5, <1>8, <1>9, <1>10, <1>11, <1>12

\* The old chunk is finished, or the first chunk is published.
LEMMA LinkDrain == ASSUME NEW t \in Threads, IInv, DInv, Link(t) PROVE DInv'
<1> DEFINE s == threads[t]
           i == call[t].index
           r == IF s.chunk # None THEN [s EXCEPT !.held = None]
                ELSE [s EXCEPT !.held = None, !.first_chunk = i]
<1>1. /\ pc[t] = "link" /\ threads' = [threads EXCEPT ![t] = r]
      /\ call' = call /\ pc' = [pc EXCEPT ![t] = "fresh"]
      /\ UNCHANGED <<sessionVars, toggleVars, free, consumerVars, recordVars, call, drained>>
      /\ s.chunk # None => chunks' = [chunks EXCEPT ![s.chunk] = Finished(s, i)]
      /\ s.chunk = None => chunks' = chunks
  BY DEF Link
<1>2. /\ ~Stopped /\ ~s.exited /\ s.session = session_id /\ (s.chunk # None => Live(t))
      /\ s \in ThreadRec /\ call[t] \in CallRec /\ Place(t) /\ TypeOK /\ PlaceInv
      /\ call = [call EXCEPT ![t] = call[t]]
  BY <1>1, WriterFacts, SameRec DEF DInv, WriterPc
<1>3. i \in Chunks /\ i # None
  BY <1>1, <1>2 DEF Place, CallRec
<1>4. /\ r \in ThreadRec /\ r.session = s.session /\ r.chunk = s.chunk /\ r.cur = s.cur
      /\ r.pos = s.pos /\ r.held = None /\ r.exited = s.exited /\ r.dropped = s.dropped
      /\ r.read_chunk = s.read_chunk /\ r.read_offset = s.read_offset
      /\ r.first_chunk = IF s.chunk # None THEN s.first_chunk ELSE i
  BY <1>2, <1>3 DEF ThreadRec, None
<1> HIDE DEF r
<1>5. /\ \A u \in Threads : u # t => Untouched(u)
      /\ threads'[t] = r /\ call'[t] = call[t] /\ pc'[t] = "fresh"
  <2>1. call' = [call EXCEPT ![t] = call[t]]
    BY <1>1, <1>2
  <2>2. threads' = [threads EXCEPT ![t] = r] /\ pc' = [pc EXCEPT ![t] = "fresh"] /\ TypeOK
    BY <1>1, <1>2
  <2> QED
    BY <2>1, <2>2, OthersUntouched
<1>6. s.chunk # None =>
         /\ Finished(s, i) \in [finished : BOOLEAN, size : 0 .. ChunkSize, next : Chunks]
         /\ s.chunk \in Chunks
  <2> SUFFICES ASSUME s.chunk # None
               PROVE  /\ s.cur - chunk_data(s.chunk) \in 0 .. ChunkSize /\ s.chunk \in Chunks
    BY <1>3 DEF Finished
  <2>1. s.cur - chunk_data(s.chunk) \in 0 .. ChunkSize - 1 /\ s.chunk \in Chunks
    BY <1>2, CurrentCell
  <2> QED
    BY <2>1, SizeAssumption
<1>7. TypeOK'
  <2>1. threads' \in [Threads -> ThreadRec'] /\ pc' \in [Threads -> Pcs]
    BY <1>1, <1>2, <1>4 DEF TypeOK, ThreadRec, Pcs, WriterPc
  <2>2. chunks' \in [Chunks -> [finished : BOOLEAN, size : 0 .. ChunkSize, next : Chunks]]
    <3> DEFINE Rec == [finished : BOOLEAN, size : 0 .. ChunkSize, next : Chunks]
    <3>1. chunks \in [Chunks -> Rec] /\ (s.chunk # None => Finished(s, i) \in Rec /\ s.chunk \in Chunks)
      BY <1>2, <1>6 DEF TypeOK
    <3>2. IF s.chunk # None THEN chunks' = [chunks EXCEPT ![s.chunk] = Finished(s, i)]
          ELSE chunks' = chunks
      BY <1>1
    <3> HIDE DEF Rec
    <3>3. chunks' \in [Chunks -> Rec]
      BY <3>1, <3>2
    <3> QED
      BY <3>3 DEF Rec
  <2>3. /\ UNCHANGED <<sessionVars, toggleVars, free, consumerVars, recordVars, call, drained>>
        /\ TypeOK
    BY <1>1, <1>2
  <2> HIDE DEF s, i
  <2> QED
    BY <2>1, <2>2, <2>3 DEF TypeOK, ThreadRec, Pcs
<1>8. PlaceInv'
  <2>1. Place(t)'
    BY <1>1, <1>2, <1>3, <1>4, <1>5 DEF Place, WriterPc
  <2> QED
    BY <1>2, <1>5, <2>1, PlaceFrame DEF PlaceInv
<1>9. PICK own \in Owners, off \in Offsets : ChainInv(own, off)
  BY DEF DInv
<1>10. own[i] = t /\ ThreadInv(t, own, off)
  BY <1>1, <1>9 DEF ChainInv, PoolInv
<1>11. WriteTo(t)' = i
  BY <1>5 DEF WriteTo
<1>12. ConsumerInv'
  <2>0. cpc # "stopRelease"
    BY <1>2 DEF Stopped, IInv, QuietInv, StopPc
  <2>1. ASSUME reading = t, s.read_chunk # None PROVE s.read_chunk # i
    <3>1. Live(t) /\ ReadFrom(t) = s.read_chunk
      BY <1>2, <2>1 DEF Live, ReadFrom, Place
    <3>2. InChain(s.read_chunk, t, own)
      BY <1>10, <3>1 DEF ThreadInv, ChainEnds
    <3> QED
      BY <1>1, <3>2 DEF InChain
  <2>2. CASE reading = t
    BY <2>0, <1>1, <1>2, <1>4, <1>5, <1>11, <2>1, <2>2 DEF DInv, ConsumerInv
  <2>3. CASE reading # t
    <3>1. WriteTo(reading)' = WriteTo(reading) \/ reading \notin Threads
      BY <1>1, <1>5, <2>3 DEF WriteTo, Untouched
    <3> QED
      BY <2>0, <1>1, <1>5, <2>3, <3>1 DEF DInv, ConsumerInv, Untouched
  <2> QED
    BY <2>2, <2>3
<1>13. FinalInv'
  BY <1>1, <1>2, NotStopped DEF Stopped
<1>14. PoolInv(own)'
  BY <1>1, <1>5, <1>9 DEF ChainInv, PoolInv, Untouched
<1>15. PICK off1 \in Offsets :
          /\ off1[i] = Len(log[t]) /\ \A c \in Chunks \ {i} : off1[c] = off[c]
          /\ Len(log[t]) \in Nat
  <2>1. Len(log[t]) \in Nat
    BY <1>2 DEF TypeOK
  <2>2. [off EXCEPT ![i] = Len(log[t])] \in Offsets
    BY <2>1 DEF Offsets
  <2> QED
    BY <1>3, <2>1, <2>2 DEF Offsets
<1>16. ASSUME NEW u \in Threads, u # t PROVE ThreadInv(u, own, off1)'
  <2>1. s.chunk # None => own[s.chunk] = t
    BY <1>2, <1>10 DEF ThreadInv, ChainEnds, InChain
  <2>2. \A c \in Chunks : own[c] = u => chunks'[c] = chunks[c] /\ off1[c] = off[c]
    BY <1>1, <1>2, <1>10, <1>15, <1>16, <2>1 DEF TypeOK
  <2>3. SameChunks(u, own, off, own, off1)
    BY <1>1, <2>2 DEF SameChunks
  <2>4. SameThread(u)
    BY <1>1, <1>5, <1>16 DEF SameThread, Untouched
  <2> QED
    BY <1>2, <1>5, <1>9, <1>15, <1>16, <2>3, <2>4, ThreadFrame DEF ChainInv, Untouched
<1>17. \A c \in Chunks : InChain(c, t, own)' <=> InChain(c, t, own) \/ c = i
  BY <1>1, <1>5, <1>10 DEF InChain
<1>18. ThreadInv(t, own, off1)'
  <2>1. CASE s.chunk # None
    <3>1. /\ Live(t)' /\ ReadFrom(t)' = ReadFrom(t) /\ threads'[t].chunk = s.chunk
          /\ threads'[t].pos = s.pos /\ threads'[t].read_offset = s.read_offset
      BY <1>1, <1>2, <1>4, <1>5, <2>1 DEF Live, ReadFrom
    <3>2. chunks'[s.chunk] = Finished(s, i) /\ \A c \in Chunks : c # s.chunk => chunks'[c] = chunks[c]
      BY <1>1, <1>2, <1>6, <2>1 DEF TypeOK
    <3>3. Extended(t, i, own, off, own, off1)
      BY <1>1, <1>2, <1>3, <1>11, <1>15, <1>17, <2>1, <3>1, <3>2 DEF Extended, InChain, Place
    <3>4. /\ ChainEnds(t, own)' /\ ChainPreds(t, own)'
          /\ ChainOrder(t, own, off1)' /\ ChainFirst(t, own, off1)'
          /\ \A c \in Chunks : InChain(c, t, own)' /\ c # WriteTo(t)' =>
                /\ chunks'[c].finished /\ chunks'[c].size \in 1 .. ChunkSize - 1
                /\ InChain(chunks[c].next, t, own)'
                /\ off1[chunks'[c].next] = off1[c] + chunks'[c].size
          /\ \A c \in Chunks : InChain(c, t, own) =>
                c # i /\ off1[c] = off[c] /\ chunks'[c].size = Used(c, t)
      BY <1>2, <1>10, <1>15, <3>3, ExtendedChain
    <3>5. ChainLinks(t, own, off1)'
      <4>1. /\ chunks'[s.chunk].size = s.cur - chunk_data(s.chunk)
            /\ chunks'[s.chunk].next = i
        BY <3>2 DEF Finished
      <4>2. s.chunk # i
        BY <1>2, <1>6, <1>10, <2>1, <3>4 DEF ThreadInv, ChainEnds
      <4> QED
        BY <1>4, <1>5, <3>1, <3>4, <4>1, <4>2 DEF ChainLinks
    <3>6. /\ \A c \in Chunks : InChain(c, t, own) => Used(c, t)' = Used(c, t)
          /\ \A c \in Chunks : c = i => Used(c, t)' = 0
      BY <1>5, <1>11, <3>4 DEF Used
    <3>7. ChainContent(t, own, off1)'
      <4>1. off1[WriteTo(t)'] + Used(WriteTo(t), t)' = Len(log'[t])
        <5>1. ASSUME NEW c \in Chunks, c = i PROVE off1[c] + Used(c, t)' = Len(log'[t])
          BY <1>1, <1>15, <3>6, <5>1
        <5> QED
          BY <1>3, <1>11, <5>1
      <4>2. ASSUME NEW c \in Chunks, InChain(c, t, own)', NEW j \in 0 .. Used(c, t)' - 1
            PROVE  mem'[chunk_data(c) + j] = log'[t][off1[c] + j + 1]
        <5>1. InChain(c, t, own)
          BY <1>17, <3>6, <4>2
        <5> QED
          BY <1>1, <1>10, <3>4, <3>6, <4>2, <5>1 DEF ThreadInv, ChainContent
      <4> QED
        BY <4>1, <4>2 DEF ChainContent
    <3>8. InChain(ReadFrom(t), t, own) /\ ReadFrom(t) \in Chunks /\ Live(t)
      BY <1>2, <1>10, <2>1 DEF ThreadInv, ChainEnds, InChain
    <3>9. ReadLimit(t)' = ReadLimit(t)
      <4>1. ASSUME NEW c \in Chunks, c = ReadFrom(t) PROVE Used(c, t)' = Used(c, t)
        BY <3>6, <3>8, <4>1
      <4> QED
        BY <3>1, <3>8, <4>1 DEF ReadLimit
    <3>10. ChainProgress(t, off1)'
      BY <1>1, <1>10, <3>1, <3>4, <3>8, <3>9 DEF ThreadInv, ChainProgress
    <3> QED
      BY <3>4, <3>5, <3>7, <3>10 DEF ThreadInv
  <2>2. CASE s.chunk = None
    <3>1. ~Live(t) /\ s.read_chunk = None /\ s.read_offset = 0
      BY <1>1, <1>2, <2>2 DEF Live, Place
    <3>2. \A c \in Chunks : InChain(c, t, own)' <=> c = i
      BY <1>10, <1>17, <3>1 DEF ThreadInv, ChainEnds
    <3>3. /\ Live(t)' /\ ReadFrom(t)' = i /\ threads'[t].chunk = None
          /\ threads'[t].read_offset = 0
      BY <1>1, <1>2, <1>3, <1>4, <1>5, <2>2, <3>1 DEF Live, ReadFrom
    <3>4. \A c : c = i => Used(c, t)' = 0
      BY <1>5, <1>11 DEF Used
    <3>5. ~InChain(None, t, own)'
      BY SizeAssumption DEF InChain, None, Chunks
    <3>6. ChainEnds(t, own)'
      BY <1>3, <1>11, <3>2, <3>3 DEF ChainEnds
    <3>7. ChainLinks(t, own, off1)'
      BY <1>11, <3>2, <3>3, <3>5 DEF ChainLinks
    <3>8. ChainPreds(t, own)' /\ ChainOrder(t, own, off1)'
      BY <3>2, <3>3 DEF ChainPreds, ChainOrder
    <3>9. ChainFirst(t, own, off1)'
      BY <1>15, <3>2, <3>3 DEF ChainFirst
    <3>10. ChainContent(t, own, off1)'
      BY <1>1, <1>11, <1>15, <3>2, <3>4 DEF ChainContent
    <3>11. drained[t] = log[t]
      BY <1>10, <3>1 DEF ThreadInv, ChainProgress
    <3>12. ReadLimit(t)' = 0
      BY <1>3, <3>3, <3>4 DEF ReadLimit
    <3>13. ChainProgress(t, off1)'
      BY <1>1, <1>15, <3>3, <3>11, <3>12 DEF ChainProgress
    <3> QED
      BY <3>6, <3>7, <3>8, <3>9, <3>10, <3>13 DEF ThreadInv
  <2> QED
    BY <2>1, <2>2
<1>19. ChainInv(own, off1)'
  BY <1>14, <1>16, <1>18 DEF ChainInv
<1> QED
  BY <1>7, <1>8, <1>12, <1>13, <1>15, <1>19 DEF DInv

\* A record at the start of a chunk, or none.
LEMMA FirstRecord ==
    ASSUME NEW t \in Threads, TypeOK, NEW i \in Chunks, NEW n \in 0 .. 1,
           \/ n = 1 /\ Put(t, chunk_data(i))
           \/ n = 0 /\ UNCHANGED recordVars
    PROVE  /\ mem' \in [Cells -> Record \cup {Blank}]
           /\ log' \in [Threads -> Seq(Record)] /\ count' \in [Threads -> Nat]
           /\ \A u \in Threads : u # t => log'[u] = log[u]
           /\ Len(log[t]) \in Nat /\ Len(log'[t]) = Len(log[t]) + n
           /\ \A k \in 1 .. Len(log[t]) : log'[t][k] = log[t][k]
           /\ \A c \in Chunks, j \in 0 .. ChunkSize - 1 :
                 c # i => mem'[chunk_data(c) + j] = mem[chunk_data(c) + j]
           /\ \A j \in 0 .. n - 1 : mem'[chunk_data(i) + j] = log'[t][Len(log[t]) + j + 1]
<1>0. log[t] \in Seq(Record) /\ Len(log[t]) \in Nat /\ Fresh(t) \in Record
  <2>1. log[t] \in Seq(Record)
    BY DEF TypeOK
  <2>2. Fresh(t) \in Record
    BY FreshRecord
  <2> QED
    BY <2>1, <2>2
<1>1. CASE n = 0 /\ UNCHANGED recordVars
  <2>1. mem' = mem /\ log' = log /\ count' = count /\ n = 0 /\ 0 .. n - 1 = {}
    BY <1>1
  <2>2. Len(log'[t]) = Len(log[t]) + n
    BY <1>0, <2>1
  <2> QED
    BY <1>0, <2>1, <2>2 DEF TypeOK
<1>2. CASE n = 1 /\ Put(t, chunk_data(i))
  <2>1. chunk_data(i) \in Nat /\ 0 \in 0 .. ChunkSize - 1 /\ chunk_data(i) + 0 \in Cells
    BY CellFacts, SizeAssumption
  <2>2. chunk_data(i) + 0 = chunk_data(i)
    BY <2>1
  <2>3. /\ mem' \in [Cells -> Record \cup {Blank}]
        /\ log' \in [Threads -> Seq(Record)] /\ count' \in [Threads -> Nat]
        /\ log'[t] = Append(log[t], Fresh(t))
        /\ \A u \in Threads : u # t => log'[u] = log[u]
        /\ mem' = [mem EXCEPT ![chunk_data(i) + 0] = Fresh(t)]
    BY <1>2, <2>1, <2>2, PutType
  <2>4. /\ mem'[chunk_data(i) + 0] = Fresh(t)
        /\ \A c \in Chunks, j \in 0 .. ChunkSize - 1 :
              c # i \/ j # 0 => mem'[chunk_data(c) + j] = mem[chunk_data(c) + j]
    BY <2>1, <2>3, PutElsewhere
  <2>5. /\ Len(log'[t]) = Len(log[t]) + 1
        /\ \A k \in 1 .. Len(log[t]) : log'[t][k] = log[t][k]
        /\ log'[t][Len(log[t]) + 1] = Fresh(t)
    BY <1>0, <2>3, Appended
  <2>6. \A j \in 0 .. n - 1 : j = 0 /\ Len(log[t]) + j + 1 = Len(log[t]) + 1
    BY <1>0, <1>2
  <2>7. \A j \in 0 .. n - 1 : mem'[chunk_data(i) + j] = log'[t][Len(log[t]) + j + 1]
    BY <2>4, <2>5, <2>6
  <2> QED
    BY <1>0, <1>2, <2>3, <2>4, <2>5, <2>7
<1> QED
  BY <1>1, <1>2

\* The thread enters the new chunk.
LEMMA EnterDrain == ASSUME NEW t \in Threads, IInv, DInv, Enter(t) PROVE DInv'
<1> DEFINE s == threads[t]
           i == call[t].index
           a == chunk_data(i)
           k == [call[t] EXCEPT !.index = None, !.stalled = FALSE]
<1>0. i \in Chunks /\ a \in Nat
  <2>1. i \in Chunks
    BY DEF Enter, DInv, PlaceInv, Place, TypeOK
  <2> QED
    BY <2>1, CellFacts
<1>1. PICK n \in 0 .. 1 : n = IF call[t].stalled THEN 1 ELSE 0
  OBVIOUS
<1> DEFINE r == [s EXCEPT !.chunk = i, !.cur = a + n, !.pos = a + n]
<1>a. /\ (n = 1 /\ Put(t, a)) \/ (n = 0 /\ UNCHANGED recordVars)
      /\ threads' = [threads EXCEPT ![t] = r]
  <2>1. CASE call[t].stalled
    <3>1. n = 1
      BY <1>1, <2>1
    <3>2. Put(t, a) /\ threads' = [threads EXCEPT ![t] = [s EXCEPT !.chunk = i, !.cur = a + 1, !.pos = a + 1]]
      BY <2>1 DEF Enter
    <3>3. r = [s EXCEPT !.chunk = i, !.cur = a + 1, !.pos = a + 1]
      BY <3>1, Zenon
    <3>4. threads' = [threads EXCEPT ![t] = r]
      BY <3>2, <3>3, Zenon
    <3>5. n = 1 /\ Put(t, a)
      BY <3>1, <3>2, Zenon
    <3> HIDE DEF r
    <3> QED
      BY <3>4, <3>5, Zenon
  <2>2. CASE ~call[t].stalled
    <3>1. n = 0 /\ a + n = a
      BY <1>0, <1>1, <2>2
    <3>2. UNCHANGED recordVars /\ threads' = [threads EXCEPT ![t] = [s EXCEPT !.chunk = i, !.cur = a, !.pos = a]]
      BY <2>2 DEF Enter
    <3>3. r = [s EXCEPT !.chunk = i, !.cur = a, !.pos = a]
      BY <3>1, Zenon
    <3> HIDE DEF r
    <3> QED
      BY <3>1, <3>2, <3>3
  <2> QED
    BY <2>1, <2>2
<1>2. /\ pc[t] = "fresh" /\ chunks' = [chunks EXCEPT ![i].finished = FALSE]
      /\ call' = [call EXCEPT ![t] = k] /\ pc' = [pc EXCEPT ![t] = "write"]
      /\ UNCHANGED <<sessionVars, toggleVars, free, consumerVars, drained>>
  BY DEF Enter
<1>3. /\ ~Stopped /\ ~s.exited /\ s.session = session_id
      /\ s \in ThreadRec /\ call[t] \in CallRec /\ Place(t) /\ TypeOK /\ PlaceInv
  BY <1>2, WriterFacts DEF DInv, WriterPc
<1>4. /\ i \in Chunks /\ i # None /\ s.held = None /\ s.first_chunk # None /\ Live(t)
  <2>1. i \in Chunks /\ i # None /\ s.held = None
    BY <1>2, <1>3 DEF Place, CallRec
  <2>2. s.first_chunk # None
    BY <1>2, <1>3, <2>1 DEF Place
  <2> QED
    BY <1>3, <2>1, <2>2 DEF Live
<1>5. a \in Nat /\ a + n \in Cells /\ a <= a + n /\ a + n < a + ChunkSize /\ n \in 0 .. ChunkSize - 1
      /\ a + n \in Nat /\ (a + n) - a = n
  <2>1. n \in 0 .. ChunkSize - 1
    BY SizeAssumption
  <2>2. a \in Nat /\ a + n \in Cells
    BY <1>4, <2>1, CellFacts
  <2> QED
    BY <2>1, <2>2, SizeAssumption
<1>6. /\ r \in ThreadRec /\ r.session = s.session /\ r.chunk = i /\ r.cur = a + n
      /\ r.pos = a + n /\ r.held = None /\ r.exited = s.exited /\ r.dropped = s.dropped
      /\ r.read_chunk = s.read_chunk /\ r.read_offset = s.read_offset
      /\ r.first_chunk = s.first_chunk
  BY <1>3, <1>4, <1>5 DEF ThreadRec
<1>7. k \in CallRec /\ k.index = None /\ k.kind = call[t].kind
  BY <1>3 DEF CallRec
<1> HIDE DEF r, k
<1>8. /\ \A u \in Threads : u # t => Untouched(u)
      /\ threads'[t] = r /\ call'[t] = k /\ pc'[t] = "write"
  <2>1. /\ threads' = [threads EXCEPT ![t] = r] /\ call' = [call EXCEPT ![t] = k]
        /\ pc' = [pc EXCEPT ![t] = "write"] /\ TypeOK
    BY <1>a, <1>2, <1>3
  <2> QED
    BY <2>1, OthersUntouched
<1>9. /\ mem' \in [Cells -> Record \cup {Blank}]
      /\ log' \in [Threads -> Seq(Record)] /\ count' \in [Threads -> Nat]
      /\ \A u \in Threads : u # t => log'[u] = log[u]
      /\ Len(log[t]) \in Nat /\ Len(log'[t]) = Len(log[t]) + n
      /\ \A m \in 1 .. Len(log[t]) : log'[t][m] = log[t][m]
      /\ \A c \in Chunks, j \in 0 .. ChunkSize - 1 :
            c # i => mem'[chunk_data(c) + j] = mem[chunk_data(c) + j]
      /\ \A j \in 0 .. n - 1 : mem'[a + j] = log'[t][Len(log[t]) + j + 1]
  BY <1>a, <1>3, <1>4, FirstRecord
<1>10. /\ chunks' \in [Chunks -> [finished : BOOLEAN, size : 0 .. ChunkSize, next : Chunks]]
       /\ \A c \in Chunks : chunks'[c].size = chunks[c].size /\ chunks'[c].next = chunks[c].next
       /\ \A c \in Chunks : c # i => chunks'[c] = chunks[c]
  <2> DEFINE Rec == [finished : BOOLEAN, size : 0 .. ChunkSize, next : Chunks]
             e == [chunks[i] EXCEPT !.finished = FALSE]
  <2>1. chunks \in [Chunks -> Rec] /\ chunks[i] \in Rec
    BY <1>3, <1>4 DEF TypeOK
  <2>2. e \in Rec /\ e.size = chunks[i].size /\ e.next = chunks[i].next
    BY <2>1
  <2>3. chunks' = [chunks EXCEPT ![i] = e]
    BY <1>2
  <2> HIDE DEF Rec, e
  <2>4. chunks' \in [Chunks -> Rec] /\ chunks'[i] = e /\ \A c \in Chunks : c # i => chunks'[c] = chunks[c]
    BY <1>4, <2>1, <2>2, <2>3
  <2> QED
    BY <2>2, <2>4 DEF Rec
<1>11. TypeOK'
  <2>1. /\ threads' \in [Threads -> ThreadRec'] /\ call' \in [Threads -> CallRec']
        /\ pc' \in [Threads -> Pcs]
    BY <1>a, <1>2, <1>3, <1>6, <1>7 DEF TypeOK, ThreadRec, CallRec, Pcs, WriterPc
  <2> QED
    BY <1>2, <1>3, <1>9, <1>10, <2>1 DEF TypeOK, ThreadRec, CallRec, Pcs
<1>12. PlaceInv'
  <2>0. (s.first_chunk # None) /\ (s.read_chunk = None => s.read_offset = 0)
    BY <1>3, <1>4 DEF Place
  <2>1. Place(t)'
    <3> HIDE DEF s, i, a
    <3>1. /\ threads'[t].chunk = i /\ threads'[t].cur = a + n /\ threads'[t].pos = a + n
          /\ threads'[t].held = None /\ ~threads'[t].exited
          /\ threads'[t].first_chunk # None
          /\ threads'[t].read_chunk = None => threads'[t].read_offset = 0
      BY <1>3, <1>6, <1>8, <2>0 DEF s
    <3>2. chunk_data(i) = a
      BY DEF a
    <3>3. a <= a + n /\ a + n <= a + n /\ a + n < a + ChunkSize
      BY <1>5
    <3>4. call'[t].index = None /\ pc'[t] = "write" /\ i # None
      BY <1>4, <1>7, <1>8
    <3> QED
      BY <3>1, <3>2, <3>3, <3>4 DEF Place, WriterPc
  <2> QED
    BY <1>3, <1>8, <2>1, PlaceFrame DEF PlaceInv
<1>13. PICK own \in Owners, off \in Offsets : ChainInv(own, off)
  BY DEF DInv
<1>14. ThreadInv(t, own, off) /\ InChain(i, t, own) /\ own[i] = t /\ WriteTo(t) = i
  BY <1>2, <1>4, <1>13 DEF ChainInv, ThreadInv, ChainEnds, WriteTo, InChain
<1>15. WriteTo(t)' = i /\ ReadFrom(t)' = ReadFrom(t) /\ Live(t)'
  BY <1>2, <1>3, <1>4, <1>6, <1>8 DEF WriteTo, ReadFrom, Live
<1>16. ConsumerInv'
  <2>0. cpc # "stopRelease"
    BY <1>3 DEF Stopped, IInv, QuietInv, StopPc
  <2>1. CASE reading = t
    BY <2>0, <1>2, <1>3, <1>6, <1>8, <1>14, <1>15, <2>1 DEF DInv, ConsumerInv
  <2>2. CASE reading # t
    <3>1. WriteTo(reading)' = WriteTo(reading) \/ reading \notin Threads
      BY <1>2, <1>8, <2>2 DEF WriteTo, Untouched
    <3> QED
      BY <2>0, <1>2, <1>8, <2>2, <3>1 DEF DInv, ConsumerInv, Untouched
  <2> QED
    BY <2>1, <2>2
<1>17. FinalInv'
  BY <1>2, <1>3, NotStopped DEF Stopped
<1>18. PoolInv(own)'
  BY <1>2, <1>8, <1>13 DEF ChainInv, PoolInv, Untouched
<1>19. ASSUME NEW u \in Threads, u # t PROVE ThreadInv(u, own, off)'
  <2>1. SameChunks(u, own, off, own, off)
    BY <1>9, <1>10, <1>14, <1>19 DEF SameChunks
  <2>2. SameThread(u)
    BY <1>2, <1>8, <1>9, <1>19 DEF SameThread, Untouched
  <2> QED
    BY <1>3, <1>8, <1>13, <1>19, <2>1, <2>2, ThreadFrame DEF ChainInv, Untouched
<1>20. \A c : InChain(c, t, own)' <=> InChain(c, t, own)
  BY <1>2, <1>8 DEF InChain
<1>21. /\ Used(i, t) = 0
       /\ \A c \in Chunks : c = i => Used(c, t)' = n
       /\ \A c \in Chunks : c # i => Used(c, t) = chunks[c].size /\ Used(c, t)' = chunks[c].size
  BY <1>2, <1>5, <1>6, <1>8, <1>10, <1>14, <1>15 DEF Used
<1>22. off[i] = Len(log[t])
  <2>1. off[i] + 0 = Len(log[t]) /\ off[i] \in Nat
    BY <1>4, <1>14, <1>21 DEF ThreadInv, ChainContent, Offsets
  <2> QED
    BY <2>1
<1>23. ChainEnds(t, own)'
  BY <1>6, <1>8, <1>14, <1>15, <1>20, <1>4 DEF ThreadInv, ChainEnds
<1>24. ChainLinks(t, own, off)'
  BY <1>8, <1>10, <1>14, <1>15, <1>20 DEF ThreadInv, ChainLinks
<1>25. ChainPreds(t, own)'
  BY <1>10, <1>14, <1>15, <1>20 DEF ThreadInv, ChainPreds
<1>26. ChainOrder(t, own, off)'
  BY <1>10, <1>14, <1>15, <1>20 DEF ThreadInv, ChainOrder
<1>27. ChainFirst(t, own, off)'
  BY <1>4, <1>14, <1>15, <1>20 DEF ThreadInv, ChainFirst
<1>28. ChainContent(t, own, off)'
  <2>1. off[WriteTo(t)'] + Used(WriteTo(t), t)' = Len(log'[t])
    <3>1. ASSUME NEW c \in Chunks, c = i PROVE off[c] + Used(c, t)' = Len(log'[t])
      BY <1>9, <1>21, <1>22, <3>1
    <3> QED
      BY <1>4, <1>15, <3>1
  <2>2. ASSUME NEW c \in Chunks, InChain(c, t, own), NEW j \in 0 .. Used(c, t)' - 1
        PROVE  mem'[chunk_data(c) + j] = log'[t][off[c] + j + 1]
    <3>1. CASE c = i
      BY <1>9, <1>21, <1>22, <2>2, <3>1
    <3>2. CASE c # i
      <4>1. /\ Used(c, t) \in 0 .. ChunkSize - 1 /\ off[c] \in Nat
            /\ off[c] + Used(c, t) <= Len(log[t])
        BY <1>3, <1>14, <2>2, BeforeLast
      <4>2. j \in 0 .. Used(c, t) - 1
        BY <1>21, <2>2, <3>2
      <4>3. j \in 0 .. ChunkSize - 1 /\ off[c] + j + 1 \in 1 .. Len(log[t])
        BY <1>9, <4>1, <4>2, SizeAssumption
      <4>4. mem[chunk_data(c) + j] = log[t][off[c] + j + 1]
        BY <1>14, <2>2, <4>2 DEF ThreadInv, ChainContent
      <4> QED
        BY <1>9, <3>2, <4>3, <4>4
    <3> QED
      BY <3>1, <3>2
  <2> QED
    BY <1>20, <2>1, <2>2 DEF ChainContent
<1>29. ChainProgress(t, off)'
  <2>1. /\ off[ReadFrom(t)] + s.read_offset = Len(drained[t]) /\ s.read_offset <= ReadLimit(t)
        /\ Len(drained[t]) <= Len(log[t])
        /\ \A m \in 1 .. Len(drained[t]) : drained[t][m] = log[t][m]
    BY <1>4, <1>14 DEF ThreadInv, ChainProgress
  <2>2. Len(drained[t]) \in Nat /\ s.read_offset \in Int
    <3>1. drained[t] \in Seq(Record \cup {Blank})
      BY <1>3 DEF TypeOK
    <3>2. s.read_offset \in Int
      BY <1>3, SizeAssumption DEF ThreadRec
    <3>3. Len(drained[t]) \in Nat
      BY <3>1
    <3> QED
      BY <3>2, <3>3
  <2>3. InChain(ReadFrom(t), t, own) /\ ReadFrom(t) \in Chunks
    BY <1>4, <1>14 DEF ThreadInv, ChainEnds, InChain
  <2>4. s.read_offset <= ReadLimit(t)'
    <3>1. CASE ReadFrom(t) = i
      <4>1. s.read_offset <= 0
        BY <1>9, <1>22, <2>1, <2>2, <3>1
      <4>2. ReadLimit(t)' = n
        BY <1>5, <1>6, <1>8, <1>15, <3>1 DEF ReadLimit
      <4> QED
        BY <2>2, <4>1, <4>2
    <3>2. CASE ReadFrom(t) # i
      <4>1. ReadLimit(t)' = chunks[ReadFrom(t)].size
        <5>1. ASSUME NEW c \in Chunks, c = ReadFrom(t) PROVE Used(c, t)' = chunks[c].size
          BY <1>21, <3>2, <5>1
        <5> QED
          BY <1>6, <1>8, <1>15, <2>3, <3>2, <5>1 DEF ReadLimit
      <4>2. ReadLimit(t) <= chunks[ReadFrom(t)].size
        <5>1. CASE ReadFrom(t) = s.chunk
          <6>1. s.chunk # None
            BY <2>3, <5>1, SizeAssumption DEF Chunks, None
          <6>2. /\ s.cur \in Nat /\ s.pos \in Nat /\ chunk_data(s.chunk) \in Nat
                /\ s.pos - chunk_data(s.chunk) \in 0 .. s.cur - chunk_data(s.chunk)
            BY <1>3, <6>1, CurrentCell
          <6>3. chunks[s.chunk].size = s.cur - chunk_data(s.chunk)
            BY <1>2, <1>14, <2>3, <5>1 DEF ThreadInv, ChainLinks
          <6> QED
            BY <5>1, <6>2, <6>3 DEF ReadLimit
        <5>2. CASE ReadFrom(t) # s.chunk
          <6>1. ReadLimit(t) = chunks[ReadFrom(t)].size
            BY <1>21, <2>3, <3>2, <5>2 DEF ReadLimit
          <6>2. chunks[ReadFrom(t)].size \in Int
            BY <1>3, <2>3, SizeAssumption DEF TypeOK
          <6> QED
            BY <6>1, <6>2
        <5> QED
          BY <5>1, <5>2
      <4>3. ReadLimit(t) \in Int /\ chunks[ReadFrom(t)].size \in Int
        <5>1. chunks[ReadFrom(t)].size \in Int
          BY <1>3, <2>3, SizeAssumption DEF TypeOK
        <5>2. CASE ReadFrom(t) = s.chunk
          <6>1. s.chunk # None
            BY <2>3, <5>2, SizeAssumption DEF Chunks, None
          <6>2. s.pos \in Nat /\ chunk_data(s.chunk) \in Nat
            BY <1>3, <6>1, CurrentCell
          <6> QED
            BY <5>1, <5>2, <6>2 DEF ReadLimit
        <5>3. CASE ReadFrom(t) # s.chunk
          BY <1>21, <2>3, <3>2, <5>1, <5>3 DEF ReadLimit
        <5> QED
          BY <5>1, <5>2, <5>3
      <4> QED
        BY <2>1, <2>2, <4>1, <4>2, <4>3
    <3> QED
      BY <3>1, <3>2
  <2>5. \A m \in 1 .. Len(drained[t]) : m \in 1 .. Len(log[t])
    BY <1>9, <2>1, <2>2
  <2>6. Len(drained[t]) <= Len(log'[t])
    BY <1>9, <2>1, <2>2
  <2> QED
    BY <1>2, <1>6, <1>8, <1>9, <1>15, <2>1, <2>4, <2>5, <2>6 DEF ChainProgress
<1>30. ChainInv(own, off)'
  BY <1>18, <1>19, <1>23, <1>24, <1>25, <1>26, <1>27, <1>28, <1>29 DEF ChainInv, ThreadInv
<1> QED
  BY <1>11, <1>12, <1>16, <1>17, <1>30 DEF DInv
-----------------------------------------------------------------------------
(* release_thread. *)

\* The state of a thread that is released: nothing is held back or uncounted.
ReleasedTo(t, r, x) == LET s == threads[t] IN
    /\ r \in ThreadRec /\ r.session = s.session /\ r.first_chunk = s.first_chunk
    /\ r.read_chunk = s.read_chunk /\ r.read_offset = s.read_offset
    /\ r.held = None /\ r.pos = r.cur /\ ~r.dropped /\ r.exited = x
    /\ s.chunk = None => r.chunk = None /\ r.cur = None
    /\ s.chunk # None => /\ r.chunk # None /\ chunk_data(r.chunk) <= r.cur
                         /\ r.cur < chunk_data(r.chunk) + ChunkSize

\* The thread has the state of the session and writes nothing; the consumer does
\* not drain.
Releasing(t, x) ==
    /\ threads[t].session = session_id /\ ~threads[t].exited /\ pc[t] \notin WriterPc
    /\ x => threads[t].chunk # None
    /\ cpc \notin {"pos", "finished", "done", "drain"}
    /\ \E l \in Pcs \ WriterPc : pc' = [pc EXCEPT ![t] = l] /\ (l = pc[t] \/ pc[t] = "idle")
    /\ UNCHANGED <<sessionVars, toggleVars, call, drained, cpc, reading, registry_lock>>
    /\ todo' = todo \/ (cpc = "stopRelease" /\ todo' = todo \ {t})
    /\ cpc = "stopRelease" => t \in todo /\ todo' = todo \ {t}

LEMMA ReleaseKeeps ==
    ASSUME NEW t \in Threads, NEW x \in BOOLEAN, IInv, DInv, Releasing(t, x), NEW r,
           threads' = [threads EXCEPT ![t] = r], ReleasedTo(t, r, x),
           free' \in Seq(Chunks),
           chunks' \in [Chunks -> [finished : BOOLEAN, size : 0 .. ChunkSize, next : Chunks]],
           mem' \in [Cells -> Record \cup {Blank}], log' \in [Threads -> Seq(Record)],
           count' \in [Threads -> Nat], threads[t].dropped \/ log' = log
    PROVE  /\ TypeOK' /\ PlaceInv' /\ ConsumerInv' /\ FinalInv'
           /\ \A u \in Threads : u # t => Untouched(u)
           /\ threads'[t] = r /\ call' = call
           /\ pc[t] \notin {"link", "fresh"} /\ pc'[t] \notin {"link", "fresh"}
<1>1. PICK l \in Pcs \ WriterPc : pc' = [pc EXCEPT ![t] = l] /\ (l = pc[t] \/ pc[t] = "idle")
  BY DEF Releasing
<1>2. /\ UNCHANGED <<sessionVars, toggleVars, call, drained, cpc, reading, registry_lock>>
      /\ cpc \notin {"pos", "finished", "done", "drain"}
      /\ pc[t] \notin WriterPc /\ call' = call
      /\ todo' \subseteq Threads
  BY DEF Releasing, DInv, TypeOK
<1>3. TypeOK /\ PlaceInv /\ Place(t) /\ call = [call EXCEPT ![t] = call[t]] /\ r \in ThreadRec
  BY SameRec DEF DInv, PlaceInv, ReleasedTo
<1>4. /\ \A u \in Threads : u # t => Untouched(u)
      /\ threads'[t] = r /\ call'[t] = call[t] /\ pc'[t] = l
  <2>1. call' = [call EXCEPT ![t] = call[t]]
    BY <1>2, <1>3
  <2> QED
    BY <1>1, <1>3, <2>1, OthersUntouched
<1>5. TypeOK'
  <2>1. /\ threads' \in [Threads -> ThreadRec'] /\ pc' \in [Threads -> Pcs]
    BY <1>1, <1>2, <1>3 DEF TypeOK, ThreadRec, Pcs
  <2>2. /\ mem' \in [Cells -> Record \cup {Blank}] /\ log' \in [Threads -> Seq(Record)]
        /\ count' \in [Threads -> Nat]
        /\ free' \in Seq(Chunks)
        /\ chunks' \in [Chunks -> [finished : BOOLEAN, size : 0 .. ChunkSize, next : Chunks]]
    OBVIOUS
  <2>3. UNCHANGED <<sessionVars, toggleVars, call, drained, cpc, reading, registry_lock>>
        /\ todo' \subseteq Threads /\ TypeOK
    BY <1>2, <1>3
  <2> QED
    BY <2>1, <2>2, <2>3 DEF TypeOK, ThreadRec, Pcs
<1>6. PlaceInv'
  <2>1. Place(t)'
    <3>1. threads'[t].chunk # None =>
             /\ chunk_data(r.chunk) <= r.pos /\ r.pos <= r.cur /\ r.cur < chunk_data(r.chunk) + ChunkSize
             /\ r.first_chunk # None
      <4> SUFFICES ASSUME r.chunk # None
                   PROVE  /\ chunk_data(r.chunk) <= r.pos /\ r.pos <= r.cur
                          /\ r.cur < chunk_data(r.chunk) + ChunkSize
                          /\ r.first_chunk # None
        BY <1>4
      <4>1. threads[t].chunk # None
        BY DEF ReleasedTo
      <4>2. r.cur \in Int
        BY <1>3, SizeAssumption DEF ThreadRec, Cells, None
      <4>3. threads[t].first_chunk # None
        BY <1>3, <4>1 DEF Place
      <4> QED
        BY <4>1, <4>2, <4>3 DEF ReleasedTo
    <3>2. threads'[t].chunk = None =>
             /\ r.cur = None /\ r.pos = None /\ r.first_chunk = None
      BY <1>2, <1>3, <1>4 DEF Place, ReleasedTo, WriterPc
    <3>3. call[t].index = None
      BY <1>2, <1>3 DEF Place, WriterPc
    <3>4. call[t].kind = "overflow" => r.chunk # None /\ pc'[t] \in WriterPc \cup {"end"}
      BY <1>1, <1>2, <1>3, <1>4 DEF Place, ReleasedTo
    <3>5. pc'[t] \notin WriterPc
      BY <1>1, <1>4
    <3>6. /\ r.held = None /\ r.pos = r.cur /\ ~r.dropped /\ (r.exited => r.chunk # None)
          /\ (r.first_chunk = None => r.read_chunk = None)
          /\ (r.read_chunk = None => r.read_offset = 0)
      BY <1>3 DEF ReleasedTo, Releasing, Place
    <3> QED
      BY <1>4, <3>1, <3>2, <3>3, <3>4, <3>5, <3>6 DEF Place, WriterPc
  <2> QED
    BY <1>3, <1>4, <2>1, PlaceFrame DEF PlaceInv
<1>7. ConsumerInv'
  <2>1. cpc = "stopRelease" => todo' = todo \ {t} /\ todo \subseteq Threads
    BY DEF Releasing, DInv, TypeOK
  <2> QED
    BY <1>2, <1>4, <2>1 DEF DInv, ConsumerInv, Untouched
<1>8. FinalInv'
  <2>1. ASSUME Stopped', NEW u \in Threads, threads'[u].session = session_id',
               cpc' = "stopRelease" => u \notin todo'
        PROVE  threads'[u].held = None /\ ~threads'[u].dropped
    <3>1. CASE u = t
      BY <1>4, <3>1 DEF ReleasedTo
    <3>2. CASE u # t
      BY <1>2, <1>4, <2>1, <3>2 DEF DInv, FinalInv, Stopped, Untouched, Releasing
    <3> QED
      BY <3>1, <3>2
  <2>2. ASSUME ~session_open, cpc \in {"idle", "opening"} PROVE log' = log
    BY <2>2 DEF DInv, FinalInv, Stopped, Releasing
  <2> QED
    BY <1>2, <2>1, <2>2 DEF DInv, FinalInv
<1> QED
  BY <1>1, <1>2, <1>4, <1>5, <1>6, <1>7, <1>8 DEF WriterPc

\* What is held back is published: the chunks and the records stay.
LEMMA PublishedChain ==
    ASSUME NEW t \in Threads, NEW own \in Owners, NEW off \in Offsets, TypeOK, PlaceInv,
           ThreadInv(t, own, off), pc[t] \notin {"link", "fresh"}, pc'[t] \notin {"link", "fresh"},
           UNCHANGED <<session_id, chunks, mem, log, drained>>,
           threads'[t].session = threads[t].session, threads'[t].chunk = threads[t].chunk,
           threads'[t].first_chunk = threads[t].first_chunk,
           threads'[t].read_chunk = threads[t].read_chunk,
           threads'[t].read_offset = threads[t].read_offset,
           threads'[t].cur = threads[t].cur, threads'[t].pos = threads[t].cur
    PROVE  ThreadInv(t, own, off)'
<1>1. Live(t)' = Live(t) /\ ReadFrom(t)' = ReadFrom(t) /\ WriteTo(t)' = WriteTo(t)
  BY DEF Live, ReadFrom, WriteTo
<1>2. \A c : InChain(c, t, own)' = InChain(c, t, own)
  BY DEF InChain
<1>3. \A c : Used(c, t)' = Used(c, t)
  BY <1>1 DEF Used
<1>4. ChainEnds(t, own)' /\ ChainPreds(t, own)'
  BY <1>1, <1>2 DEF ThreadInv, ChainEnds, ChainPreds
<1>5. ChainLinks(t, own, off)'
  BY <1>1, <1>2 DEF ThreadInv, ChainLinks
<1>6. ChainOrder(t, own, off)' /\ ChainFirst(t, own, off)'
  BY <1>1, <1>2 DEF ThreadInv, ChainOrder, ChainFirst
<1>7. ChainContent(t, own, off)'
  BY <1>1, <1>2, <1>3 DEF ThreadInv, ChainContent
<1>8. ChainProgress(t, off)'
  <2>1. ChainProgress(t, off)
    BY DEF ThreadInv
  <2>2. Live(t) => threads[t].read_offset <= ReadLimit(t)'
    <3> SUFFICES ASSUME Live(t) PROVE threads[t].read_offset <= ReadLimit(t)'
      OBVIOUS
    <3>1. threads[t].read_offset <= ReadLimit(t) /\ threads[t].read_offset \in Int
      BY <2>1, SizeAssumption DEF ChainProgress, TypeOK
    <3>2. CASE ReadFrom(t) = threads[t].chunk
      <4>1. threads[t].chunk # None
        BY <3>2, SizeAssumption DEF ThreadInv, ChainEnds, InChain, Chunks, None
      <4>2. /\ threads[t].pos \in Nat /\ threads[t].cur \in Nat
            /\ chunk_data(threads[t].chunk) \in Nat
            /\ threads[t].pos - chunk_data(threads[t].chunk) \in
                  0 .. threads[t].cur - chunk_data(threads[t].chunk)
        BY <4>1, CurrentCell
      <4>3. ReadLimit(t)' = threads[t].cur - chunk_data(threads[t].chunk)
        BY <1>1, <3>2 DEF ReadLimit
      <4>4. ReadLimit(t) = threads[t].pos - chunk_data(threads[t].chunk)
        BY <3>2 DEF ReadLimit
      <4> QED
        BY <3>1, <4>2, <4>3, <4>4
    <3>3. CASE ReadFrom(t) # threads[t].chunk
      BY <1>1, <1>3, <3>1, <3>3 DEF ReadLimit
    <3> QED
      BY <3>2, <3>3
  <2> QED
    BY <1>1, <2>1, <2>2 DEF ChainProgress
<1> QED
  BY <1>4, <1>5, <1>6, <1>7, <1>8 DEF ThreadInv

\* The counts are written in a chunk of the free list.
LEMMA MovedChain ==
    ASSUME NEW t \in Threads, NEW own \in Owners, NEW off \in Offsets, TypeOK, PlaceInv,
           ThreadInv(t, own, off), NEW own1 \in Owners, NEW off1 \in Offsets, NEW i \in Chunks,
           Extended(t, i, own, off, own1, off1), Put(t, chunk_data(i)),
           pc'[t] \notin {"link", "fresh"}, UNCHANGED drained,
           threads'[t].chunk = i, threads'[t].cur = chunk_data(i) + 1,
           threads'[t].read_offset = threads[t].read_offset
    PROVE  ThreadInv(t, own1, off1)'
<1>1. /\ ChainEnds(t, own1)' /\ ChainPreds(t, own1)'
      /\ ChainOrder(t, own1, off1)' /\ ChainFirst(t, own1, off1)'
      /\ \A c \in Chunks : InChain(c, t, own1)' /\ c # WriteTo(t)' =>
            /\ chunks'[c].finished /\ chunks'[c].size \in 1 .. ChunkSize - 1
            /\ InChain(chunks[c].next, t, own1)'
            /\ off1[chunks'[c].next] = off1[c] + chunks'[c].size
      /\ \A c \in Chunks : InChain(c, t, own) =>
            c # i /\ off1[c] = off[c] /\ chunks'[c].size = Used(c, t)
  BY ExtendedChain
<1>2. ChainLinks(t, own1, off1)'
  BY <1>1 DEF ChainLinks
<1>3. /\ WriteTo(t)' = i /\ ReadFrom(t)' = ReadFrom(t) /\ Live(t) /\ Live(t)'
      /\ \A c \in Chunks : InChain(c, t, own1)' <=> InChain(c, t, own) \/ c = i
      /\ off1[i] = Len(log[t])
  BY DEF Extended
<1>4. chunk_data(i) \in Nat /\ (chunk_data(i) + 1) - chunk_data(i) = 1
  <2>1. chunk_data(i) \in Nat
    BY CellFacts
  <2> QED
    BY <2>1
<1>5. /\ \A c \in Chunks : c = i => Used(c, t)' = 1
      /\ \A c \in Chunks : InChain(c, t, own) => Used(c, t)' = Used(c, t)
  BY <1>1, <1>3, <1>4 DEF Used
<1>6. /\ Len(log[t]) \in Nat /\ Len(log'[t]) = Len(log[t]) + 1
      /\ \A k \in 1 .. Len(log[t]) : log'[t][k] = log[t][k]
      /\ \A c \in Chunks, j \in 0 .. ChunkSize - 1 :
            c # i => mem'[chunk_data(c) + j] = mem[chunk_data(c) + j]
      /\ \A j \in 0 .. 1 - 1 : mem'[chunk_data(i) + j] = log'[t][Len(log[t]) + j + 1]
  <2>1. 1 \in 0 .. 1
    OBVIOUS
  <2> QED
    BY <2>1, FirstRecord
<1>7. ChainContent(t, own1, off1)'
  <2>1. off1[WriteTo(t)'] + Used(WriteTo(t), t)' = Len(log'[t])
    <3>1. ASSUME NEW c \in Chunks, c = i PROVE off1[c] + Used(c, t)' = Len(log'[t])
      BY <1>3, <1>5, <1>6, <3>1
    <3> QED
      BY <1>3, <3>1
  <2>2. ASSUME NEW c \in Chunks, InChain(c, t, own1)', NEW j \in 0 .. Used(c, t)' - 1
        PROVE  mem'[chunk_data(c) + j] = log'[t][off1[c] + j + 1]
    <3>1. CASE c = i
      BY <1>3, <1>5, <1>6, <2>2, <3>1
    <3>2. CASE c # i
      <4>0. InChain(c, t, own)
        BY <1>3, <2>2, <3>2
      <4>1. /\ Used(c, t) \in 0 .. ChunkSize - 1 /\ off[c] \in Nat
            /\ off[c] + Used(c, t) <= Len(log[t]) /\ off1[c] = off[c]
        BY <1>1, <4>0, BeforeLast
      <4>2. j \in 0 .. Used(c, t) - 1
        BY <1>5, <2>2, <4>0
      <4>3. j \in 0 .. ChunkSize - 1 /\ off[c] + j + 1 \in 1 .. Len(log[t])
        BY <1>6, <4>1, <4>2, SizeAssumption
      <4>4. mem[chunk_data(c) + j] = log[t][off[c] + j + 1]
        BY <4>0, <4>2 DEF ThreadInv, ChainContent
      <4> QED
        BY <1>6, <3>2, <4>1, <4>3, <4>4
    <3> QED
      BY <3>1, <3>2
  <2> QED
    BY <2>1, <2>2 DEF ChainContent
<1>8. ChainProgress(t, off1)'
  <2>1. /\ off[ReadFrom(t)] + threads[t].read_offset = Len(drained[t])
        /\ threads[t].read_offset <= ReadLimit(t)
        /\ Len(drained[t]) <= Len(log[t])
        /\ \A m \in 1 .. Len(drained[t]) : drained[t][m] = log[t][m]
    BY <1>3 DEF ThreadInv, ChainProgress
  <2>2. Len(drained[t]) \in Nat /\ threads[t].read_offset \in Int
    BY SizeAssumption DEF TypeOK
  <2>3. InChain(ReadFrom(t), t, own) /\ ReadFrom(t) \in Chunks
    BY <1>3 DEF ThreadInv, ChainEnds, InChain
  <2>4. off1[ReadFrom(t)] = off[ReadFrom(t)] /\ ReadFrom(t) # i
    BY <1>1, <2>3
  <2>5. threads[t].read_offset <= ReadLimit(t)'
    <3>1. ReadLimit(t)' = Used(ReadFrom(t), t)
      <4>1. ASSUME NEW c \in Chunks, c = ReadFrom(t) PROVE Used(c, t)' = Used(c, t)
        BY <1>5, <2>3, <4>1
      <4> QED
        BY <1>3, <2>3, <2>4, <4>1 DEF ReadLimit
    <3>2. Used(ReadFrom(t), t) \in Int
      BY <2>3, BeforeLast
    <3>3. CASE ReadFrom(t) = threads[t].chunk
      <4>1. threads[t].chunk # None /\ pc[t] # "fresh"
        BY DEF Extended
      <4>2. /\ threads[t].pos \in Nat /\ threads[t].cur \in Nat
            /\ chunk_data(threads[t].chunk) \in Nat
            /\ threads[t].pos - chunk_data(threads[t].chunk) \in
                  0 .. threads[t].cur - chunk_data(threads[t].chunk)
        BY <4>1, CurrentCell
      <4>3. Used(ReadFrom(t), t) = threads[t].cur - chunk_data(threads[t].chunk)
        BY <3>3, <4>1 DEF Used, WriteTo
      <4>4. ReadLimit(t) = threads[t].pos - chunk_data(threads[t].chunk)
        BY <3>3 DEF ReadLimit
      <4> QED
        BY <2>1, <2>2, <3>1, <4>2, <4>3, <4>4
    <3>4. CASE ReadFrom(t) # threads[t].chunk
      BY <2>1, <3>1, <3>4 DEF ReadLimit
    <3> QED
      BY <3>3, <3>4
  <2>6. \A m \in 1 .. Len(drained[t]) : m \in 1 .. Len(log[t])
    BY <1>6, <2>1, <2>2
  <2>7. Len(drained[t]) <= Len(log'[t])
    BY <1>6, <2>1, <2>2
  <2> QED
    BY <1>3, <1>6, <2>1, <2>4, <2>5, <2>6, <2>7 DEF ChainProgress
<1> QED
  BY <1>1, <1>2, <1>7, <1>8 DEF ThreadInv

LEMMA ReleaseDrain ==
    ASSUME NEW t \in Threads, NEW x \in BOOLEAN, IInv, DInv, Releasing(t, x), release_thread(t, x)
    PROVE  DInv'
<1> DEFINE s == threads[t]
           i == Head(free)
           p == [s EXCEPT !.held = None, !.pos = s.cur, !.exited = x, !.dropped = FALSE]
           q == [Commit(s, s.cur) EXCEPT !.exited = x, !.dropped = FALSE]
           m == [Commit(s, chunk_data(i)) EXCEPT !.chunk = i, !.exited = x, !.dropped = FALSE]
<1>1. /\ TypeOK /\ PlaceInv /\ Place(t) /\ s \in ThreadRec
      /\ s.session = session_id /\ pc[t] \notin {"link", "fresh"}
      /\ UNCHANGED <<session_id, drained, call>>
  BY SameRec DEF DInv, PlaceInv, Releasing, WriterPc
<1>2. s.chunk # None => Live(t)
  BY <1>1 DEF Place, Live
<1>3. PICK own \in Owners, off \in Offsets : ChainInv(own, off)
  BY DEF DInv
<1>4. ThreadInv(t, own, off) /\ PoolInv(own)
  BY <1>3 DEF ChainInv
<1>5. CASE /\ threads' = [threads EXCEPT ![t] = p]
           /\ UNCHANGED <<poolVars, recordVars>>
  <2>1. /\ p \in ThreadRec /\ p.session = s.session /\ p.chunk = s.chunk /\ p.cur = s.cur
        /\ p.first_chunk = s.first_chunk /\ p.read_chunk = s.read_chunk
        /\ p.read_offset = s.read_offset /\ p.held = None /\ p.pos = s.cur /\ ~p.dropped
        /\ p.exited = x
    BY <1>1 DEF ThreadRec
  <2> HIDE DEF p
  <2>2. ReleasedTo(t, p, x)
    <3>1. s.chunk # None => chunk_data(s.chunk) <= s.cur /\ s.cur < chunk_data(s.chunk) + ChunkSize
      <4> SUFFICES ASSUME s.chunk # None
                   PROVE  chunk_data(s.chunk) <= s.cur /\ s.cur < chunk_data(s.chunk) + ChunkSize
        OBVIOUS
      <4>1. /\ s.cur \in Nat /\ chunk_data(s.chunk) \in Nat
            /\ s.cur - chunk_data(s.chunk) \in 0 .. ChunkSize - 1
        BY <1>1, CurrentCell
      <4> QED
        BY <4>1, SizeAssumption
    <3>2. s.chunk = None => s.cur = None
      BY <1>1 DEF Place
    <3> QED
      BY <2>1, <3>1, <3>2 DEF ReleasedTo
  <2>3. /\ TypeOK' /\ PlaceInv' /\ ConsumerInv' /\ FinalInv'
        /\ \A u \in Threads : u # t => Untouched(u)
        /\ threads'[t] = p /\ pc'[t] \notin {"link", "fresh"}
    <3>1. /\ free' \in Seq(Chunks)
          /\ chunks' \in [Chunks -> [finished : BOOLEAN, size : 0 .. ChunkSize, next : Chunks]]
          /\ mem' \in [Cells -> Record \cup {Blank}] /\ log' \in [Threads -> Seq(Record)]
          /\ count' \in [Threads -> Nat] /\ log' = log
      BY <1>1, <1>5 DEF TypeOK
    <3> QED
      BY <1>5, <2>2, <3>1, ReleaseKeeps
  <2>4. PoolInv(own)'
    BY <1>1, <1>4, <1>5, <2>3 DEF PoolInv, Untouched
  <2>5. ThreadInv(t, own, off)'
    BY <1>1, <1>4, <1>5, <2>1, <2>3, PublishedChain
  <2>6. ASSUME NEW u \in Threads, u # t PROVE ThreadInv(u, own, off)'
    <3>1. SameChunks(u, own, off, own, off) /\ SameThread(u)
      BY <1>1, <1>5, <2>3, <2>6 DEF SameChunks, SameThread, Untouched
    <3> QED
      BY <1>1, <1>3, <2>3, <2>6, <3>1, ThreadFrame DEF ChainInv, Untouched
  <2> QED
    BY <2>3, <2>4, <2>5, <2>6 DEF DInv, ChainInv
<1>6. CASE /\ s.dropped /\ Room(t) /\ Put(t, s.cur) /\ UNCHANGED poolVars
           /\ threads' = [threads EXCEPT ![t] = q]
  <2>0. s.chunk # None
    BY <1>1, <1>6 DEF Room, Place
  <2>1. /\ s.chunk \in Chunks /\ s.cur \in Cells /\ s.cur \in Nat /\ chunk_data(s.chunk) \in Nat
        /\ s.cur - chunk_data(s.chunk) \in 0 .. ChunkSize - 1
    BY <1>1, <2>0, CurrentCell
  <2>2. (s.cur - chunk_data(s.chunk)) + 1 \in 0 .. ChunkSize - 1
    BY <1>6, <2>1, SizeAssumption DEF Room
  <2>3. chunk_data(s.chunk) + ((s.cur - chunk_data(s.chunk)) + 1) \in Cells
    BY <2>1, <2>2, CellFacts
  <2>4. /\ s.cur + 1 \in Cells /\ chunk_data(s.chunk) <= s.cur + 1
        /\ s.cur + 1 < chunk_data(s.chunk) + ChunkSize
    <3>1. chunk_data(s.chunk) + ((s.cur - chunk_data(s.chunk)) + 1) = s.cur + 1
      BY <2>1
    <3> QED
      BY <2>1, <2>2, <2>3, <3>1, SizeAssumption
  <2>5. /\ q \in ThreadRec /\ q.session = s.session /\ q.chunk = s.chunk /\ q.cur = s.cur + 1
        /\ q.first_chunk = s.first_chunk /\ q.read_chunk = s.read_chunk
        /\ q.read_offset = s.read_offset /\ q.held = None /\ q.pos = s.cur + 1 /\ ~q.dropped
        /\ q.exited = x
    BY <1>1, <2>4 DEF ThreadRec, Commit
  <2> HIDE DEF q
  <2>6. ReleasedTo(t, q, x)
    BY <2>0, <2>4, <2>5 DEF ReleasedTo
  <2>7. /\ mem' \in [Cells -> Record \cup {Blank}]
        /\ log' \in [Threads -> Seq(Record)] /\ count' \in [Threads -> Nat]
    BY <1>1, <1>6, <2>1, PutType
  <2>8. /\ TypeOK' /\ PlaceInv' /\ ConsumerInv' /\ FinalInv'
        /\ \A u \in Threads : u # t => Untouched(u)
        /\ threads'[t] = q /\ pc'[t] \notin {"link", "fresh"}
    <3>1. /\ free' \in Seq(Chunks)
          /\ chunks' \in [Chunks -> [finished : BOOLEAN, size : 0 .. ChunkSize, next : Chunks]]
      BY <1>1, <1>6 DEF TypeOK
    <3> QED
      BY <1>6, <2>6, <2>7, <3>1, ReleaseKeeps
  <2>9. PoolInv(own)'
    BY <1>1, <1>4, <1>6, <2>8 DEF PoolInv, Untouched
  <2>10. Recorded(t)
    BY <1>1, <1>2, <1>6, <2>0, <2>5, <2>8 DEF Recorded
  <2>11. ThreadInv(t, own, off)'
    BY <1>1, <1>4, <2>10, RecordedChain
  <2>12. ASSUME NEW u \in Threads, u # t PROVE ThreadInv(u, own, off)'
    <3>1. SameChunks(u, own, off, own, off) /\ log'[u] = log[u] /\ drained'[u] = drained[u]
      BY <1>1, <1>4, <2>10, <2>12, RecordedOthers
    <3>2. SameThread(u)
      BY <1>1, <2>8, <2>12, <3>1 DEF SameThread, Untouched
    <3> QED
      BY <1>1, <1>3, <2>8, <2>12, <3>1, <3>2, ThreadFrame DEF ChainInv, Untouched
  <2> QED
    BY <2>8, <2>9, <2>11, <2>12 DEF DInv, ChainInv
<1>7. CASE /\ s.dropped /\ ~Room(t) /\ free # <<>> /\ free' = Tail(free)
           /\ chunks' = [chunks EXCEPT ![s.chunk] = Finished(s, i), ![i].finished = FALSE]
           /\ Put(t, chunk_data(i)) /\ threads' = [threads EXCEPT ![t] = m]
  <2>0. s.chunk # None
    BY <1>1, <1>7 DEF Place
  <2>1. /\ i \in Chunks /\ Tail(free) \in Seq(Chunks) /\ own[i] = Nobody
        /\ \A own1 \in Owners : Taken(t, own, own1) => PoolLeft(t, own1)
    BY <1>1, <1>4, <1>7, PoolPopped
  <2>2. /\ s.chunk \in Chunks /\ s.cur - chunk_data(s.chunk) \in 0 .. ChunkSize - 1
    BY <1>1, <2>0, CurrentCell
  <2>3. own[s.chunk] = t /\ s.chunk # i
    BY <1>2, <1>4, <2>0, <2>1, NobodyAssumption DEF ThreadInv, ChainEnds, InChain
  <2> HIDE DEF i
  <2>4. /\ chunk_data(i) \in Nat /\ chunk_data(i) + 1 \in Cells /\ chunk_data(i) \in Cells
        /\ chunk_data(i) <= chunk_data(i) + 1 /\ chunk_data(i) + 1 < chunk_data(i) + ChunkSize
    <3>1. chunk_data(i) \in Nat /\ 0 \in 0 .. ChunkSize - 1 /\ 1 \in 0 .. ChunkSize - 1
      BY <2>1, CellFacts, SizeAssumption
    <3>2. chunk_data(i) + 1 \in Cells /\ chunk_data(i) + 0 \in Cells
      BY <2>1, <3>1, CellFacts
    <3> QED
      BY <3>1, <3>2, SizeAssumption
  <2>5. /\ m \in ThreadRec /\ m.session = s.session /\ m.chunk = i /\ m.cur = chunk_data(i) + 1
        /\ m.first_chunk = s.first_chunk /\ m.read_chunk = s.read_chunk
        /\ m.read_offset = s.read_offset /\ m.held = None /\ m.pos = chunk_data(i) + 1
        /\ ~m.dropped /\ m.exited = x
    BY <1>1, <2>1, <2>4 DEF ThreadRec, Commit
  <2> HIDE DEF m
  <2>6. i # None
    BY <2>1, SizeAssumption DEF Chunks, None
  <2>7. ReleasedTo(t, m, x)
    BY <2>0, <2>4, <2>5, <2>6 DEF ReleasedTo
  <2>8. /\ mem' \in [Cells -> Record \cup {Blank}]
        /\ log' \in [Threads -> Seq(Record)] /\ count' \in [Threads -> Nat]
    BY <1>1, <1>7, <2>4, PutType
  <2>9. /\ chunks' \in [Chunks -> [finished : BOOLEAN, size : 0 .. ChunkSize, next : Chunks]]
        /\ chunks'[s.chunk] = Finished(s, i)
        /\ \A c \in Chunks : c \notin {i, s.chunk} => chunks'[c] = chunks[c]
    <3> DEFINE Rec == [finished : BOOLEAN, size : 0 .. ChunkSize, next : Chunks]
               e == [chunks[i] EXCEPT !.finished = FALSE]
    <3>1. chunks \in [Chunks -> Rec] /\ chunks[i] \in Rec
      BY <1>1, <2>1 DEF TypeOK
    <3>2. e \in Rec
      BY <3>1
    <3>3. Finished(s, i) \in Rec
      <4>1. s.cur - chunk_data(s.chunk) \in 0 .. ChunkSize
        BY <2>2, SizeAssumption
      <4> QED
        BY <2>1, <4>1 DEF Finished
    <3>4. chunks' = [[chunks EXCEPT ![s.chunk] = Finished(s, i)] EXCEPT ![i] = e]
      BY <1>7, <2>1, <2>2, <2>3, <3>1
    <3> HIDE DEF Rec, e
    <3>5. /\ chunks' \in [Chunks -> Rec] /\ chunks'[s.chunk] = Finished(s, i)
          /\ \A c \in Chunks : c \notin {i, s.chunk} => chunks'[c] = chunks[c]
      BY <2>1, <2>2, <2>3, <3>1, <3>2, <3>3, <3>4
    <3> QED
      BY <3>5 DEF Rec
  <2>10. /\ TypeOK' /\ PlaceInv' /\ ConsumerInv' /\ FinalInv'
         /\ \A u \in Threads : u # t => Untouched(u)
         /\ threads'[t] = m /\ pc'[t] \notin {"link", "fresh"}
    <3>1. threads' = [threads EXCEPT ![t] = m] /\ free' \in Seq(Chunks) /\ threads[t].dropped
      BY <1>7, <2>1
    <3>2. chunks' \in [Chunks -> [finished : BOOLEAN, size : 0 .. ChunkSize, next : Chunks]]
      BY <2>9
    <3> HIDE DEF s, p, q
    <3> QED
      BY <2>7, <2>8, <3>1, <3>2, ReleaseKeeps
  <2>11. PICK own1 \in Owners : own1[i] = t /\ \A c \in Chunks : c # i => own1[c] = own[c]
    <3>1. [own EXCEPT ![i] = t] \in Owners
      BY DEF Owners
    <3> QED
      BY <2>1, <3>1 DEF Owners
  <2>12. PICK off1 \in Offsets :
            off1[i] = Len(log[t]) /\ \A c \in Chunks : c # i => off1[c] = off[c]
    <3>1. Len(log[t]) \in Nat
      BY <1>1 DEF TypeOK
    <3>2. [off EXCEPT ![i] = Len(log[t])] \in Offsets
      BY <3>1 DEF Offsets
    <3> QED
      BY <2>1, <3>2 DEF Offsets
  <2>13. PoolInv(own1)'
    <3>1. PoolLeft(t, own1)
      BY <2>1, <2>11 DEF Taken, i
    <3>2. \A u \in Threads : pc'[u] = "link" => own1[call'[u].index] = u
      BY <2>10, <3>1 DEF PoolLeft, Untouched
    <3> QED
      BY <1>1, <1>7, <3>1, <3>2 DEF PoolInv, PoolLeft
  <2>14. \A c \in Chunks : InChain(c, t, own1)' <=> InChain(c, t, own) \/ c = i
    BY <1>1, <2>1, <2>10, <2>11 DEF InChain
  <2>15. PICK j \in Chunks : j = i
    BY <2>1
  <2>16. Extended(t, j, own, off, own1, off1)
    <3>1. Live(t) /\ Live(t)' /\ WriteTo(t)' = i /\ ReadFrom(t)' = ReadFrom(t)
      BY <1>1, <1>2, <2>0, <2>5, <2>10 DEF Live, ReadFrom, WriteTo
    <3>2. ~InChain(i, t, own)
      BY <2>1, NobodyAssumption DEF InChain
    <3> QED
      BY <1>1, <1>7, <2>0, <2>1, <2>5, <2>9, <2>10, <2>12, <2>14, <2>15, <3>1, <3>2 DEF Extended
  <2>17. ThreadInv(t, own1, off1)'
    <3>1. /\ Put(t, chunk_data(j)) /\ threads'[t].chunk = j
          /\ threads'[t].cur = chunk_data(j) + 1
          /\ threads'[t].read_offset = threads[t].read_offset
      BY <1>7, <2>5, <2>10, <2>15
    <3> QED
      BY <1>1, <1>4, <2>10, <2>16, <3>1, MovedChain
  <2>18. ASSUME NEW u \in Threads, u # t PROVE ThreadInv(u, own1, off1)'
    <3>1. /\ \A c \in Chunks, k \in 0 .. ChunkSize - 1 :
                c # j => mem'[chunk_data(c) + k] = mem[chunk_data(c) + k]
          /\ log'[u] = log[u]
      <4>1. 1 \in 0 .. 1 /\ Put(t, chunk_data(j))
        BY <1>7, <2>15
      <4> QED
        BY <1>1, <2>18, <4>1, FirstRecord
    <3>2. \A c \in Chunks : own[c] = u => c # i /\ c # s.chunk
      BY <2>1, <2>3, <2>18, NobodyAssumption
    <3>3. SameChunks(u, own, off, own1, off1)
      BY <2>9, <2>11, <2>12, <2>15, <2>18, <3>1, <3>2 DEF SameChunks
    <3>4. SameThread(u)
      BY <1>1, <2>10, <2>18, <3>1 DEF SameThread, Untouched
    <3> QED
      BY <1>1, <1>3, <2>10, <2>18, <3>3, <3>4, ThreadFrame DEF ChainInv, Untouched
  <2> QED
    BY <2>10, <2>13, <2>17, <2>18 DEF DInv, ChainInv
<1> QED
  BY <1>5, <1>6, <1>7 DEF release_thread

\* A thread exits: its state is left to the consumer, or freed.
LEMMA ExitDrain == ASSUME NEW t \in Threads, IInv, DInv, thread_exited(t) PROVE DInv'
<1>1. /\ pc[t] = "idle" /\ ~registry_lock /\ pc' = [pc EXCEPT ![t] = "gone"]
      /\ UNCHANGED <<sessionVars, toggleVars, consumerVars, call, drained>>
  BY DEF thread_exited
<1>2. /\ TypeOK /\ PlaceInv /\ Place(t) /\ call[t].index = None
      /\ cpc \notin {"drain", "pos", "finished", "done", "stopRelease"}
      /\ ~threads[t].exited
  BY <1>1 DEF DInv, PlaceInv, Place, ConsumerInv, IInv, WritingInv
<1>3. CASE threads[t].session = session_id /\ threads[t].chunk # None
  <2>1. release_thread(t, TRUE)
    BY <1>3 DEF thread_exited
  <2>2. Releasing(t, TRUE)
    <3>1. "gone" \in Pcs \ WriterPc
      BY DEF Pcs, WriterPc
    <3> QED
      BY <1>1, <1>2, <1>3, <3>1 DEF Releasing, WriterPc
  <2> QED
    BY <2>1, <2>2, ReleaseDrain
<1>4. CASE ~(threads[t].session = session_id /\ threads[t].chunk # None)
  <2>1. threads' = [threads EXCEPT ![t] = Reset(0)] /\ UNCHANGED <<poolVars, recordVars>>
    BY <1>4 DEF thread_exited
  <2>2. /\ \A u \in Threads : u # t => Untouched(u)
        /\ threads'[t] = Reset(0) /\ call'[t] = call[t] /\ pc'[t] = "gone"
    <3>1. call' = [call EXCEPT ![t] = call[t]]
      BY <1>1, <1>2, SameRec
    <3> QED
      BY <1>1, <1>2, <2>1, <3>1, OthersUntouched
  <2>3. Reset(0) \in ThreadRec
    BY <1>2, SizeAssumption DEF Reset, ThreadRec, None, TypeOK
  <2>4. TypeOK'
    <3>1. threads' \in [Threads -> ThreadRec'] /\ pc' \in [Threads -> Pcs]
      BY <1>1, <1>2, <2>1, <2>3 DEF TypeOK, ThreadRec, Pcs
    <3> QED
      BY <1>1, <1>2, <2>1, <3>1 DEF TypeOK, ThreadRec, Pcs
  <2>5. PlaceInv'
    <3>1. Place(t)'
      BY <1>1, <1>2, <2>2 DEF Place, Reset, WriterPc
    <3> QED
      BY <1>2, <2>2, <3>1, PlaceFrame DEF PlaceInv
  <2>6. ConsumerInv'
    BY <1>1, <1>2 DEF DInv, ConsumerInv
  <2>7. FinalInv'
    BY <1>1, <1>2, <2>1, <2>2 DEF DInv, FinalInv, Stopped, Untouched, Reset
  <2>8. PICK own \in Owners, off \in Offsets : ChainInv(own, off)
    BY DEF DInv
  <2>9. PoolInv(own)'
    BY <1>1, <2>1, <2>2, <2>8 DEF ChainInv, PoolInv, Untouched
  <2>10. ASSUME NEW u \in Threads, u # t PROVE ThreadInv(u, own, off)'
    <3>1. SameThread(u) /\ SameChunks(u, own, off, own, off)
      BY <1>1, <2>1, <2>2, <2>10 DEF SameThread, SameChunks, Untouched
    <3> QED
      BY <1>2, <2>2, <2>8, <2>10, <3>1, ThreadFrame DEF ChainInv, Untouched
  <2>11. ThreadInv(t, own, off)'
    <3>1. ThreadInv(t, own, off) /\ ~Live(t)
      BY <1>1, <1>2, <1>4, <2>8 DEF ChainInv, Live, Place
    <3>2. \A c : ~InChain(c, t, own)'
      BY <1>1, <2>2, <3>1 DEF ThreadInv, ChainEnds, InChain
    <3>3. ~Live(t)'
      BY <2>2 DEF Live, Reset
    <3> QED
      BY <1>1, <2>1, <3>1, <3>2, <3>3 DEF ThreadInv, ChainEnds, ChainLinks, ChainPreds, ChainOrder,
         ChainFirst, ChainContent, ChainProgress
  <2> QED
    BY <2>4, <2>5, <2>6, <2>7, <2>8, <2>9, <2>10, <2>11 DEF DInv, ChainInv
<1> QED
  BY <1>3, <1>4

\* A stop releases the threads of the session.
LEMMA StopReleaseDrain == ASSUME NEW t \in Threads, IInv, DInv, StopRelease(t) PROVE DInv'
<1>1. /\ release_thread(t, FALSE) /\ cpc = "stopRelease" /\ t \in todo /\ todo' = todo \ {t}
      /\ UNCHANGED <<sessionVars, toggleVars, cpc, reading, registry_lock, pc, call, drained>>
  BY DEF StopRelease
<1>2. Stopped /\ pc[t] \notin WriterPc
  BY <1>1 DEF Stopped, IInv, QuietInv, StopPc
<1>3. pc = [pc EXCEPT ![t] = pc[t]] /\ pc[t] \in Pcs
  BY DEF DInv, TypeOK, Pcs
<1>4. threads[t].session = session_id /\ ~threads[t].exited
  BY <1>1 DEF DInv, ConsumerInv
<1>5. Releasing(t, FALSE)
  BY <1>1, <1>2, <1>3, <1>4 DEF Releasing
<1> QED
  BY <1>1, <1>5, ReleaseDrain
-----------------------------------------------------------------------------
(* hl_prof_drain. *)

\* The consumer takes the first chunk to read.
LEMMA ReadingChain ==
    ASSUME NEW t \in Threads, NEW own \in Owners, NEW off \in Offsets, ThreadInv(t, own, off),
           UNCHANGED <<session_id, chunks, mem, log, drained, pc, call>>,
           threads'[t].session = threads[t].session, threads'[t].chunk = threads[t].chunk,
           threads'[t].first_chunk = threads[t].first_chunk,
           threads'[t].cur = threads[t].cur, threads'[t].pos = threads[t].pos,
           threads'[t].read_offset = threads[t].read_offset, ReadFrom(t)' = ReadFrom(t)
    PROVE  ThreadInv(t, own, off)'
<1>1. Live(t)' = Live(t) /\ ReadFrom(t)' = ReadFrom(t) /\ WriteTo(t)' = WriteTo(t)
  BY DEF Live, WriteTo
<1>2. \A c : InChain(c, t, own)' = InChain(c, t, own)
  BY DEF InChain
<1>3. \A c : Used(c, t)' = Used(c, t)
  BY <1>1 DEF Used
<1>4. ChainEnds(t, own)' /\ ChainPreds(t, own)'
  BY <1>1, <1>2 DEF ThreadInv, ChainEnds, ChainPreds
<1>5. ChainLinks(t, own, off)'
  BY <1>1, <1>2 DEF ThreadInv, ChainLinks
<1>6. ChainOrder(t, own, off)' /\ ChainFirst(t, own, off)'
  BY <1>1, <1>2 DEF ThreadInv, ChainOrder, ChainFirst
<1>7. ChainContent(t, own, off)'
  BY <1>1, <1>2, <1>3 DEF ThreadInv, ChainContent
<1>8. ReadLimit(t)' = ReadLimit(t)
  BY <1>1, <1>3 DEF ReadLimit
<1>9. ChainProgress(t, off)'
  BY <1>1, <1>8 DEF ThreadInv, ChainProgress
<1> QED
  BY <1>4, <1>5, <1>6, <1>7, <1>9 DEF ThreadInv

\* The entry of drain_thread: a thread without a published chunk is drained.
LEMMA DrainThreadDrain ==
    ASSUME NEW t \in Threads, IInv, DInv, ~FirstWindow, DrainThread(t) PROVE DInv'
<1> DEFINE s == threads[t]
<1>1. /\ cpc = "drain" /\ t \in todo /\ reading' = t /\ todo' = todo \ {t}
      /\ ~(pc[t] = "fresh" /\ s.chunk = None)
      /\ UNCHANGED <<sessionVars, toggleVars, poolVars, registry_lock, recordVars, pc, call, drained>>
  BY DEF DrainThread
<1>2. /\ TypeOK /\ PlaceInv /\ Place(t) /\ s \in ThreadRec
      /\ call = [call EXCEPT ![t] = call[t]] /\ pc = [pc EXCEPT ![t] = pc[t]]
      /\ todo' \subseteq Threads /\ registry_lock
  <2>1. pc = [pc EXCEPT ![t] = pc[t]] /\ todo \subseteq Threads
    BY DEF DInv, TypeOK
  <2> QED
    BY <1>1, <2>1, SameRec DEF DInv, PlaceInv, ConsumerInv
<1>3. PICK own \in Owners, off \in Offsets : ChainInv(own, off)
  BY DEF DInv
<1>4. CASE s.session # session_id \/ (s.read_chunk = None /\ s.first_chunk = None)
  <2>1. cpc' = "done" /\ threads' = threads
    BY <1>4 DEF DrainThread
  <2>2. drained[t] = log[t]
    <3>1. ~Live(t)
      BY <1>4 DEF Live
    <3> QED
      BY <1>3, <3>1 DEF ChainInv, ThreadInv, ChainProgress
  <2>3. ConsumerInv'
    <3>1. ~(s.exited /\ s.session = session_id)
      BY <1>2, <1>4 DEF Place
    <3> QED
      BY <1>1, <1>2, <2>1, <3>1 DEF ConsumerInv
  <2>4. FinalInv'
    BY <1>1, <2>1, <2>2 DEF DInv, FinalInv, Stopped
  <2> QED
    BY <1>1, <1>2, <2>1, <2>3, <2>4, ControlKeeps DEF DInv, TypeOK
<1>5. CASE s.session = session_id /\ s.read_chunk # None
  <2>1. cpc' = "pos" /\ threads' = threads
    BY <1>5 DEF DrainThread
  <2>2. ConsumerInv'
    BY <1>1, <1>2, <1>5, <2>1 DEF ConsumerInv
  <2>3. FinalInv'
    BY <1>1, <2>1 DEF DInv, FinalInv, Stopped
  <2> QED
    BY <1>1, <1>2, <2>1, <2>2, <2>3, ControlKeeps DEF DInv, TypeOK
<1>6. CASE s.session = session_id /\ s.read_chunk = None /\ s.first_chunk # None
  <2> DEFINE r == [s EXCEPT !.read_chunk = s.first_chunk, !.read_offset = 0]
  <2>1. cpc' = "pos" /\ threads' = [threads EXCEPT ![t] = r]
    BY <1>6 DEF DrainThread
  <2>2. s.read_offset = 0
    BY <1>2, <1>6 DEF Place
  <2>3. /\ r \in ThreadRec /\ r.session = s.session /\ r.chunk = s.chunk /\ r.cur = s.cur
        /\ r.pos = s.pos /\ r.held = s.held /\ r.first_chunk = s.first_chunk
        /\ r.exited = s.exited /\ r.dropped = s.dropped /\ r.read_chunk = s.first_chunk
        /\ r.read_offset = s.read_offset
    BY <1>2, <2>2 DEF ThreadRec
  <2> HIDE DEF r
  <2>4. /\ \A u \in Threads : u # t => Untouched(u)
        /\ threads'[t] = r /\ call'[t] = call[t] /\ pc'[t] = pc[t]
    <3>1. call' = [call EXCEPT ![t] = call[t]] /\ pc' = [pc EXCEPT ![t] = pc[t]]
      BY <1>1, <1>2
    <3> QED
      BY <1>2, <2>1, <3>1, OthersUntouched
  <2>5. TypeOK'
    <3>1. threads' \in [Threads -> ThreadRec']
      BY <1>1, <1>2, <2>1, <2>3 DEF TypeOK, ThreadRec
    <3> QED
      BY <1>1, <1>2, <2>1, <3>1 DEF TypeOK, ThreadRec
  <2>6. PlaceInv'
    <3>1. Place(t)'
      BY <1>1, <1>2, <1>6, <2>2, <2>3, <2>4 DEF Place, Room
    <3> QED
      BY <1>2, <2>4, <3>1, PlaceFrame DEF PlaceInv
  <2>7. ConsumerInv'
    BY <1>1, <1>2, <1>6, <2>1, <2>3, <2>4 DEF ConsumerInv
  <2>8. FinalInv'
    BY <1>1, <2>1, <2>3, <2>4 DEF DInv, FinalInv, Stopped, Untouched
  <2>9. PoolInv(own)'
    BY <1>1, <1>3 DEF ChainInv, PoolInv
  <2>10. ThreadInv(t, own, off)'
    <3>1. ReadFrom(t)' = ReadFrom(t)
      BY <1>6, <2>3, <2>4 DEF ReadFrom
    <3> QED
      BY <1>1, <1>3, <2>3, <2>4, <3>1, ReadingChain DEF ChainInv
  <2>11. ASSUME NEW u \in Threads, u # t PROVE ThreadInv(u, own, off)'
    <3>1. SameChunks(u, own, off, own, off) /\ SameThread(u)
      BY <1>1, <2>4, <2>11 DEF SameChunks, SameThread, Untouched
    <3> QED
      BY <1>2, <1>3, <2>4, <2>11, <3>1, ThreadFrame DEF ChainInv, Untouched
  <2> QED
    BY <1>3, <2>5, <2>6, <2>7, <2>8, <2>9, <2>10, <2>11 DEF DInv, ChainInv
<1> QED
  BY <1>4, <1>5, <1>6

\* A prefix of the same length is all.
LEMMA PrefixFull ==
    ASSUME NEW d \in Seq(Record \cup {Blank}), NEW l \in Seq(Record), Len(d) = Len(l),
           \A i \in 1 .. Len(d) : d[i] = l[i]
    PROVE  d = l
<1>1. l \in Seq(Record \cup {Blank})
  OBVIOUS
<1> QED
  BY <1>1, SeqEqual

\* The records from the offset up to n follow those handed over.
LEMMA HandedOver ==
    ASSUME NEW t \in Threads, NEW own \in Owners, NEW off \in Offsets, TypeOK, PlaceInv,
           ThreadInv(t, own, off), Live(t), threads[t].read_chunk # None,
           NEW n \in Nat, n <= Used(ReadFrom(t), t), threads[t].read_offset <= n, HandOver(t, n)
    PROVE  /\ drained' \in [Threads -> Seq(Record \cup {Blank})]
           /\ \A u \in Threads : u # t => drained'[u] = drained[u]
           /\ Len(drained'[t]) = off[ReadFrom(t)] + n
           /\ Len(drained'[t]) <= Len(log[t])
           /\ \A i \in 1 .. Len(drained'[t]) : drained'[t][i] = log[t][i]
<1> DEFINE s == threads[t]
           c == s.read_chunk
           m == s.read_offset
           g == Segment(c, m, n)
           d == drained[t]
<1>1. ReadFrom(t) = c /\ c \in Chunks /\ InChain(c, t, own)
  BY DEF ReadFrom, ThreadInv, ChainEnds, InChain
<1>2. /\ Used(c, t) \in 0 .. ChunkSize - 1 /\ off[c] \in Nat
      /\ off[c] + Used(c, t) <= Len(log[t]) /\ Len(log[t]) \in Nat
  <2>1. Len(log[t]) \in Nat
    BY DEF TypeOK
  <2> QED
    BY <1>1, <2>1, BeforeLast
<1>3. /\ m \in Nat /\ off[c] + m = Len(d) /\ m <= n /\ n <= Used(c, t)
      /\ \A i \in 1 .. Len(d) : d[i] = log[t][i]
  BY <1>1, SizeAssumption DEF TypeOK, ThreadInv, ChainProgress
<1>4. d \in Seq(Record \cup {Blank}) /\ drained' = [drained EXCEPT ![t] = d \o g]
  BY DEF TypeOK, HandOver
<1>5. g = [i \in 1 .. n - m |-> mem[chunk_data(c) + m + i - 1]]
  BY DEF Segment
<1> HIDE DEF g, d, c, m
<1>6. ASSUME NEW i \in 1 .. n - m
      PROVE  /\ mem[chunk_data(c) + m + i - 1] \in Record \cup {Blank}
             /\ mem[chunk_data(c) + m + i - 1] = log[t][Len(d) + i]
  <2> DEFINE j == m + i - 1
  <2>1. j \in 0 .. Used(c, t) - 1 /\ j \in 0 .. ChunkSize - 1
    <3>1. \A u, z \in Nat : n <= u /\ u <= z - 1 => j \in 0 .. u - 1 /\ j \in 0 .. z - 1
      BY <1>3
    <3>2. Used(c, t) \in Nat /\ Used(c, t) <= ChunkSize - 1 /\ ChunkSize \in Nat
      BY <1>2, SizeAssumption
    <3> QED
      BY <1>3, <3>1, <3>2
  <2>2. chunk_data(c) \in Nat /\ chunk_data(c) + j \in Cells
    BY <1>1, <2>1, CellFacts
  <2>a. i \in Nat /\ m \in Nat /\ off[c] \in Nat
    BY <1>2, <1>3
  <2>3. mem[chunk_data(c) + j] = log[t][off[c] + j + 1]
    BY <1>1, <2>1 DEF ThreadInv, ChainContent
  <2>4. chunk_data(c) + m + i - 1 = chunk_data(c) + j /\ off[c] + j + 1 = Len(d) + i
    <3>1. \A x \in Nat : x + m + i - 1 = x + j /\ x + j + 1 = (x + m) + i
      BY <2>a
    <3> HIDE DEF j
    <3> QED
      BY <1>3, <2>2, <2>a, <3>1
  <2>5. mem[chunk_data(c) + j] \in Record \cup {Blank}
    BY <2>2 DEF TypeOK
  <2> QED
    BY <2>3, <2>4, <2>5
<1>7. g \in Seq(Record \cup {Blank}) /\ Len(g) = n - m
      /\ \A i \in 1 .. n - m : g[i] = log[t][Len(d) + i]
  <2> DEFINE k == n - m
             f(i) == mem[chunk_data(c) + m + i - 1]
  <2>1. k \in Nat
    BY <1>3
  <2>2. \A i \in 1 .. k : f(i) \in Record \cup {Blank} /\ f(i) = log[t][Len(d) + i]
    BY <1>6
  <2>3. g = [i \in 1 .. k |-> f(i)]
    BY <1>5
  <2> HIDE DEF k, f
  <2>4. g \in Seq(Record \cup {Blank}) /\ Len(g) = k
    BY <2>1, <2>2, <2>3
  <2>5. \A i \in 1 .. k : g[i] = log[t][Len(d) + i]
    BY <2>2, <2>3
  <2> QED
    BY <2>4, <2>5 DEF k
<1>8. /\ d \o g \in Seq(Record \cup {Blank}) /\ Len(d \o g) = Len(d) + Len(g)
      /\ \A i \in 1 .. Len(d) + Len(g) :
            (d \o g)[i] = IF i <= Len(d) THEN d[i] ELSE g[i - Len(d)]
  <2>1. d \in Seq(Record \cup {Blank}) /\ g \in Seq(Record \cup {Blank})
    BY <1>4, <1>7
  <2> QED
    BY <2>1
<1>9. Len(d \o g) = off[c] + n /\ Len(d) \in Nat /\ off[c] + n <= Len(log[t])
  <2>1. Len(d) \in Nat
    BY <1>4
  <2>2. Len(d) + (n - m) = off[c] + n
    BY <1>2, <1>3, <2>1
  <2>3. off[c] + n <= Len(log[t])
    BY <1>2, <1>3, SizeAssumption
  <2> QED
    BY <1>7, <1>8, <2>1, <2>2, <2>3
<1>10. ASSUME NEW i \in 1 .. Len(d \o g) PROVE (d \o g)[i] = log[t][i]
  <2>1. CASE i <= Len(d)
    BY <1>3, <1>8, <1>9, <2>1
  <2>2. CASE ~(i <= Len(d))
    <3>1. i - Len(d) \in 1 .. n - m /\ Len(d) + (i - Len(d)) = i
      BY <1>2, <1>3, <1>9, <2>2
    <3>2. (d \o g)[i] = g[i - Len(d)]
      BY <1>8, <2>2
    <3> QED
      BY <1>7, <3>1, <3>2
  <2> QED
    BY <2>1, <2>2
<1>11. /\ drained'[t] = d \o g /\ \A u \in Threads : u # t => drained'[u] = drained[u]
       /\ drained' \in [Threads -> Seq(Record \cup {Blank})]
  BY <1>4, <1>8 DEF TypeOK
<1> QED
  BY <1>1, <1>9, <1>10, <1>11

\* The thread that is read has published a chunk.
LEMMA ReadingFacts ==
    ASSUME IInv, DInv, cpc \in {"pos", "finished"}
    PROVE  /\ reading \in Threads /\ Live(reading) /\ registry_lock
           /\ threads[reading] \in ThreadRec /\ Place(reading)
           /\ threads[reading].read_chunk # None /\ threads[reading].session = session_id
           /\ ReadFrom(reading) = threads[reading].read_chunk
           /\ threads[reading].read_chunk \in Chunks
           /\ ~(pc[reading] = "fresh" /\ threads[reading].chunk = None)
           /\ call = [call EXCEPT ![reading] = call[reading]]
           /\ pc = [pc EXCEPT ![reading] = pc[reading]]
<1>1. /\ reading \in Threads /\ registry_lock
      /\ threads[reading].read_chunk # None /\ threads[reading].session = session_id
  BY DEF DInv, ConsumerInv
<1>2. /\ threads[reading] \in ThreadRec /\ Place(reading)
      /\ call = [call EXCEPT ![reading] = call[reading]]
  BY <1>1, SameRec DEF DInv, PlaceInv
<1>3. pc = [pc EXCEPT ![reading] = pc[reading]]
  BY <1>1 DEF DInv, TypeOK
<1>4. Live(reading) /\ ReadFrom(reading) = threads[reading].read_chunk
  BY <1>1, <1>2 DEF Live, ReadFrom, Place
<1>5. threads[reading].read_chunk \in Chunks
  BY <1>1, <1>2 DEF ThreadRec
<1>6. ~(pc[reading] = "fresh" /\ threads[reading].chunk = None)
  BY <1>1, <1>2 DEF Place
<1> QED
  BY <1>1, <1>2, <1>3, <1>4, <1>5, <1>6

\* The position has left the chunk that is read: it is neither the thread's own
\* chunk nor the one that it is about to enter.
LEMMA LeftBehind ==
    ASSUME NEW t \in Threads, NEW own \in Owners, NEW off \in Offsets, TypeOK, PlaceInv,
           ThreadInv(t, own, off), Live(t), threads[t].read_chunk # None,
           threads[t].read_chunk # threads[t].chunk
    PROVE  threads[t].read_chunk # WriteTo(t)
<1> SUFFICES ASSUME threads[t].read_chunk = WriteTo(t) PROVE FALSE
  OBVIOUS
<1> DEFINE c == threads[t].chunk
           w == WriteTo(t)
<1>1. pc[t] = "fresh" /\ ReadFrom(t) = w
  BY DEF WriteTo, ReadFrom
<1>2. c # None
  BY <1>1 DEF PlaceInv, Place
<1>3. InChain(c, t, own) /\ c \in Chunks /\ InChain(w, t, own) /\ w \in Chunks /\ c # w
  BY <1>2 DEF ThreadInv, ChainEnds, InChain
<1> HIDE DEF c, w
<1>4. chunks[c].size \in 1 .. ChunkSize - 1 /\ off[c] + chunks[c].size <= off[w]
  BY <1>3 DEF ThreadInv, ChainLinks, ChainOrder, w
<1>5. off[w] <= off[c] /\ off[c] \in Nat /\ off[w] \in Nat
  BY <1>1, <1>3 DEF ThreadInv, ChainFirst, Offsets
<1> QED
  BY <1>4, <1>5, SizeAssumption

\* The load of the position: what is published in the chunk is handed over.
LEMMA DrainPosDrain == ASSUME IInv, DInv, DrainPos PROVE DInv'
<1>0. cpc = "pos"
  BY DEF DrainPos
<1>1. PICK t \in Threads : t = reading
  BY <1>0, ReadingFacts
<1> DEFINE s == threads[t]
           c == s.read_chunk
           base == chunk_data(c)
<1>2. /\ TypeOK /\ PlaceInv /\ Live(t) /\ registry_lock /\ s \in ThreadRec /\ Place(t)
      /\ c # None /\ s.session = session_id /\ ReadFrom(t) = c /\ c \in Chunks
      /\ call = [call EXCEPT ![t] = call[t]] /\ pc = [pc EXCEPT ![t] = pc[t]]
      /\ ~(pc[t] = "fresh" /\ s.chunk = None)
  BY <1>0, <1>1, ReadingFacts DEF DInv
<1>3. PICK own \in Owners, off \in Offsets : ChainInv(own, off)
  BY DEF DInv
<1>4. ThreadInv(t, own, off) /\ InChain(c, t, own)
  BY <1>2, <1>3 DEF ChainInv, ThreadInv, ChainEnds
<1>5. UNCHANGED <<sessionVars, toggleVars, poolVars, todo, reading, registry_lock, recordVars, pc, call>>
  BY DEF DrainPos
<1>6. base \in Nat /\ s.chunk # None => s.chunk \in Chunks
  BY <1>2, CellFacts DEF ThreadRec
<1>7. CASE s.pos \notin base .. base + ChunkSize - 1
  <2>1. cpc' = "finished" /\ drained' = drained /\ threads' = threads
    BY <1>1, <1>7 DEF DrainPos
  <2>2. c # s.chunk
    <3> SUFFICES ASSUME c = s.chunk PROVE FALSE
      OBVIOUS
    <3>1. /\ s.pos \in Nat /\ s.cur \in Nat /\ base \in Nat /\ s.pos - base \in 0 .. s.cur - base
          /\ s.cur - base \in 0 .. ChunkSize - 1
      BY <1>2, CurrentCell
    <3> QED
      BY <1>7, <3>1, SizeAssumption
  <2>3. c # WriteTo(t)
    BY <1>2, <1>4, <2>2, LeftBehind
  <2>4. ConsumerInv'
    <3>1. WriteTo(reading)' = WriteTo(t)
      BY <1>1, <1>5, <2>1 DEF WriteTo
    <3> QED
      BY <1>1, <1>2, <1>5, <2>1, <2>2, <2>3, <3>1 DEF ConsumerInv
  <2>5. FinalInv'
    BY <1>0, <1>5, <2>1 DEF DInv, FinalInv, Stopped
  <2> QED
    BY <1>0, <1>2, <1>5, <2>1, <2>4, <2>5, ControlKeeps DEF DInv, TypeOK
<1>8. CASE s.pos \in base .. base + ChunkSize - 1
  <2>0. s.chunk # None
    <3>1. base \in Nat
      BY <1>2, CellFacts
    <3>2. s.pos # None
      BY <1>8, <3>1, SizeAssumption DEF None
    <3> QED
      BY <1>2, <3>2 DEF Place
  <2>1. /\ s.chunk \in Chunks /\ s.cur \in Nat /\ s.pos \in Nat /\ chunk_data(s.chunk) \in Nat
        /\ s.cur - chunk_data(s.chunk) \in 0 .. ChunkSize - 1
        /\ s.pos - chunk_data(s.chunk) \in 0 .. s.cur - chunk_data(s.chunk)
    BY <1>2, <2>0, CurrentCell
  <2>2. c = s.chunk
    <3>1. base \in Nat
      BY <1>2, CellFacts
    <3>2. s.pos - base \in 0 .. ChunkSize - 1 /\ base + (s.pos - base) = s.pos
      BY <1>8, <2>1, <3>1, SizeAssumption
    <3>3. s.pos - chunk_data(s.chunk) \in 0 .. ChunkSize - 1
          /\ chunk_data(s.chunk) + (s.pos - chunk_data(s.chunk)) = s.pos
      BY <2>1, SizeAssumption
    <3> QED
      BY <1>2, <2>1, <3>2, <3>3, CellDisjoint
  <2>3. PICK n \in Nat : n = s.pos - base
    BY <2>1, <2>2
  <2> DEFINE r == [s EXCEPT !.read_offset = n]
  <2>4. /\ n <= Used(c, t) /\ n \in 0 .. ChunkSize /\ n <= s.cur - base
    <3>1. n <= s.cur - base /\ n \in 0 .. ChunkSize
      BY <2>1, <2>2, <2>3, SizeAssumption
    <3>2. Used(c, t) = s.cur - base
      <4>1. CASE pc[t] # "fresh"
        BY <2>2, <4>1 DEF Used, WriteTo
      <4>2. CASE pc[t] = "fresh"
        BY <1>4, <2>2, <4>2 DEF Used, WriteTo, ThreadInv, ChainLinks
      <4> QED
        BY <4>1, <4>2
    <3> QED
      BY <3>1, <3>2
  <2>5. /\ r \in ThreadRec /\ r.session = s.session /\ r.chunk = s.chunk /\ r.cur = s.cur
        /\ r.pos = s.pos /\ r.held = s.held /\ r.first_chunk = s.first_chunk
        /\ r.exited = s.exited /\ r.dropped = s.dropped /\ r.read_chunk = s.read_chunk
        /\ r.read_offset = n
    BY <1>2, <2>4 DEF ThreadRec
  <2>6. s.read_offset \in Nat /\ s.read_offset <= n
    <3>1. s.read_offset <= ReadLimit(t)
      BY <1>2, <1>4 DEF ThreadInv, ChainProgress
    <3>2. ReadLimit(t) = n
      BY <1>2, <2>2, <2>3 DEF ReadLimit
    <3> QED
      BY <1>2, <3>1, <3>2, SizeAssumption DEF ThreadRec
  <2>7. /\ cpc' = "done" /\ threads' = [threads EXCEPT ![t] = r]
        /\ drained' \in [Threads -> Seq(Record \cup {Blank})]
        /\ \A u \in Threads : u # t => drained'[u] = drained[u]
        /\ Len(drained'[t]) = off[c] + n
        /\ Len(drained'[t]) <= Len(log[t])
        /\ \A i \in 1 .. Len(drained'[t]) : drained'[t][i] = log[t][i]
    <3>1. cpc' = "done"
      BY <1>1, <1>8 DEF DrainPos
    <3>2. CASE n > s.read_offset
      <4>1. HandOver(t, n) /\ threads' = [threads EXCEPT ![t] = r]
        <5>1. /\ HandOver(reading, s.pos - base)
              /\ threads' = [threads EXCEPT ![reading].read_offset = s.pos - base]
          BY <1>1, <1>8, <2>3, <3>2 DEF DrainPos
        <5> QED
          BY <1>1, <2>3, <5>1
      <4> HIDE DEF r
      <4>2. n <= Used(ReadFrom(t), t)
        BY <1>2, <2>4
      <4> QED
        BY <1>2, <1>4, <2>6, <3>1, <4>1, <4>2, HandedOver
    <3>3. CASE ~(n > s.read_offset)
      <4>1. drained' = drained /\ threads' = threads
        BY <1>1, <1>8, <2>3, <3>3 DEF DrainPos
      <4>2. n = s.read_offset
        BY <2>6, <3>3
      <4>3. threads = [threads EXCEPT ![t] = r]
        BY <1>2, <4>2 DEF TypeOK, ThreadRec
      <4> HIDE DEF r
      <4> QED
        BY <1>2, <1>4, <3>1, <4>1, <4>2, <4>3 DEF TypeOK, ThreadInv, ChainProgress
    <3> QED
      BY <3>2, <3>3
  <2> HIDE DEF r
  <2>8. /\ \A u \in Threads : u # t => Untouched(u)
        /\ threads'[t] = r /\ call'[t] = call[t] /\ pc'[t] = pc[t]
    <3>1. call' = [call EXCEPT ![t] = call[t]] /\ pc' = [pc EXCEPT ![t] = pc[t]]
      BY <1>2, <1>5
    <3> QED
      BY <1>2, <2>7, <3>1, OthersUntouched
  <2>9. TypeOK'
    <3>1. threads' \in [Threads -> ThreadRec']
      BY <1>2, <1>5, <2>5, <2>7 DEF TypeOK, ThreadRec
    <3> QED
      BY <1>2, <1>5, <2>7, <3>1 DEF TypeOK, ThreadRec
  <2>10. PlaceInv'
    <3>1. Place(t)'
      BY <1>2, <2>5, <2>8 DEF Place, Room
    <3> QED
      BY <1>2, <2>8, <3>1, PlaceFrame DEF PlaceInv
  <2>11. ConsumerInv'
    <3>1. s.exited => s.pos = s.cur
      BY <1>2 DEF Place, IInv, WritingInv
    <3> QED
      BY <1>1, <1>2, <1>5, <2>2, <2>3, <2>5, <2>7, <2>8, <3>1 DEF ConsumerInv
  <2>12. FinalInv'
    <3>1. ASSUME ~session_open PROVE drained'[t] = log[t]
      <4>1. Stopped /\ pc[t] # "fresh" /\ s.held = None
        BY <1>0, <1>2, <3>1 DEF Stopped, IInv, QuietInv, WriterPc, DInv, FinalInv
      <4>2. s.pos = s.cur /\ WriteTo(t) = s.chunk
        BY <1>2, <4>1 DEF Place, WriteTo
      <4>3. off[c] + n = Len(log[t])
        BY <1>2, <1>4, <2>2, <2>3, <4>1, <4>2 DEF ThreadInv, ChainContent, Used
      <4>4. drained'[t] \in Seq(Record \cup {Blank}) /\ log[t] \in Seq(Record)
        BY <1>2, <2>7 DEF TypeOK
      <4> QED
        BY <2>7, <4>3, <4>4, PrefixFull
    <3> QED
      BY <1>0, <1>1, <1>5, <2>5, <2>7, <2>8, <3>1 DEF DInv, FinalInv, Stopped, Untouched
  <2>13. PoolInv(own)'
    BY <1>3, <1>5 DEF ChainInv, PoolInv
  <2>14. ThreadInv(t, own, off)'
    <3>1. Live(t)' = Live(t) /\ ReadFrom(t)' = ReadFrom(t) /\ WriteTo(t)' = WriteTo(t)
      BY <1>5, <2>5, <2>8 DEF Live, ReadFrom, WriteTo
    <3>2. \A e : InChain(e, t, own)' = InChain(e, t, own)
      BY <1>5 DEF InChain
    <3>3. \A e : Used(e, t)' = Used(e, t)
      BY <1>5, <2>5, <2>8, <3>1 DEF Used
    <3>4. ChainEnds(t, own)' /\ ChainPreds(t, own)'
      BY <1>4, <1>5, <2>5, <2>8, <3>1, <3>2 DEF ThreadInv, ChainEnds, ChainPreds
    <3>5. ChainLinks(t, own, off)'
      BY <1>4, <1>5, <2>5, <2>8, <3>1, <3>2 DEF ThreadInv, ChainLinks
    <3>6. ChainOrder(t, own, off)' /\ ChainFirst(t, own, off)'
      BY <1>4, <1>5, <3>1, <3>2 DEF ThreadInv, ChainOrder, ChainFirst
    <3>7. ChainContent(t, own, off)'
      BY <1>4, <1>5, <3>1, <3>2, <3>3 DEF ThreadInv, ChainContent
    <3>8. ReadLimit(t)' = n /\ n <= n
      BY <1>2, <2>2, <2>3, <2>5, <2>8, <3>1 DEF ReadLimit
    <3>9. ChainProgress(t, off)'
      BY <1>2, <1>5, <2>5, <2>7, <2>8, <3>1, <3>8 DEF ChainProgress
    <3> QED
      BY <3>4, <3>5, <3>6, <3>7, <3>9 DEF ThreadInv
  <2>15. ASSUME NEW u \in Threads, u # t PROVE ThreadInv(u, own, off)'
    <3>1. SameChunks(u, own, off, own, off) /\ SameThread(u)
      BY <1>5, <2>7, <2>8, <2>15 DEF SameChunks, SameThread, Untouched
    <3> QED
      BY <1>2, <1>3, <2>8, <2>15, <3>1, ThreadFrame DEF ChainInv, Untouched
  <2> QED
    BY <1>3, <2>9, <2>10, <2>11, <2>12, <2>13, <2>14, <2>15 DEF DInv, ChainInv
<1> QED
  BY <1>7, <1>8
\* A chunk goes back to the free list.
LEMMA PoolPushed ==
    ASSUME NEW own \in Owners, NEW own1 \in Owners, NEW c \in Chunks, TypeOK, PoolInv(own),
           own[c] \in Threads, own1[c] = Nobody, \A e \in Chunks : e # c => own1[e] = own[e],
           \A u \in Threads : pc[u] = "link" => call[u].index # c /\ call[u].index \in Chunks,
           free' = Pushed(c), UNCHANGED <<session_id, pc, call>>
    PROVE  PoolInv(own1)' /\ free' \in Seq(Chunks)
<1>1. free \in Seq(Chunks) /\ \A i \in 1 .. Len(free) : free[i] \in Chunks
  BY DEF TypeOK
<1>2. \A i \in 1 .. Len(free) : free[i] # c
  BY NobodyAssumption DEF PoolInv
<1>3. \A i, j \in 1 .. Len(free) : free[i] = free[j] => i = j
  BY DEF PoolInv
<1>0. PICK q \in Seq(Chunks) : q = free
  BY <1>1
<1>4. PICK p : InFront(p, c, q)
  BY DEF InFront
<1>5. /\ p \in Seq(Chunks)
      /\ \A i, j \in 1 .. Len(p) : p[i] = p[j] => i = j
      /\ \A i \in 1 .. Len(p) : p[i] = c \/ \E j \in 1 .. Len(free) : p[i] = free[j]
      /\ \E i \in 1 .. Len(p) : p[i] = c
      /\ \A j \in 1 .. Len(free) : \E i \in 1 .. Len(p) : p[i] = free[j]
  <2>1. /\ \A i, j \in 1 .. Len(q) : q[i] = q[j] => i = j
        /\ \A i \in 1 .. Len(q) : q[i] # c
    BY <1>0, <1>2, <1>3
  <2>2. /\ p \in Seq(Chunks)
        /\ \A i, j \in 1 .. Len(p) : p[i] = p[j] => i = j
        /\ \A i \in 1 .. Len(p) : p[i] = c \/ \E j \in 1 .. Len(q) : p[i] = q[j]
        /\ \E i \in 1 .. Len(p) : p[i] = c
        /\ \A j \in 1 .. Len(q) : \E i \in 1 .. Len(p) : p[i] = q[j]
    BY <1>4, <2>1, PushedBack
  <2> QED
    BY <1>0, <2>2
<1>6. free' = p
  BY <1>0, <1>4 DEF Pushed, InFront
<1>7. \A i \in 1 .. Len(p) : own1[p[i]] = Nobody
  BY <1>1, <1>5 DEF PoolInv
<1>8. session_id > 0 =>
         \A e \in Chunks : own1[e] = Nobody => \E i \in 1 .. Len(p) : p[i] = e
  <2> SUFFICES ASSUME session_id > 0, NEW e \in Chunks, own1[e] = Nobody, e # c
               PROVE  \E i \in 1 .. Len(p) : p[i] = e
    BY <1>5
  <2>1. PICK j \in 1 .. Len(free) : free[j] = e
    BY DEF PoolInv
  <2> QED
    BY <1>5, <2>1
<1>9. \A u \in Threads : pc[u] = "link" => own1[call[u].index] = u
  BY DEF PoolInv
<1> QED
  BY <1>5, <1>6, <1>7, <1>8, <1>9 DEF PoolInv

\* The first chunk has been read, and the consumer goes on to the next.
LEMMA ReadOutChain ==
    ASSUME NEW t \in Threads, NEW own \in Owners, NEW off \in Offsets, NEW own1 \in Owners,
           TypeOK, PlaceInv, ThreadInv(t, own, off), Live(t), NEW c \in Chunks,
           c = threads[t].read_chunk, c # threads[t].chunk, c # WriteTo(t),
           own1[c] = Nobody, \A e \in Chunks : e # c => own1[e] = own[e],
           UNCHANGED <<session_id, chunks, mem, log, pc, call>>,
           threads'[t].session = threads[t].session, threads'[t].chunk = threads[t].chunk,
           threads'[t].first_chunk = threads[t].first_chunk,
           threads'[t].cur = threads[t].cur, threads'[t].pos = threads[t].pos,
           threads'[t].read_chunk = chunks[c].next, threads'[t].read_offset = 0,
           Len(drained'[t]) = off[c] + chunks[c].size, Len(drained'[t]) <= Len(log[t]),
           \A i \in 1 .. Len(drained'[t]) : drained'[t][i] = log[t][i]
    PROVE  ThreadInv(t, own1, off)'
<1>0. PICK d : d = chunks[c].next
  OBVIOUS
<1>1. ReadFrom(t) = c /\ InChain(c, t, own)
  <2>1. ReadFrom(t) = c
    BY SizeAssumption DEF ReadFrom, Chunks, None
  <2> QED
    BY <2>1 DEF ThreadInv, ChainEnds
<1>2. /\ chunks[c].size \in 1 .. ChunkSize - 1 /\ InChain(d, t, own) /\ d \in Chunks
      /\ off[d] = off[c] + chunks[c].size /\ off[c] \in Nat /\ off[d] \in Nat
  BY <1>0, <1>1 DEF ThreadInv, ChainLinks, InChain, Offsets
<1>3. d # c
  BY <1>2, SizeAssumption
<1>4. /\ Live(t)' /\ ReadFrom(t)' = d /\ WriteTo(t)' = WriteTo(t) /\ WriteTo(t) \in Chunks
      /\ InChain(WriteTo(t), t, own)
  <2>1. d # None
    BY <1>2, SizeAssumption DEF Chunks, None
  <2> QED
    BY <1>0, <2>1 DEF Live, ReadFrom, WriteTo, ThreadInv, ChainEnds, InChain
<1>5. \A e : InChain(e, t, own1)' <=> InChain(e, t, own) /\ e # c
  BY NobodyAssumption DEF InChain
<1>6. \A e : Used(e, t)' = Used(e, t)
  BY <1>4 DEF Used
<1>7. \A e \in Chunks : InChain(e, t, own) /\ e # c => off[d] <= off[e]
  <2> SUFFICES ASSUME NEW e \in Chunks, InChain(e, t, own), e # c PROVE off[d] <= off[e]
    OBVIOUS
  <2>1. off[e] \in Nat /\ off[c] <= off[e]
    BY <1>1 DEF Offsets, ThreadInv, ChainFirst
  <2>2. \/ off[c] + chunks[c].size <= off[e]
        \/ e # WriteTo(t) /\ off[e] + chunks[e].size <= off[c]
    BY <1>1 DEF ThreadInv, ChainOrder
  <2>3. e # WriteTo(t) => chunks[e].size \in 1 .. ChunkSize - 1
    BY DEF ThreadInv, ChainLinks
  <2>4. ~(e # WriteTo(t) /\ off[e] + chunks[e].size <= off[c])
    BY <1>2, <2>1, <2>3, SizeAssumption
  <2> QED
    BY <1>2, <2>2, <2>4
<1>8. ChainEnds(t, own1)'
  <2>1. threads[t].chunk # None => InChain(threads[t].chunk, t, own)
    BY DEF ThreadInv, ChainEnds
  <2> QED
    BY <1>2, <1>3, <1>4, <1>5, <2>1 DEF ChainEnds
<1>9. ChainLinks(t, own1, off)'
  <2>1. ASSUME NEW e \in Chunks, InChain(e, t, own), e # c, e # WriteTo(t)
        PROVE  /\ chunks[e].finished /\ chunks[e].size \in 1 .. ChunkSize - 1
               /\ InChain(chunks[e].next, t, own) /\ chunks[e].next # c
               /\ off[chunks[e].next] = off[e] + chunks[e].size
    <3>1. /\ chunks[e].finished /\ chunks[e].size \in 1 .. ChunkSize - 1
          /\ InChain(chunks[e].next, t, own)
          /\ off[chunks[e].next] = off[e] + chunks[e].size
      BY <2>1 DEF ThreadInv, ChainLinks
    <3>2. off[c] <= off[e] /\ off[e] \in Nat
      BY <1>1, <2>1 DEF ThreadInv, ChainFirst, Offsets
    <3>3. off[c] # off[e] + chunks[e].size
      BY <1>2, <3>1, <3>2, SizeAssumption
    <3> QED
      BY <3>1, <3>3
  <2>2. ASSUME pc[t] = "fresh", InChain(threads[t].chunk, t, own)
        PROVE  /\ chunks[threads[t].chunk].size = threads[t].cur - chunk_data(threads[t].chunk)
               /\ chunks[threads[t].chunk].next = call[t].index
               /\ threads[t].chunk # call[t].index
    BY <2>2 DEF ThreadInv, ChainLinks
  <2> QED
    BY <1>4, <1>5, <2>1, <2>2 DEF ChainLinks
<1>10. ChainPreds(t, own1)'
  <2>1. ASSUME NEW e \in Chunks, InChain(e, t, own), e # c, e # d
        PROVE  \E f \in Chunks : InChain(f, t, own) /\ f # c /\ f # WriteTo(t) /\ chunks[f].next = e
    <3>1. PICK f \in Chunks : InChain(f, t, own) /\ f # WriteTo(t) /\ chunks[f].next = e
      BY <1>1, <2>1 DEF ThreadInv, ChainPreds
    <3>2. f # c
      BY <1>0, <2>1, <3>1
    <3> QED
      BY <3>1, <3>2
  <2> QED
    BY <1>4, <1>5, <2>1 DEF ChainPreds
<1>11. ChainOrder(t, own1, off)'
  BY <1>4, <1>5 DEF ThreadInv, ChainOrder
<1>12. ChainFirst(t, own1, off)'
  BY <1>4, <1>5, <1>7 DEF ChainFirst
<1>13. ChainContent(t, own1, off)'
  BY <1>4, <1>5, <1>6 DEF ThreadInv, ChainContent
<1>14. 0 <= ReadLimit(t)'
  <2>1. CASE d = threads[t].chunk
    <3>1. threads[t].chunk # None
      BY <1>2, <2>1, SizeAssumption DEF Chunks, None
    <3>2. threads[t].pos - chunk_data(threads[t].chunk) \in 0 .. threads[t].cur - chunk_data(threads[t].chunk)
          /\ threads[t].cur \in Nat /\ chunk_data(threads[t].chunk) \in Nat
      BY <3>1, CurrentCell
    <3>3. ReadLimit(t)' = threads[t].pos - chunk_data(threads[t].chunk)
      BY <1>4, <2>1 DEF ReadLimit
    <3> QED
      BY <3>2, <3>3
  <2>2. CASE d # threads[t].chunk
    <3>1. ReadLimit(t)' = Used(d, t)
      BY <1>4, <1>6, <2>2 DEF ReadLimit
    <3>2. Used(d, t) \in 0 .. ChunkSize - 1
      BY <1>2, BeforeLast
    <3> QED
      BY <3>1, <3>2, SizeAssumption
  <2> QED
    BY <2>1, <2>2
<1>15. ChainProgress(t, off)'
  <2>1. off[d] + 0 = Len(drained'[t])
    BY <1>2
  <2> QED
    BY <1>4, <1>14, <2>1 DEF ChainProgress
<1> QED
  BY <1>8, <1>9, <1>10, <1>11, <1>12, <1>13, <1>15 DEF ThreadInv

\* The producer has moved on: the rest of the chunk is handed over and the chunk
\* goes back to the pool.
LEMMA DrainFinishedDrain == ASSUME IInv, DInv, DrainFinished PROVE DInv'
<1>0. cpc = "finished"
  BY DEF DrainFinished
<1>1. PICK t \in Threads : t = reading
  BY <1>0, ReadingFacts
<1> DEFINE s == threads[t]
<1>2. PICK c \in Chunks : c = s.read_chunk
  BY <1>0, <1>1, ReadingFacts
<1>3. /\ TypeOK /\ PlaceInv /\ Live(t) /\ registry_lock /\ s \in ThreadRec /\ Place(t)
      /\ s.session = session_id /\ ReadFrom(t) = c /\ c # None
      /\ call = [call EXCEPT ![t] = call[t]] /\ pc = [pc EXCEPT ![t] = pc[t]]
      /\ ~(pc[t] = "fresh" /\ s.chunk = None)
  BY <1>0, <1>1, <1>2, ReadingFacts DEF DInv
<1>4. c # s.chunk /\ c # WriteTo(t)
  BY <1>0, <1>1, <1>2 DEF DInv, ConsumerInv
<1>5. PICK own \in Owners, off \in Offsets : ChainInv(own, off)
  BY DEF DInv
<1>6. ThreadInv(t, own, off) /\ InChain(c, t, own) /\ own[c] = t
  BY <1>3, <1>5 DEF ChainInv, ThreadInv, ChainEnds, InChain
<1>7. /\ chunks[c].finished /\ chunks[c].size \in 1 .. ChunkSize - 1 /\ chunks[c].next \in Chunks
      /\ Used(c, t) = chunks[c].size
  BY <1>4, <1>6 DEF ThreadInv, ChainLinks, InChain, Used
<1> DEFINE r == [s EXCEPT !.read_chunk = chunks[c].next, !.read_offset = 0]
<1>8. /\ HandOver(t, chunks[c].size) /\ free' = Pushed(c) /\ cpc' = "pos"
      /\ threads' = [threads EXCEPT ![t] = r]
      /\ UNCHANGED <<sessionVars, toggleVars, chunks, todo, reading, registry_lock, recordVars, pc, call>>
  BY <1>1, <1>2, <1>7 DEF DrainFinished
<1>9. /\ r \in ThreadRec /\ r.session = s.session /\ r.chunk = s.chunk /\ r.cur = s.cur
      /\ r.pos = s.pos /\ r.held = s.held /\ r.first_chunk = s.first_chunk
      /\ r.exited = s.exited /\ r.dropped = s.dropped /\ r.read_chunk = chunks[c].next
      /\ r.read_offset = 0
  <2>1. 0 \in 0 .. ChunkSize
    BY SizeAssumption
  <2> QED
    BY <1>3, <1>7, <2>1 DEF ThreadRec
<1> HIDE DEF r
<1>10. chunks[c].next # None
  BY <1>7, SizeAssumption DEF Chunks, None
<1>11. /\ \A u \in Threads : u # t => Untouched(u)
       /\ threads'[t] = r /\ call'[t] = call[t] /\ pc'[t] = pc[t]
  <2>1. call' = [call EXCEPT ![t] = call[t]] /\ pc' = [pc EXCEPT ![t] = pc[t]]
    BY <1>3, <1>8
  <2> QED
    BY <1>3, <1>8, <2>1, OthersUntouched
<1>12. /\ drained' \in [Threads -> Seq(Record \cup {Blank})]
       /\ \A u \in Threads : u # t => drained'[u] = drained[u]
       /\ Len(drained'[t]) = off[c] + chunks[c].size
       /\ Len(drained'[t]) <= Len(log[t])
       /\ \A i \in 1 .. Len(drained'[t]) : drained'[t][i] = log[t][i]
  <2>1. PICK n \in Nat : n = chunks[c].size
    BY <1>7, SizeAssumption
  <2>2. n <= Used(ReadFrom(t), t)
    BY <1>3, <1>7, <2>1
  <2>3. s.read_offset <= n
    <3>1. ReadLimit(t) = n
      BY <1>3, <1>4, <1>7, <2>1 DEF ReadLimit
    <3> QED
      BY <1>3, <1>6, <3>1 DEF ThreadInv, ChainProgress
  <2>4. HandOver(t, n) /\ threads[t].read_chunk # None
    BY <1>2, <1>3, <1>8, <2>1
  <2> QED
    BY <1>3, <1>6, <2>1, <2>2, <2>3, <2>4, HandedOver
<1>13. PICK own1 \in Owners : own1[c] = Nobody /\ \A e \in Chunks : e # c => own1[e] = own[e]
  <2>1. [own EXCEPT ![c] = Nobody] \in Owners
    BY DEF Owners
  <2> QED
    BY <2>1 DEF Owners
<1>14. PoolInv(own1)' /\ free' \in Seq(Chunks)
  <2>1. ASSUME NEW u \in Threads, pc[u] = "link"
        PROVE  call[u].index # c /\ call[u].index \in Chunks
    <3>1. call[u].index \in Chunks /\ own[call[u].index] = u
      BY <1>3, <1>5, <2>1 DEF ChainInv, PoolInv, PlaceInv, Place, TypeOK
    <3> QED
      BY <1>6, <2>1, <3>1 DEF InChain
  <2>2. PoolInv(own) /\ own[c] \in Threads
    BY <1>5, <1>6 DEF ChainInv
  <2> QED
    BY <1>3, <1>8, <1>13, <2>1, <2>2, PoolPushed
<1>15. TypeOK'
  <2>1. threads' \in [Threads -> ThreadRec']
    BY <1>3, <1>8, <1>9 DEF TypeOK, ThreadRec
  <2> QED
    BY <1>3, <1>8, <1>12, <1>14, <2>1 DEF TypeOK, ThreadRec
<1>16. PlaceInv'
  <2>0. s.first_chunk # None
    BY <1>3 DEF Live
  <2>1. Place(t)'
    BY <1>3, <1>9, <1>10, <1>11, <2>0 DEF Place, Room
  <2> QED
    BY <1>3, <1>11, <2>1, PlaceFrame DEF PlaceInv
<1>17. ConsumerInv'
  BY <1>1, <1>3, <1>8, <1>9, <1>10, <1>11 DEF ConsumerInv
<1>18. FinalInv'
  BY <1>0, <1>1, <1>8, <1>9, <1>11, <1>12 DEF DInv, FinalInv, Stopped, Untouched
<1>19. ThreadInv(t, own1, off)'
  BY <1>2, <1>3, <1>4, <1>6, <1>8, <1>9, <1>11, <1>12, <1>13, ReadOutChain
<1>20. ASSUME NEW u \in Threads, u # t PROVE ThreadInv(u, own1, off)'
  <2>1. SameChunks(u, own, off, own1, off)
    BY <1>6, <1>8, <1>13, <1>20, NobodyAssumption DEF SameChunks
  <2>2. SameThread(u)
    BY <1>8, <1>11, <1>12, <1>20 DEF SameThread, Untouched
  <2> QED
    BY <1>3, <1>5, <1>11, <1>20, <2>1, <2>2, ThreadFrame DEF ChainInv, Untouched
<1> QED
  BY <1>14, <1>15, <1>16, <1>17, <1>18, <1>19, <1>20 DEF DInv, ChainInv

\* A thread whose state is freed has no chunks.
LEMMA FreedChain ==
    ASSUME NEW t \in Threads, NEW own1 \in Owners, NEW off \in Offsets,
           threads'[t] = Reset(0), pc'[t] # "fresh",
           \A c \in Chunks : ~InChain(c, t, own1)',
           drained'[t] = log'[t], log' \in [Threads -> Seq(Record)]
    PROVE  ThreadInv(t, own1, off)'
<1>1. ~Live(t)' /\ \A c : ~InChain(c, t, own1)'
  BY DEF Live, Reset, InChain
<1>2. ChainProgress(t, off)'
  <2>1. log'[t] \in Seq(Record) /\ Len(log'[t]) \in Nat
    <3>1. log'[t] \in Seq(Record)
      OBVIOUS
    <3> QED
      BY <3>1
  <2> QED
    BY <1>1, <2>1 DEF ChainProgress
<1> QED
  BY <1>1, <1>2 DEF ThreadInv, ChainEnds, ChainLinks, ChainPreds, ChainOrder, ChainFirst, ChainContent

\* An exited thread that has been read has one chunk left, which is drained.
LEMMA LastChunk ==
    ASSUME NEW t \in Threads, NEW own \in Owners, NEW off \in Offsets, TypeOK, PlaceInv,
           ThreadInv(t, own, off), Live(t), pc[t] = "gone", NEW c \in Chunks,
           c = threads[t].chunk, c = threads[t].read_chunk,
           threads[t].read_offset = threads[t].cur - chunk_data(c)
    PROVE  /\ \A e \in Chunks : InChain(e, t, own) => e = c
           /\ drained[t] = log[t] /\ own[c] = t
<1>1. c # None
  BY SizeAssumption DEF Chunks, None
<1>2. ReadFrom(t) = c /\ WriteTo(t) = c /\ InChain(c, t, own) /\ off[c] \in Nat
  <2>1. ReadFrom(t) = c /\ WriteTo(t) = c
    BY <1>1 DEF ReadFrom, WriteTo
  <2> QED
    BY <2>1 DEF ThreadInv, ChainEnds, Offsets
<1>3. ASSUME NEW e \in Chunks, InChain(e, t, own), e # c PROVE FALSE
  <2>1. chunks[e].size \in 1 .. ChunkSize - 1 /\ off[e] \in Nat
    BY <1>2, <1>3 DEF ThreadInv, ChainLinks, Offsets
  <2>2. off[e] + chunks[e].size <= off[c]
    BY <1>2, <1>3 DEF ThreadInv, ChainOrder
  <2>3. off[c] <= off[e]
    BY <1>2, <1>3 DEF ThreadInv, ChainFirst
  <2> QED
    BY <1>2, <2>1, <2>2, <2>3, SizeAssumption
<1>4. Len(drained[t]) = Len(log[t])
  <2>1. Used(c, t) = threads[t].read_offset
    BY <1>2 DEF Used
  <2> QED
    BY <1>2, <2>1 DEF ThreadInv, ChainProgress, ChainContent
<1>5. drained[t] = log[t]
  <2>1. drained[t] \in Seq(Record \cup {Blank}) /\ log[t] \in Seq(Record)
    BY DEF TypeOK
  <2>2. \A i \in 1 .. Len(drained[t]) : drained[t][i] = log[t][i]
    BY DEF ThreadInv, ChainProgress
  <2> QED
    BY <1>4, <2>1, <2>2, PrefixFull
<1> QED
  BY <1>2, <1>3, <1>5 DEF InChain

\* The end of drain_thread: the state of an exited thread is freed, and its chunk
\* goes back to the pool.
LEMMA DrainDoneDrain == ASSUME IInv, DInv, DrainDone PROVE DInv'
<1>0. cpc = "done"
  BY DEF DrainDone
<1>1. PICK t \in Threads : t = reading
  BY <1>0 DEF DInv, ConsumerInv
<1> DEFINE s == threads[t]
<1>2. /\ cpc' = "drain" /\ reading' = Nobody
      /\ UNCHANGED <<sessionVars, toggleVars, chunks, todo, registry_lock, recordVars, pc, call, drained>>
  BY DEF DrainDone
<1>3. /\ TypeOK /\ PlaceInv /\ registry_lock /\ s \in ThreadRec /\ Place(t)
      /\ call = [call EXCEPT ![t] = call[t]] /\ pc = [pc EXCEPT ![t] = pc[t]]
  <2>1. pc = [pc EXCEPT ![t] = pc[t]] /\ TypeOK
    BY DEF DInv, TypeOK
  <2> QED
    BY <1>0, <2>1, SameRec DEF DInv, PlaceInv, ConsumerInv
<1>4. PICK own \in Owners, off \in Offsets : ChainInv(own, off)
  BY DEF DInv
<1>5. ConsumerInv'
  BY <1>2, <1>3 DEF ConsumerInv
<1>6. CASE ~s.exited
  <2>1. threads' = threads /\ free' = free
    BY <1>1, <1>6 DEF DrainDone
  <2>2. FinalInv'
    BY <1>0, <1>2, <2>1 DEF DInv, FinalInv, Stopped
  <2> QED
    BY <1>2, <1>3, <1>5, <2>1, <2>2, ControlKeeps DEF DInv, TypeOK
<1>7. CASE s.exited
  <2>1. threads' = [threads EXCEPT ![t] = Reset(0)]
    BY <1>1, <1>7 DEF DrainDone
  <2>2. pc[t] = "gone" /\ call[t].index = None /\ s.chunk # None
    BY <1>3, <1>7 DEF IInv, WritingInv, Place
  <2>3. /\ \A u \in Threads : u # t => Untouched(u)
        /\ threads'[t] = Reset(0) /\ call'[t] = call[t] /\ pc'[t] = pc[t]
    <3>1. call' = [call EXCEPT ![t] = call[t]] /\ pc' = [pc EXCEPT ![t] = pc[t]]
      BY <1>2, <1>3
    <3> QED
      BY <1>3, <2>1, <3>1, OthersUntouched
  <2>4. ThreadInv(t, own, off) /\ PoolInv(own)
    BY <1>4 DEF ChainInv
  <2>5. PlaceInv'
    <3>1. Place(t)'
      BY <1>2, <1>3, <2>2, <2>3 DEF Place, Reset, WriterPc
    <3> QED
      BY <1>3, <2>3, <3>1, PlaceFrame DEF PlaceInv
  <2>6. FinalInv'
    <3>1. ASSUME NEW u \in Threads PROVE
             \/ threads'[u] = threads[u]
             \/ threads'[u].held = None /\ ~threads'[u].dropped
      BY <2>3 DEF Untouched, Reset
    <3> QED
      BY <1>0, <1>2, <3>1 DEF DInv, FinalInv, Stopped
  <2>7. free' \in Seq(Chunks) => TypeOK'
    <3>1. Reset(0) \in ThreadRec
      BY <1>3, SizeAssumption DEF Reset, ThreadRec, None, TypeOK
    <3>2. threads' \in [Threads -> ThreadRec']
      BY <1>2, <1>3, <2>1, <3>1 DEF TypeOK, ThreadRec
    <3> QED
      BY <1>2, <1>3, <3>2 DEF TypeOK, ThreadRec
  <2>8. ASSUME NEW own1 \in Owners, \A u \in Threads, c \in Chunks : u # t => (own1[c] = u <=> own[c] = u)
        PROVE  \A u \in Threads : u # t => ThreadInv(u, own1, off)'
    <3> SUFFICES ASSUME NEW u \in Threads, u # t PROVE ThreadInv(u, own1, off)'
      OBVIOUS
    <3>1. SameThread(u) /\ SameChunks(u, own, off, own1, off)
      BY <1>2, <2>3, <2>8 DEF SameThread, SameChunks, Untouched
    <3> QED
      BY <1>3, <1>4, <2>3, <3>1, ThreadFrame DEF ChainInv, Untouched
  <2>9. CASE s.session # session_id
    <3>1. free' = free /\ free' \in Seq(Chunks)
      BY <1>1, <1>3, <2>9 DEF DrainDone, TypeOK
    <3>2. PoolInv(own)'
      BY <1>2, <2>4, <3>1 DEF PoolInv
    <3>3. ~Live(t)
      BY <2>9 DEF Live
    <3>4. (\A c \in Chunks : ~InChain(c, t, own)') /\ drained'[t] = log'[t]
      BY <1>2, <2>2, <2>4, <3>3 DEF ThreadInv, ChainEnds, ChainProgress, InChain
    <3>5. ThreadInv(t, own, off)'
      BY <1>2, <1>3, <2>2, <2>3, <3>4, FreedChain DEF TypeOK
    <3>6. \A u \in Threads : u # t => ThreadInv(u, own, off)'
      BY <2>8
    <3> QED
      BY <1>5, <2>5, <2>6, <2>7, <3>1, <3>2, <3>5, <3>6 DEF DInv, ChainInv
  <2>10. CASE s.session = session_id
    <3>1. PICK c \in Chunks : c = s.chunk
      BY <1>3, <2>2 DEF ThreadRec
    <3>2. s.read_chunk = c /\ s.read_offset = s.cur - chunk_data(c) /\ free' = Pushed(c)
      BY <1>0, <1>1, <1>7, <2>2, <2>10, <3>1 DEF DrainDone, DInv, ConsumerInv
    <3>3. Live(t)
      BY <1>3, <2>2, <2>10 DEF Live, Place
    <3>4. /\ \A e \in Chunks : InChain(e, t, own) => e = c
          /\ drained[t] = log[t] /\ own[c] = t
      BY <1>3, <2>2, <2>4, <3>1, <3>2, <3>3, LastChunk
    <3>5. PICK own1 \in Owners : own1[c] = Nobody /\ \A e \in Chunks : e # c => own1[e] = own[e]
      <4>1. [own EXCEPT ![c] = Nobody] \in Owners
        BY DEF Owners
      <4> QED
        BY <4>1 DEF Owners
    <3>6. PoolInv(own1)' /\ free' \in Seq(Chunks)
      <4>1. ASSUME NEW u \in Threads, pc[u] = "link"
            PROVE  call[u].index # c /\ call[u].index \in Chunks
        <5>1. call[u].index \in Chunks /\ own[call[u].index] = u /\ u # t
          BY <1>3, <2>2, <2>4, <4>1 DEF PoolInv, PlaceInv, Place, TypeOK
        <5> QED
          BY <3>4, <5>1
      <4>2. own[c] \in Threads
        BY <3>4
      <4> QED
        BY <1>2, <1>3, <2>4, <3>2, <3>5, <4>1, <4>2, PoolPushed
    <3>7. \A e \in Chunks : ~InChain(e, t, own1)'
      BY <1>2, <2>2, <3>4, <3>5, NobodyAssumption DEF InChain
    <3>8. ThreadInv(t, own1, off)'
      BY <1>2, <1>3, <2>2, <2>3, <3>4, <3>7, FreedChain DEF TypeOK
    <3>9. \A u \in Threads : u # t => ThreadInv(u, own1, off)'
      <4>1. \A u \in Threads, e \in Chunks : u # t => (own1[e] = u <=> own[e] = u)
        BY <3>4, <3>5, NobodyAssumption
      <4> QED
        BY <2>8, <4>1
    <3> QED
      BY <1>5, <2>5, <2>6, <2>7, <3>6, <3>8, <3>9 DEF DInv, ChainInv
  <2> QED
    BY <2>9, <2>10
<1> QED
  BY <1>6, <1>7

-----------------------------------------------------------------------------
(* The invariant and what follows. *)

\* No session has begun: no chunk is on the free list and none is with a thread.
LEMMA InitDInv == ASSUME Init PROVE DInv
<1> DEFINE Rec == [finished : BOOLEAN, size : 0 .. ChunkSize, next : Chunks]
<1>1. 0 \in Chunks /\ 0 \in 0 .. ChunkSize /\ 0 \in 0 .. 0 /\ 0 \in 0 .. 1 /\ None \notin Chunks
  BY SizeAssumption DEF Chunks, None
<1>2. TypeOK
  <2>1. chunks \in [Chunks -> Rec] /\ free \in Seq(Chunks)
    BY <1>1 DEF Init
  <2>2. threads \in [Threads -> ThreadRec]
    BY <1>1 DEF Init, Reset, ThreadRec
  <2>3. call \in [Threads -> CallRec] /\ pc \in [Threads -> Pcs]
    BY DEF Init, NoCall, CallRec, AllKinds, Pcs
  <2>4. mem \in [Cells -> Record \cup {Blank}]
    BY DEF Init
  <2>5. /\ log \in [Threads -> Seq(Record)] /\ drained \in [Threads -> Seq(Record \cup {Blank})]
        /\ count \in [Threads -> Nat]
    BY DEF Init
  <2>6. /\ hl_prof_on \in BOOLEAN /\ session_open \in BOOLEAN /\ session_id \in Nat
        /\ recording_toggle \in Threads \cup {"stop", Nobody} /\ recording_changes \in Nat
        /\ registry_lock \in BOOLEAN /\ cpc = "idle"
        /\ todo \subseteq Threads /\ reading \in Threads \cup {Nobody}
    BY DEF Init
  <2> QED
    BY <2>1, <2>2, <2>3, <2>4, <2>5, <2>6 DEF TypeOK, ThreadRec, CallRec, Pcs
<1>3. \A t \in Threads : threads[t] = Reset(0) /\ pc[t] = "idle" /\ call[t] = NoCall
  BY DEF Init
<1>4. PlaceInv
  BY <1>3 DEF PlaceInv, Place, Reset, NoCall, WriterPc
<1>5. ConsumerInv
  BY DEF Init, ConsumerInv
<1>6. FinalInv
  BY <1>3 DEF Init, FinalInv, Reset
<1>7. PICK own \in Owners : \A c \in Chunks : own[c] = Nobody
  <2>1. [c \in Chunks |-> Nobody] \in Owners
    BY DEF Owners
  <2> QED
    BY <2>1
<1>8. PICK off \in Offsets : TRUE
  <2>1. [c \in Chunks |-> 0] \in Offsets
    BY DEF Offsets
  <2> QED
    BY <2>1
<1>9. PoolInv(own)
  <2>1. free = <<>> /\ Len(free) = 0 /\ 1 .. Len(free) = {} /\ session_id = 0
    BY DEF Init
  <2> QED
    BY <1>3, <2>1 DEF PoolInv
<1>10. ASSUME NEW t \in Threads PROVE ThreadInv(t, own, off)
  <2>1. ~Live(t) /\ pc[t] = "idle" /\ \A c : ~InChain(c, t, own)
    BY <1>3, <1>7, NobodyAssumption DEF Live, Reset, InChain
  <2>2. drained[t] = log[t] /\ Len(log[t]) = 0
    BY DEF Init
  <2> QED
    BY <2>1, <2>2 DEF ThreadInv, ChainEnds, ChainLinks, ChainPreds, ChainOrder, ChainFirst,
       ChainContent, ChainProgress
<1> QED
  BY <1>2, <1>4, <1>5, <1>6, <1>9, <1>10 DEF DInv, ChainInv

\* Each step keeps the invariant.
LEMMA NextDInv ==
    ASSUME IInv, IInv', DInv, ~FirstWindow, [Next]_vars PROVE DInv'
<1>1. ASSUME NEW t \in Threads, Writer(t) PROVE DInv'
  <2>1. CASE thread_state(t)
    BY <2>1, SameStateDrain, NewStateDrain
  <2>2. CASE pool_pop(t)
    BY <2>2, PopEmptyDrain, PopDrain
  <2> QED
    BY <1>1, <2>1, <2>2, MarkDrain, CheckDrain, WriterEndDrain, WriteHeldDrain, WriteKeptDrain,
       TakeBackDrain, NoRoomDrain, FullDrain, LinkDrain, EnterDrain DEF Writer
<1>2. ASSUME NEW t \in Threads,
             Begin(t) \/ thread_exited(t) \/ SetRecording(t) \/ Toggle(t)
      PROVE  DInv'
  BY <1>2, BeginDrain, ExitDrain, SetRecordingDrain, ToggleDrain
<1>3. CASE Start \/ StartOpen \/ StartOn \/ Stop
  BY <1>3, StartDrain, StartStopDrain
<1>4. CASE StopSteps
  BY <1>4, StartStopDrain, StopWaitDrain, StopDoneDrain, StopReleaseDrain DEF StopSteps
<1>5. CASE Drain \/ DrainSteps
  BY <1>5, DrainDrain, DrainPosDrain, DrainFinishedDrain, DrainDoneDrain, DrainEndDrain,
     DrainThreadDrain DEF DrainSteps
<1>6. CASE UNCHANGED vars
  <2>1. ConsumerInv' /\ FinalInv'
    BY <1>6 DEF vars, DInv, ConsumerInv, FinalInv, Stopped, WriteTo
  <2>2. /\ UNCHANGED <<session_id, poolVars, recordVars, threadVars, drained>>
        /\ recording_changes' = recording_changes
    BY <1>6 DEF vars
  <2>3. /\ hl_prof_on' \in BOOLEAN /\ session_open' \in BOOLEAN /\ registry_lock' \in BOOLEAN
        /\ recording_toggle' \in Threads \cup {"stop", Nobody}
        /\ cpc' \in {"idle", "opening", "starting", "stopped", "drain", "pos", "finished", "done"}
                     \cup StopPc
        /\ todo' \subseteq Threads /\ reading' \in Threads \cup {Nobody}
    BY <1>6 DEF vars, DInv, TypeOK
  <2> QED
    BY <2>1, <2>2, <2>3, ControlKeeps
<1> QED
  BY <1>1, <1>2, <1>3, <1>4, <1>5, <1>6 DEF Next

LEMMA DrainInvariance == ASSUME ~StaleWriters, ~FirstWindow PROVE Spec => []DInv
<1>1. IInv /\ IInv' /\ DInv /\ [Next]_vars => DInv'
  BY NextDInv
<1>2. Init => DInv
  BY InitDInv
<1> QED
  BY <1>1, <1>2, Invariance, PTL DEF Spec

\* Every variable keeps its type: positions stay inside the pool, offsets and sizes
\* inside a chunk, and the free list holds chunks.
THEOREM TypeCorrect == ASSUME ~StaleWriters, ~FirstWindow PROVE Spec => []TypeOK
<1>1. DInv => TypeOK
  BY DEF DInv
<1> QED
  BY <1>1, DrainInvariance, PTL

\* What hl_prof_drain hands over of a thread is a prefix of the records that the
\* thread has in the session, however many threads, chunks and sessions there are,
\* and whatever a recycled chunk still holds of its last owner.
THEOREM DrainExactCorrect == ASSUME ~StaleWriters, ~FirstWindow PROVE Spec => []DrainExact
<1>1. DInv => DrainExact
  BY DInvExact
<1> QED
  BY <1>1, DrainInvariance, PTL

\* In a session every chunk is on the free list, once, or with one thread: neither
\* the consumer nor next_chunk, release_thread or an exit loses or shares one.
THEOREM ChunksAccountedCorrect ==
    ASSUME ~StaleWriters, ~FirstWindow PROVE Spec => []ChunksAccounted
<1>1. DInv => ChunksAccounted
  BY DInvAccounted
<1> QED
  BY <1>1, DrainInvariance, PTL

\* The drain after hl_prof_stop returns every record of the session, those that were
\* held back, counted as dropped or left by an exited thread included.
THEOREM FinalDrainCorrect == ASSUME ~StaleWriters, ~FirstWindow PROVE Spec => []FinalDrain
<1>1. DInv => FinalDrain
  BY DInvFinal
<1> QED
  BY <1>1, DrainInvariance, PTL

=============================================================================
