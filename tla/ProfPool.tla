------------------------------ MODULE ProfPool ------------------------------
(***************************************************************************)
(* The chunk pool of src/prof.c: a linked list whose head holds a tag and  *)
(* an index and is changed by compare-and-swap. Threads take chunks and    *)
(* the consumer returns them, at any time. A chunk that is out may be      *)
(* returned by another process than the one that took it. The tag is a     *)
(* number here; the code's has 32 bits, and 2^32 changes of the list       *)
(* inside one pool_pop are not considered.                                 *)
(***************************************************************************)
EXTENDS Integers, Sequences, FiniteSets

CONSTANTS
    Procs,          \* threads and the consumer
    ChunkCount,
    MaxTag          \* bound on the changes of the list

None == -1
Chunks == 0 .. ChunkCount - 1
Links == Chunks \cup {None}
Heads == [tag : Nat, index : Links]

ASSUME CountAssumption == ChunkCount \in Nat \ {0} /\ MaxTag \in Nat /\ IsFiniteSet(Procs)

VARIABLES
    free_head, free_next, chunks_free,
    pc,
    head,           \* head[p]: the value of free_head that p has read
    next,           \* next[p]: the link that pool_pop has read
    index,          \* index[p]: the chunk that p returns
    out,            \* chunks out of the pool
    free            \* history: the chunks in the list, in order

pool_vars == <<free_head, free_next, chunks_free, pc, head, next, index, out, free>>

PoolTypeOK ==
    /\ free_head \in Heads /\ free_next \in [Chunks -> Links] /\ chunks_free \in Int
    /\ pc \in [Procs -> {"idle", "pop", "next", "casPop", "popped",
                         "push", "link", "casPush", "pushed"}]
    /\ head \in [Procs -> Heads] /\ next \in [Procs -> Links] /\ index \in [Procs -> Links]
    /\ out \subseteq Chunks /\ free \in Seq(Chunks)

\* Mutant: the last chunk is linked to one behind it.
LinksPastEnd == [c \in Chunks |-> c + 1]

\* The links that pool_reset leaves, chunk 0 on top.
ResetLinks == [c \in Chunks |-> IF c + 1 \in Chunks THEN c + 1 ELSE None]

PoolInit ==
    /\ free_head = [tag |-> 0, index |-> 0]
    /\ free_next = ResetLinks
    /\ chunks_free = ChunkCount
    /\ pc = [p \in Procs |-> "idle"]
    /\ head = [p \in Procs |-> free_head] /\ next = [p \in Procs |-> None]
    /\ index = [p \in Procs |-> None]
    /\ out = {} /\ free = [i \in 1 .. ChunkCount |-> i - 1]

Goto(p, l) == pc' = [pc EXCEPT ![p] = l]

-----------------------------------------------------------------------------
(* pool_pop. *)

Pop(p) ==
    /\ pc[p] = "idle"
    /\ Goto(p, "pop")
    /\ UNCHANGED <<free_head, free_next, chunks_free, head, next, index, out, free>>

\* Mutant: a pop of the empty list is counted.
PopHeadCounted(p) ==
    /\ pc[p] = "pop"
    /\ head' = [head EXCEPT ![p] = free_head]
    /\ Goto(p, IF free_head.index = None THEN "popped" ELSE "next")
    /\ UNCHANGED <<free_head, free_next, chunks_free, next, index, out, free>>

\* The load of free_head; an empty list returns -1.
PopHead(p) ==
    /\ pc[p] = "pop"
    /\ head' = [head EXCEPT ![p] = free_head]
    /\ Goto(p, IF free_head.index = None THEN "idle" ELSE "next")
    /\ UNCHANGED <<free_head, free_next, chunks_free, next, index, out, free>>

\* The load of free_next, of a chunk that may have been taken meanwhile.
PopNext(p) ==
    /\ pc[p] = "next"
    /\ next' = [next EXCEPT ![p] = free_next[head[p].index]]
    /\ Goto(p, "casPop")
    /\ UNCHANGED <<free_head, free_next, chunks_free, head, index, out, free>>

\* Mutant: the tag is not compared.
PopCasUntagged(p) ==
    /\ pc[p] = "casPop" /\ free_head.tag < MaxTag
    /\ IF free_head.index = head[p].index
       THEN /\ free_head' = [tag |-> free_head.tag + 1, index |-> next[p]]
            /\ out' = out \cup {head[p].index} /\ free' = Tail(free)
            /\ Goto(p, "popped")
       ELSE Goto(p, "pop") /\ UNCHANGED <<free_head, out, free>>
    /\ UNCHANGED <<free_next, chunks_free, head, next, index>>

PopCas(p) ==
    /\ pc[p] = "casPop" /\ free_head.tag < MaxTag
    /\ IF free_head = head[p]
       THEN /\ free_head' = [tag |-> head[p].tag + 1, index |-> next[p]]
            /\ out' = out \cup {head[p].index} /\ free' = Tail(free)
            /\ Goto(p, "popped")
       ELSE Goto(p, "pop") /\ UNCHANGED <<free_head, out, free>>
    /\ UNCHANGED <<free_next, chunks_free, head, next, index>>

PopCount(p) ==
    /\ pc[p] = "popped"
    /\ chunks_free' = chunks_free - 1
    /\ Goto(p, "idle")
    /\ UNCHANGED <<free_head, free_next, head, next, index, out, free>>

-----------------------------------------------------------------------------
(* pool_push, of a chunk that nobody else returns. *)

PushPc == {"push", "link", "casPush"}
Returning(p) == pc[p] \in PushPc

Push(p) == \E c \in out :
    /\ pc[p] = "idle"
    /\ \A q \in Procs : Returning(q) => index[q] # c
    /\ index' = [index EXCEPT ![p] = c]
    /\ Goto(p, "push")
    /\ UNCHANGED <<free_head, free_next, chunks_free, head, next, out, free>>

PushHead(p) ==
    /\ pc[p] = "push"
    /\ head' = [head EXCEPT ![p] = free_head]
    /\ Goto(p, "link")
    /\ UNCHANGED <<free_head, free_next, chunks_free, next, index, out, free>>

PushLink(p) ==
    /\ pc[p] = "link"
    /\ free_next' = [free_next EXCEPT ![index[p]] = head[p].index]
    /\ Goto(p, "casPush")
    /\ UNCHANGED <<free_head, chunks_free, head, next, index, out, free>>

PushCas(p) ==
    /\ pc[p] = "casPush" /\ free_head.tag < MaxTag
    /\ IF free_head = head[p]
       THEN /\ free_head' = [tag |-> head[p].tag + 1, index |-> index[p]]
            /\ out' = out \ {index[p]} /\ free' = <<index[p]>> \o free
            /\ Goto(p, "pushed")
       ELSE Goto(p, "push") /\ UNCHANGED <<free_head, out, free>>
    /\ UNCHANGED <<free_next, chunks_free, head, next, index>>

PushCount(p) ==
    /\ pc[p] = "pushed"
    /\ chunks_free' = chunks_free + 1
    /\ Goto(p, "idle")
    /\ UNCHANGED <<free_head, free_next, head, next, index, out, free>>

PoolNext == \E p \in Procs :
    \/ Pop(p) \/ PopHead(p) \/ PopNext(p) \/ PopCas(p) \/ PopCount(p)
    \/ Push(p) \/ PushHead(p) \/ PushLink(p) \/ PushCas(p) \/ PushCount(p)

PoolSpec == PoolInit /\ [][PoolNext]_pool_vars

-----------------------------------------------------------------------------
(* Properties. *)

\* The links from free_head lead through the free chunks, each once, and to no
\* chunk that is out: a pop that was overtaken by a pop and a push of the same
\* chunk does not put its stale link into the head.
LinksExact ==
    /\ free_head.index = IF free = <<>> THEN None ELSE Head(free)
    /\ \A i \in 1 .. Len(free) :
          free_next[free[i]] = IF i = Len(free) THEN None ELSE free[i + 1]
    /\ \A i, j \in 1 .. Len(free) : free[i] = free[j] => i = j
    /\ \A i \in 1 .. Len(free) : free[i] \notin out

\* The processes at one step.
At(l) == {p \in Procs : pc[p] = l}

\* chunks_free, which hl_prof_get_stats reports, is off from the length of the
\* list by the pops and pushes between their compare-and-swap and their count,
\* and by nothing else: no retry and no pop of the empty list is counted.
CountExact == chunks_free = Len(free) + Cardinality(At("popped")) - Cardinality(At("pushed"))

\* pool_pop and pool_push take effect in one step each, as ProfRecorder has them.
Stack == INSTANCE ChunkStack
ImplementsStack == Stack!Spec
=============================================================================
