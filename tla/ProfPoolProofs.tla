--------------------------- MODULE ProfPoolProofs ---------------------------
(***************************************************************************)
(* The pool's list stays well formed and implements ChunkStack, for every  *)
(* number of processes and chunks. The argument: a compare-and-swap that   *)
(* succeeds has seen the present head with its tag, every change of the    *)
(* list raises the tag, and nobody changes the link of a chunk in the      *)
(* list, so the link that was read is the link of the present head.        *)
(***************************************************************************)
EXTENDS ProfPool, TLAPS, SequenceTheorems, FiniteSetTheorems

(* What a pop knows between its loads and its compare-and-swap. *)
PopInv == \A p \in Procs :
    /\ head[p].tag =< free_head.tag
    /\ pc[p] \in {"next", "casPop"} => head[p].index # None
    /\ pc[p] = "casPop" /\ free_head = head[p] => next[p] = free_next[head[p].index]

(* A chunk that is being returned is out, with one process. *)
PushInv ==
    /\ \A p \in Procs : Returning(p) => index[p] \in out
    /\ \A p, q \in Procs : Returning(p) /\ Returning(q) /\ index[p] = index[q] => p = q
    /\ \A p \in Procs : pc[p] = "casPush" => free_next[index[p]] = head[p].index

IInv == PoolTypeOK /\ LinksExact /\ PopInv /\ PushInv

-----------------------------------------------------------------------------

(* The list after pool_reset is well formed and satisfies the invariant. *)
LEMMA InitInv == PoolInit => IInv
<1> SUFFICES ASSUME PoolInit PROVE IInv
  OBVIOUS
<1> USE CountAssumption DEF PoolInit, ResetLinks, Chunks, None
<1>1. /\ free \in Seq(Chunks) /\ Len(free) = ChunkCount
      /\ \A i \in 1 .. ChunkCount : free[i] = i - 1
  OBVIOUS
<1>2. PoolTypeOK
  BY <1>1 DEF PoolTypeOK, Heads, Links
<1>3. LinksExact
  <2>1. free # <<>> /\ Head(free) = 0
    BY <1>1
  <2>2. \A i \in 1 .. Len(free) :
           free_next[free[i]] = IF i = Len(free) THEN None ELSE free[i + 1]
    <3> SUFFICES ASSUME NEW i \in 1 .. ChunkCount
                 PROVE  free_next[i - 1] = IF i = ChunkCount THEN None ELSE free[i + 1]
      BY <1>1
    <3>1. i - 1 \in Chunks /\ free_next[i - 1] = IF i \in Chunks THEN i ELSE None
      OBVIOUS
    <3>2. i # ChunkCount => free[i + 1] = i
      BY <1>1
    <3> QED
      BY <3>1, <3>2
  <2>3. \A i, j \in 1 .. Len(free) : free[i] = free[j] => i = j
    BY <1>1
  <2> QED
    BY <2>1, <2>2, <2>3 DEF LinksExact
<1>4. PopInv /\ PushInv
  BY DEF PopInv, PushInv, Returning, PushPc
<1> QED
  BY <1>2, <1>3, <1>4 DEF IInv

(* The head of the list is a chunk of the list, and the second one its link. *)
LEMMA HeadFacts ==
    ASSUME PoolTypeOK, LinksExact, free_head.index # None
    PROVE  /\ free # <<>> /\ free_head.index = free[1] /\ free[1] \in Chunks
           /\ Len(free) \in Nat /\ Len(free) >= 1
           /\ free[1] \notin out
           /\ Tail(free) \in Seq(Chunks) /\ Len(Tail(free)) = Len(free) - 1
           /\ \A i \in 1 .. Len(free) - 1 : Tail(free)[i] = free[i + 1]
           /\ Head(free) = free[1]
BY DEF PoolTypeOK, LinksExact, Links, Heads, None, Chunks

(* A pop that succeeds removes the head of the list and nothing else. *)
LEMMA PopCasInv ==
    ASSUME NEW p \in Procs, IInv, PopCas(p), free_head = head[p]
    PROVE  /\ IInv'
           /\ free # <<>> /\ out' = out \cup {Head(free)}
<1> USE DEF IInv
<1>1. pc[p] = "casPop" /\ head[p].index # None /\ next[p] = free_next[head[p].index]
  BY DEF PopCas, PopInv
<1>2. /\ free # <<>> /\ head[p].index = free[1] /\ free[1] \in Chunks
      /\ Len(free) \in Nat /\ Len(free) >= 1 /\ free[1] \notin out
      /\ Tail(free) \in Seq(Chunks) /\ Len(Tail(free)) = Len(free) - 1
      /\ \A i \in 1 .. Len(free) - 1 : Tail(free)[i] = free[i + 1]
      /\ Head(free) = free[1]
  BY <1>1, HeadFacts
<1>3. /\ free_head' = [tag |-> head[p].tag + 1, index |-> next[p]]
      /\ out' = out \cup {free[1]} /\ free' = Tail(free)
      /\ pc' = [pc EXCEPT ![p] = "popped"]
      /\ UNCHANGED <<free_next, chunks_free, head, next, index>>
  BY <1>2 DEF PopCas, Goto
<1>4. PoolTypeOK'
  BY <1>2, <1>3 DEF PoolTypeOK, Heads
<1>5. LinksExact'
  <2>1. next[p] = IF Len(free) = 1 THEN None ELSE free[2]
    <3>1. 1 \in 1 .. Len(free)
      BY <1>2
    <3>2. free_next[free[1]] = IF 1 = Len(free) THEN None ELSE free[1 + 1]
      BY <3>1 DEF LinksExact
    <3> QED
      BY <1>1, <1>2, <3>2
  <2>2. free_head'.index = IF free' = <<>> THEN None ELSE Head(free')
    BY <1>2, <1>3, <2>1
  <2>3. ASSUME NEW i \in 1 .. Len(free')
        PROVE  free_next'[free'[i]] = IF i = Len(free') THEN None ELSE free'[i + 1]
    <3>1. Len(free') = Len(free) - 1
      BY <1>2, <1>3
    <3>2. i + 1 \in 1 .. Len(free) /\ free'[i] = free[i + 1]
      BY <1>2, <1>3, <3>1
    <3>3. i = Len(free') <=> i + 1 = Len(free)
      BY <1>2, <3>1
    <3>4. CASE i # Len(free')
      <4>1. i + 1 \in 1 .. Len(free) - 1
        <5>1. Len(free) \in Nat
          BY <1>2
        <5>2. i \in 1 .. Len(free) - 1
          BY <3>1
        <5>3. i # Len(free) - 1
          BY <3>1, <3>4
        <5> QED
          BY <5>1, <5>2, <5>3
      <4>2. free'[i + 1] = free[(i + 1) + 1]
        BY <1>2, <1>3, <4>1
      <4>3. free_next[free[i + 1]] = free[(i + 1) + 1]
        BY <3>2, <3>3, <3>4 DEF LinksExact
      <4> QED
        BY <1>3, <3>2, <3>4, <4>2, <4>3
    <3>5. CASE i = Len(free')
      <4>1. free_next[free[i + 1]] = None
        BY <3>2, <3>3, <3>5 DEF LinksExact
      <4> QED
        BY <1>3, <3>2, <3>5, <4>1
    <3> QED
      BY <3>4, <3>5
  <2>4. ASSUME NEW i \in 1 .. Len(free'), NEW j \in 1 .. Len(free'), free'[i] = free'[j]
        PROVE  i = j
    <3>1. i + 1 \in 1 .. Len(free) /\ free'[i] = free[i + 1]
      BY <1>2, <1>3
    <3>2. j + 1 \in 1 .. Len(free) /\ free'[j] = free[j + 1]
      BY <1>2, <1>3
    <3>3. i + 1 = j + 1
      BY <2>4, <3>1, <3>2 DEF LinksExact
    <3> QED
      BY <3>3
  <2>5. \A i \in 1 .. Len(free') : free'[i] \notin out'
    <3> SUFFICES ASSUME NEW i \in 1 .. Len(free') PROVE free'[i] \notin out'
      OBVIOUS
    <3>1. i + 1 \in 1 .. Len(free) /\ free'[i] = free[i + 1] /\ i + 1 # 1 /\ 1 \in 1 .. Len(free)
      BY <1>2, <1>3
    <3>2. free[i + 1] # free[1] /\ free[i + 1] \notin out
      BY <3>1 DEF LinksExact
    <3> QED
      BY <3>1, <3>2, <1>3
  <2> QED
    BY <2>2, <2>3, <2>4, <2>5 DEF LinksExact
<1>6. PopInv'
  <2> SUFFICES ASSUME NEW q \in Procs
               PROVE  /\ head'[q].tag =< free_head'.tag
                      /\ pc'[q] \in {"next", "casPop"} => head'[q].index # None
                      /\ ~(pc'[q] = "casPop" /\ free_head' = head'[q])
    BY DEF PopInv
  <2>1. head[q].tag =< free_head.tag /\ head[q].tag \in Nat /\ free_head.tag \in Nat
    BY DEF PopInv, PoolTypeOK, Heads
  <2>2. free_head'.tag = free_head.tag + 1
    BY <1>3
  <2> QED
    BY <1>3, <2>1, <2>2 DEF PopInv, PoolTypeOK
<1>7. PushInv'
  BY <1>3 DEF PushInv, Returning, PushPc, PoolTypeOK
<1> QED
  BY <1>2, <1>3, <1>4, <1>5, <1>6, <1>7

(* A push that succeeds puts the chunk before the head of the list. *)
LEMMA PushCasInv ==
    ASSUME NEW p \in Procs, IInv, PushCas(p), free_head = head[p]
    PROVE  IInv' /\ index[p] \in out
<1> USE DEF IInv
<1>1. /\ pc[p] = "casPush" /\ Returning(p) /\ index[p] \in out /\ index[p] \in Chunks
      /\ free_next[index[p]] = free_head.index
  BY DEF PushCas, PushInv, Returning, PushPc, PoolTypeOK
<1>2. /\ free_head' = [tag |-> head[p].tag + 1, index |-> index[p]]
      /\ out' = out \ {index[p]} /\ free' = <<index[p]>> \o free
      /\ pc' = [pc EXCEPT ![p] = "pushed"]
      /\ UNCHANGED <<free_next, chunks_free, head, next, index>>
  BY DEF PushCas, Goto
<1>3. /\ free' \in Seq(Chunks) /\ Len(free) \in Nat /\ Len(free') = Len(free) + 1
      /\ free' # <<>> /\ free'[1] = index[p]
      /\ \A i \in 2 .. Len(free') : free'[i] = free[i - 1]
  BY <1>1, <1>2 DEF PoolTypeOK
<1>4. PoolTypeOK'
  BY <1>1, <1>2, <1>3 DEF PoolTypeOK, Heads, Links
<1>5. LinksExact'
  <2>1. free_head'.index = IF free' = <<>> THEN None ELSE Head(free')
    BY <1>2, <1>3
  <2>2. ASSUME NEW i \in 1 .. Len(free')
        PROVE  free_next'[free'[i]] = IF i = Len(free') THEN None ELSE free'[i + 1]
    <3>1. CASE i = 1
      <4>1. CASE free = <<>>
        BY <1>1, <1>2, <1>3, <3>1, <4>1 DEF LinksExact
      <4>2. CASE free # <<>>
        <5>1. Len(free) >= 1 /\ Head(free) = free[1] /\ free'[2] = free[1]
          BY <1>3, <4>2 DEF PoolTypeOK
        <5> QED
          BY <1>1, <1>2, <1>3, <3>1, <4>2, <5>1 DEF LinksExact
      <4> QED
        BY <4>1, <4>2
    <3>2. CASE i # 1
      <4>1. /\ i - 1 \in 1 .. Len(free) /\ free'[i] = free[i - 1]
            /\ i # Len(free') => free'[i + 1] = free[(i - 1) + 1]
            /\ i = Len(free') <=> i - 1 = Len(free)
        BY <1>3, <3>2
      <4> QED
        BY <1>2, <4>1 DEF LinksExact
    <3> QED
      BY <3>1, <3>2
  <2>3. \A i \in 1 .. Len(free) : free[i] # index[p]
    BY <1>1 DEF LinksExact
  <2>4. ASSUME NEW i \in 1 .. Len(free'), NEW j \in 1 .. Len(free'), free'[i] = free'[j]
        PROVE  i = j
    <3>1. \A k \in 1 .. Len(free') : k # 1 => k - 1 \in 1 .. Len(free) /\ free'[k] = free[k - 1]
      BY <1>3
    <3>2. CASE i = 1 \/ j = 1
      BY <1>3, <2>3, <2>4, <3>1, <3>2
    <3>3. CASE i # 1 /\ j # 1
      <4>1. i - 1 = j - 1
        BY <2>4, <3>1, <3>3 DEF LinksExact
      <4> QED
        BY <4>1
    <3> QED
      BY <3>2, <3>3
  <2>5. ASSUME NEW i \in 1 .. Len(free') PROVE free'[i] \notin out'
    <3>1. CASE i = 1
      BY <1>2, <1>3, <3>1
    <3>2. CASE i # 1
      <4>1. i - 1 \in 1 .. Len(free) /\ free'[i] = free[i - 1]
        BY <1>3, <3>2
      <4> QED
        BY <1>2, <4>1 DEF LinksExact
    <3> QED
      BY <3>1, <3>2
  <2> QED
    BY <2>1, <2>2, <2>4, <2>5 DEF LinksExact
<1>6. PopInv'
  <2> SUFFICES ASSUME NEW q \in Procs
               PROVE  /\ head'[q].tag =< free_head'.tag
                      /\ pc'[q] \in {"next", "casPop"} => head'[q].index # None
                      /\ ~(pc'[q] = "casPop" /\ free_head' = head'[q])
    BY DEF PopInv
  <2>1. head[q].tag =< free_head.tag /\ head[q].tag \in Nat /\ free_head.tag \in Nat
    BY DEF PopInv, PoolTypeOK, Heads
  <2>2. free_head'.tag = free_head.tag + 1
    BY <1>2
  <2> QED
    BY <1>2, <2>1, <2>2 DEF PopInv, PoolTypeOK
<1>7. PushInv'
  BY <1>1, <1>2 DEF PushInv, Returning, PushPc, PoolTypeOK
<1> QED
  BY <1>1, <1>4, <1>5, <1>6, <1>7

(* Steps that leave the list alone keep the invariant. *)
LEMMA OtherInv ==
    ASSUME NEW p \in Procs, IInv, UNCHANGED <<free_head, out, free>>,
           \/ Pop(p) \/ PopHead(p) \/ PopNext(p) \/ PopCas(p) \/ PopCount(p)
           \/ Push(p) \/ PushHead(p) \/ PushLink(p) \/ PushCas(p) \/ PushCount(p)
    PROVE  IInv'
<1> USE DEF IInv, Goto
<1>1. CASE Pop(p) \/ PopCount(p) \/ PushCount(p)
  BY <1>1 DEF Pop, PopCount, PushCount, PoolTypeOK, LinksExact, PopInv, PushInv, Returning, PushPc
<1>2. CASE PopHead(p)
  <2>1. PoolTypeOK' /\ LinksExact'
    BY <1>2 DEF PopHead, PoolTypeOK, LinksExact
  <2>2. PopInv' /\ PushInv'
    BY <1>2 DEF PopHead, PoolTypeOK, Heads, PopInv, PushInv, Returning, PushPc
  <2> QED
    BY <2>1, <2>2
<1>3. CASE PopNext(p)
  <2>1. head[p].index \in Chunks
    BY <1>3 DEF PopNext, PopInv, PoolTypeOK, Heads, Links
  <2>2. PoolTypeOK' /\ LinksExact'
    BY <1>3, <2>1 DEF PopNext, PoolTypeOK, LinksExact
  <2>3. PopInv' /\ PushInv'
    BY <1>3 DEF PopNext, PoolTypeOK, Heads, PopInv, PushInv, Returning, PushPc
  <2> QED
    BY <2>2, <2>3
<1>4. CASE PopCas(p) /\ free_head # head[p]
  BY <1>4 DEF PopCas, PoolTypeOK, LinksExact, PopInv, PushInv, Returning, PushPc
<1>5. CASE Push(p)
  <2>1. PICK c \in out : /\ \A q \in Procs : Returning(q) => index[q] # c
                         /\ index' = [index EXCEPT ![p] = c]
                         /\ pc[p] = "idle" /\ pc' = [pc EXCEPT ![p] = "push"]
                         /\ UNCHANGED <<free_next, chunks_free, head, next>>
    BY <1>5 DEF Push
  <2>2. PoolTypeOK' /\ LinksExact' /\ PopInv'
    BY <2>1 DEF PoolTypeOK, Links, LinksExact, PopInv
  <2>3. PushInv'
    BY <2>1 DEF PushInv, Returning, PushPc, PoolTypeOK
  <2> QED
    BY <2>2, <2>3
<1>6. CASE PushHead(p)
  <2>1. PoolTypeOK' /\ LinksExact'
    BY <1>6 DEF PushHead, PoolTypeOK, LinksExact
  <2>2. PopInv' /\ PushInv'
    BY <1>6 DEF PushHead, PoolTypeOK, Heads, PopInv, PushInv, Returning, PushPc
  <2> QED
    BY <2>1, <2>2
<1>7. CASE PushLink(p)
  <2>1. /\ index[p] \in out /\ index[p] \in Chunks
        /\ \A i \in 1 .. Len(free) : free[i] # index[p]
    BY <1>7 DEF PushLink, PushInv, Returning, PushPc, PoolTypeOK, LinksExact
  <2>2. /\ free_next' = [free_next EXCEPT ![index[p]] = head[p].index]
        /\ pc[p] = "link" /\ pc' = [pc EXCEPT ![p] = "casPush"]
        /\ UNCHANGED <<chunks_free, head, next, index>>
    BY <1>7 DEF PushLink
  <2>3. PoolTypeOK'
    BY <2>1, <2>2 DEF PoolTypeOK, Heads
  <2>4. LinksExact'
    BY <2>1, <2>2 DEF LinksExact, PoolTypeOK
  <2>5. PopInv'
    <3> SUFFICES ASSUME NEW q \in Procs, pc[q] = "casPop", free_head = head[q]
                 PROVE  next[q] = free_next'[head[q].index]
      BY <2>2 DEF PopInv, PoolTypeOK
    <3>1. next[q] = free_next[head[q].index] /\ head[q].index # None
      BY DEF PopInv
    <3>2. head[q].index = free[1] /\ 1 \in 1 .. Len(free) /\ head[q].index \in Chunks
      BY <3>1, HeadFacts
    <3> QED
      BY <2>1, <2>2, <3>1, <3>2 DEF PoolTypeOK
  <2>6. PushInv'
    BY <2>1, <2>2 DEF PushInv, Returning, PushPc, PoolTypeOK
  <2> QED
    BY <2>3, <2>4, <2>5, <2>6
<1>8. CASE PushCas(p) /\ free_head # head[p]
  BY <1>8 DEF PushCas, PoolTypeOK, LinksExact, PopInv, PushInv, Returning, PushPc
<1>9. CASE (PopCas(p) \/ PushCas(p)) /\ free_head = head[p]
  <2>1. free_head' # free_head
    <3>1. free_head.tag \in Nat
      BY DEF PoolTypeOK, Heads
    <3>2. free_head'.tag = free_head.tag + 1
      BY <1>9 DEF PopCas, PushCas
    <3> QED
      BY <3>1, <3>2
  <2> QED
    BY <2>1
<1> QED
  BY <1>1, <1>2, <1>3, <1>4, <1>5, <1>6, <1>7, <1>8, <1>9

(* Every step keeps the invariant and is a step of ChunkStack or none. *)
LEMMA StepInv == IInv /\ [PoolNext]_pool_vars => IInv' /\ [Stack!Next]_<<free, out>>
<1> SUFFICES ASSUME IInv, [PoolNext]_pool_vars PROVE IInv' /\ [Stack!Next]_<<free, out>>
  OBVIOUS
<1>1. CASE UNCHANGED pool_vars
  BY <1>1 DEF pool_vars, IInv, PoolTypeOK, LinksExact, PopInv, PushInv, Returning, PushPc
<1>2. ASSUME NEW p \in Procs, PopCas(p), free_head = head[p]
      PROVE  IInv' /\ [Stack!Next]_<<free, out>>
  <2>1. free' = Tail(free)
    BY <1>2 DEF PopCas
  <2> QED
    BY <1>2, <2>1, PopCasInv DEF Stack!Next, Stack!Pop
<1>3. ASSUME NEW p \in Procs, PushCas(p), free_head = head[p]
      PROVE  IInv' /\ [Stack!Next]_<<free, out>>
  <2>1. free' = <<index[p]>> \o free /\ out' = out \ {index[p]}
    BY <1>3 DEF PushCas
  <2> QED
    BY <1>3, <2>1, PushCasInv DEF Stack!Next, Stack!Push
<1>4. ASSUME NEW p \in Procs, UNCHANGED <<free_head, out, free>>,
             \/ Pop(p) \/ PopHead(p) \/ PopNext(p) \/ PopCas(p) \/ PopCount(p)
             \/ Push(p) \/ PushHead(p) \/ PushLink(p) \/ PushCas(p) \/ PushCount(p)
      PROVE  IInv' /\ [Stack!Next]_<<free, out>>
  BY <1>4, OtherInv
<1>5. ASSUME PoolNext PROVE IInv' /\ [Stack!Next]_<<free, out>>
  <2>1. PICK p \in Procs :
           \/ Pop(p) \/ PopHead(p) \/ PopNext(p) \/ PopCas(p) \/ PopCount(p)
           \/ Push(p) \/ PushHead(p) \/ PushLink(p) \/ PushCas(p) \/ PushCount(p)
    BY <1>5 DEF PoolNext
  <2>2. \/ PopCas(p) /\ free_head = head[p]
        \/ PushCas(p) /\ free_head = head[p]
        \/ UNCHANGED <<free_head, out, free>>
    BY <2>1 DEF Pop, PopHead, PopNext, PopCas, PopCount, Push, PushHead, PushLink, PushCas, PushCount
  <2> QED
    BY <1>2, <1>3, <1>4, <2>1, <2>2
<1> QED
  BY <1>1, <1>5

(* The initial list is the initial stack. *)
LEMMA InitStack == PoolInit => Stack!Init
BY DEF PoolInit, Stack!Init

(* The pool's state keeps its type, whatever the interleaving of pool_pop and *)
(* pool_push.                                                                 *)
THEOREM TypeCorrect == PoolSpec => []PoolTypeOK
<1>1. PoolInit => IInv
  BY InitInv
<1>2. IInv /\ [PoolNext]_pool_vars => IInv'
  BY StepInv
<1>3. IInv => PoolTypeOK
  BY DEF IInv
<1> QED
  BY <1>1, <1>2, <1>3, PTL DEF PoolSpec

(* The links from free_head lead through the free chunks, each once, for any *)
(* number of threads inside pool_pop and pool_push.                          *)
THEOREM LinksExactCorrect == PoolSpec => []LinksExact
<1>1. PoolInit => IInv
  BY InitInv
<1>2. IInv /\ [PoolNext]_pool_vars => IInv'
  BY StepInv
<1>3. IInv => LinksExact
  BY DEF IInv
<1> QED
  BY <1>1, <1>2, <1>3, PTL DEF PoolSpec

(* One process more or less at a place, or as many as before. *)
LEMMA AtCount ==
    ASSUME PoolTypeOK, NEW p \in Procs, NEW m, NEW l, pc' = [pc EXCEPT ![p] = m], m # pc[p]
    PROVE  /\ Cardinality(At(l)) \in Nat
           /\ Cardinality(At(l))' = Cardinality(At(l)) + (IF l = m THEN 1 ELSE 0)
                                                       - (IF l = pc[p] THEN 1 ELSE 0)
<1>1. IsFiniteSet(At(l))
  BY CountAssumption, FS_Subset DEF At
<1>2. Cardinality(At(l)) \in Nat
  BY <1>1, FS_CardinalityType
<1>3. CASE l = m
  <2>1. At(l)' = At(l) \cup {p} /\ p \notin At(l) /\ l # pc[p]
    BY <1>3 DEF At, PoolTypeOK
  <2>2. Cardinality(At(l) \cup {p}) = Cardinality(At(l)) + 1
    BY <1>1, <2>1, FS_AddElement
  <2> QED
    BY <1>2, <1>3, <2>1, <2>2
<1>4. CASE l = pc[p]
  <2>1. At(l)' = At(l) \ {p} /\ p \in At(l) /\ l # m
    BY <1>4 DEF At, PoolTypeOK
  <2>2. Cardinality(At(l) \ {p}) = Cardinality(At(l)) - 1
    BY <1>1, <2>1, FS_RemoveElement
  <2> QED
    BY <1>2, <1>4, <2>1, <2>2
<1>5. CASE l # m /\ l # pc[p]
  <2>1. At(l)' = At(l)
    BY <1>5 DEF At, PoolTypeOK
  <2> QED
    BY <1>2, <1>5, <2>1
<1> QED
  BY <1>3, <1>4, <1>5

(* A step moves chunks_free and the list by as much as it moves the processes. *)
LEMMA CountStep == IInv /\ CountExact /\ [PoolNext]_pool_vars => CountExact'
<1> SUFFICES ASSUME IInv, CountExact, [PoolNext]_pool_vars PROVE CountExact'
  OBVIOUS
<1> DEFINE Popped == Cardinality(At("popped"))
           Pushed == Cardinality(At("pushed"))
<1>1. CASE UNCHANGED pool_vars
  BY <1>1 DEF pool_vars, CountExact, At
<1>2. ASSUME NEW p \in Procs,
             \/ Pop(p) \/ PopHead(p) \/ PopNext(p) \/ PopCas(p) \/ PopCount(p)
             \/ Push(p) \/ PushHead(p) \/ PushLink(p) \/ PushCas(p) \/ PushCount(p)
      PROVE  CountExact'
  <2>1. PICK m : pc' = [pc EXCEPT ![p] = m] /\ m # pc[p]
    <3>1. pc' = [pc EXCEPT ![p] = pc'[p]] /\ pc'[p] # pc[p]
      BY <1>2 DEF Goto, Pop, PopHead, PopNext, PopCas, PopCount, Push, PushHead, PushLink, PushCas,
                  PushCount, IInv, PoolTypeOK
    <3> QED
      BY <3>1
  <2>2. PoolTypeOK /\ chunks_free \in Int /\ Len(free) \in Nat /\ pc'[p] = m
    BY <2>1 DEF IInv, PoolTypeOK
  <2>3. /\ Popped \in Nat /\ Pushed \in Nat
        /\ Popped' = Popped + (IF m = "popped" THEN 1 ELSE 0) - (IF pc[p] = "popped" THEN 1 ELSE 0)
        /\ Pushed' = Pushed + (IF m = "pushed" THEN 1 ELSE 0) - (IF pc[p] = "pushed" THEN 1 ELSE 0)
    BY <2>1, <2>2, AtCount
  <2>4. chunks_free = Len(free) + Popped - Pushed
    BY DEF CountExact
  <2> HIDE DEF Popped, Pushed
  <2>5. CASE PopCas(p) /\ free_head = head[p]
    <3>1. m = "popped" /\ pc[p] = "casPop" /\ chunks_free' = chunks_free /\ free' = Tail(free)
      BY <2>1, <2>2, <2>5 DEF PopCas, Goto, IInv, PoolTypeOK
    <3>2. Len(free') = Len(free) - 1
      BY <2>5, <3>1, HeadFacts DEF IInv, PopInv
    <3>3. Popped' = Popped + 1 /\ Pushed' = Pushed /\ chunks_free' = chunks_free
      BY <2>3, <3>1
    <3>4. chunks_free' = Len(free') + Popped' - Pushed'
      BY <2>2, <2>3, <2>4, <3>2, <3>3
    <3> QED
      BY <3>4 DEF CountExact, Popped, Pushed
  <2>6. CASE PushCas(p) /\ free_head = head[p]
    <3>1. m = "pushed" /\ pc[p] = "casPush" /\ chunks_free' = chunks_free /\ free' = <<index[p]>> \o free
      BY <2>1, <2>2, <2>6 DEF PushCas, Goto, IInv, PoolTypeOK
    <3>2. index[p] \in Chunks
      BY <3>1 DEF IInv, PushInv, Returning, PushPc, PoolTypeOK
    <3>3. Len(free') = Len(free) + 1
      BY <2>2, <3>1, <3>2 DEF PoolTypeOK
    <3>4. chunks_free' = Len(free') + Popped' - Pushed'
      BY <2>2, <2>3, <2>4, <3>1, <3>3
    <3> QED
      BY <3>4 DEF CountExact, Popped, Pushed
  <2>7. CASE PopCount(p)
    <3>1. m = "idle" /\ pc[p] = "popped" /\ chunks_free' = chunks_free - 1 /\ free' = free
      BY <2>1, <2>2, <2>7 DEF PopCount, Goto, IInv, PoolTypeOK
    <3>2. chunks_free' = Len(free') + Popped' - Pushed'
      BY <2>2, <2>3, <2>4, <3>1
    <3> QED
      BY <3>2 DEF CountExact, Popped, Pushed
  <2>8. CASE PushCount(p)
    <3>1. m = "idle" /\ pc[p] = "pushed" /\ chunks_free' = chunks_free + 1 /\ free' = free
      BY <2>1, <2>2, <2>8 DEF PushCount, Goto, IInv, PoolTypeOK
    <3>2. chunks_free' = Len(free') + Popped' - Pushed'
      BY <2>2, <2>3, <2>4, <3>1
    <3> QED
      BY <3>2 DEF CountExact, Popped, Pushed
  <2>9. CASE \/ Pop(p) \/ PopHead(p) \/ PopNext(p) \/ Push(p) \/ PushHead(p) \/ PushLink(p)
             \/ (PopCas(p) \/ PushCas(p)) /\ free_head # head[p]
    <3>1. /\ m \notin {"popped", "pushed"} /\ pc[p] \notin {"popped", "pushed"}
          /\ UNCHANGED <<chunks_free, free>>
      BY <2>2, <2>9 DEF Pop, PopHead, PopNext, Push, PushHead, PushLink, PopCas, PushCas, Goto,
                        IInv, PoolTypeOK
    <3>2. chunks_free' = Len(free') + Popped' - Pushed'
      BY <2>2, <2>3, <2>4, <3>1
    <3> QED
      BY <3>2 DEF CountExact, Popped, Pushed
  <2> QED
    BY <1>2, <2>5, <2>6, <2>7, <2>8, <2>9
<1> QED
  BY <1>1, <1>2 DEF PoolNext

(* chunks_free differs from the number of free chunks by the pops and pushes   *)
(* that have swapped the head and not yet counted: exact when there is none.   *)
THEOREM CountExactCorrect == PoolSpec => []CountExact
<1>1. PoolInit => CountExact
  <2> SUFFICES ASSUME PoolInit PROVE CountExact
    OBVIOUS
  <2>1. At("popped") = {} /\ At("pushed") = {}
    BY DEF PoolInit, At
  <2>2. Len(free) = ChunkCount
    BY CountAssumption DEF PoolInit
  <2>3. Cardinality(At("popped")) = 0 /\ Cardinality(At("pushed")) = 0
    BY <2>1, FS_EmptySet
  <2> QED
    BY <2>2, <2>3, CountAssumption DEF PoolInit, CountExact
<1>2. PoolInit => IInv
  BY InitInv
<1>3. IInv /\ [PoolNext]_pool_vars => IInv'
  BY StepInv
<1>4. IInv /\ CountExact /\ [PoolNext]_pool_vars => CountExact'
  BY CountStep
<1> QED
  BY <1>1, <1>2, <1>3, <1>4, PTL DEF PoolSpec

(* pool_pop and pool_push implement the atomic stack of ChunkStack. *)
THEOREM Implementation == PoolSpec => ImplementsStack
<1>1. PoolInit => IInv
  BY InitInv
<1>2. IInv /\ [PoolNext]_pool_vars => IInv'
  BY StepInv
<1>3. IInv /\ [PoolNext]_pool_vars => [Stack!Next]_<<free, out>>
  BY StepInv
<1>4. PoolInit => Stack!Init
  BY InitStack
<1> QED
  BY <1>1, <1>2, <1>3, <1>4, PTL DEF PoolSpec, ImplementsStack, Stack!Spec
=============================================================================
