---------------------------- MODULE GcRootsProofs ----------------------------
(***************************************************************************)
(* The hashed root table does what the linear scan it replaced did: the    *)
(* chain of a bucket has exactly the entries of the addresses that hash to *)
(* it, through growth, collisions, duplicates and the removal that moves   *)
(* the last entry into the hole, and so hl_remove_root finds the           *)
(* registration a scan from the end of the array finds. For every set of   *)
(* addresses and owners, every hash function and every first size.         *)
(***************************************************************************)
EXTENDS GcRoots, TLAPS, WellFoundedInduction, SequenceTheorems

(***************************************************************************)
(* An index x of size max over the entries in `used` of the array `roots`. *)
(* The links lead from head to end of a chain and back, within a bucket.   *)
(* That a chain has an end is what `rank`, which falls along gc_root_next, *)
(* says: no entry of the array grows or falls along a chain, since a       *)
(* removal moves the last entry to any place.                              *)
(***************************************************************************)
Arrays(x, max) ==
    /\ DOMAIN x = {"buckets", "next", "previous"}
    /\ x.buckets \in [0 .. 2 * max - 1 -> Int]
    /\ x.next \in [0 .. max - 1 -> Int]
    /\ x.previous \in [0 .. max - 1 -> Int]
Bucket(roots, max, i) == gc_root_bucket(roots[i], max)
Forward(x, used, roots, max) == \A i \in used : x.next[i] # Nil =>
    /\ x.next[i] \in used
    /\ x.previous[x.next[i]] = i
    /\ Bucket(roots, max, x.next[i]) = Bucket(roots, max, i)
Backward(x, used, roots, max) == \A i \in used :
    IF x.previous[i] = Nil THEN x.buckets[Bucket(roots, max, i)] = i
    ELSE x.previous[i] \in used /\ x.next[x.previous[i]] = i
Heads(x, used, roots, max) == \A b \in 0 .. 2 * max - 1 : x.buckets[b] # Nil =>
    /\ x.buckets[b] \in used
    /\ x.previous[x.buckets[b]] = Nil
    /\ Bucket(roots, max, x.buckets[b]) = b
Ranked(x, used, rank, top) == \A i \in used :
    /\ rank[i] \in Nat /\ rank[i] < top
    /\ x.next[i] # Nil => rank[x.next[i]] < rank[i]
Linked(x, used, roots, max) ==
    Arrays(x, max) /\ Forward(x, used, roots, max)
    /\ Backward(x, used, roots, max) /\ Heads(x, used, roots, max)

TypeInv ==
    /\ gc_roots_max \in Nat /\ gc_roots_count \in 0 .. gc_roots_max
    /\ gc_roots \in [Slots -> Addrs] /\ gc_root_owners \in [Slots -> Owners]

\* The inductive invariant.
IInv ==
    /\ TypeInv
    /\ Linked(Index, Used, gc_roots, gc_roots_max)
    /\ \E rank, top : top \in Nat /\ DOMAIN rank = Slots /\ Ranked(Index, Used, rank, top)

-----------------------------------------------------------------------------
(* The operations on an index *)

\* gc_root_bucket masks the address to a bucket of the table.
LEMMA BucketRange ==
    ASSUME NEW a \in Addrs, NEW max \in Nat, max > 0
    PROVE  gc_root_bucket(a, max) \in 0 .. 2 * max - 1
<1>1. Hash[a] \in Nat /\ 2 * max \in Nat /\ 2 * max > 0
  BY HashAssumption
<1> QED
  BY <1>1 DEF gc_root_bucket

\* What gc_root_next has after entry i is linked in, after it is unlinked, and
\* after `last` has moved to `found`.
NextLinked(y, x, used, i) ==
    /\ \A k \in used : y.next[k] = x.next[k]
    /\ y.next[i] # Nil => y.next[i] \in used
NextUnlinked(y, x, used, i) ==
    \A k \in used \ {i} : y.next[k] = IF x.next[k] = i THEN x.next[i] ELSE x.next[k]
NextMoved(y, x, used, last, found) ==
    /\ y.next[found] = x.next[last]
    /\ \A k \in used \ {last} : y.next[k] = IF x.next[k] = last THEN found ELSE x.next[k]

\* What an operation on an index of size max is told of it.
Table(used, roots, max) ==
    /\ max \in Nat /\ max > 0
    /\ used \subseteq 0 .. max - 1
    /\ roots \in [0 .. max - 1 -> Addrs]

\* Every entry in use has a bucket.
LEMMA Placed ==
    ASSUME NEW used, NEW roots, NEW max, Table(used, roots, max)
    PROVE  \A i \in used : Bucket(roots, max, i) \in 0 .. 2 * max - 1 /\ i \in Int /\ i # Nil
BY BucketRange DEF Table, Bucket, Nil

\* gc_root_link on an entry that is in no chain.
LEMMA LinkKeeps ==
    ASSUME NEW x, NEW used, NEW roots, NEW max, Table(used, roots, max),
           Linked(x, used, roots, max),
           NEW i \in 0 .. max - 1, i \notin used, NEW a \in Addrs,
           NEW more \in [0 .. max - 1 -> Addrs], more[i] = a, \A k \in used : more[k] = roots[k],
           NEW y, y = gc_root_link(x, i, a, max)
    PROVE  /\ Table(used \cup {i}, more, max)
           /\ Linked(y, used \cup {i}, more, max)
           /\ NextLinked(y, x, used, i)
<1> DEFINE b == gc_root_bucket(a, max)
           head == x.buckets[b]
<1>1. Table(used \cup {i}, more, max)
  BY DEF Table
<1>2. b \in 0 .. 2 * max - 1
  BY BucketRange DEF Table
<1>3. /\ Bucket(more, max, i) = b
      /\ \A k \in used : Bucket(more, max, k) = Bucket(roots, max, k)
  BY DEF Bucket, Table
<1>4. \A k \in used : Bucket(roots, max, k) \in 0 .. 2 * max - 1 /\ k \in Int /\ k # Nil
  BY Placed
<1>5. head \in Int /\ (head # Nil => head \in used /\ x.previous[head] = Nil /\ Bucket(roots, max, head) = b)
  BY <1>2 DEF Linked, Arrays, Heads
<1>6. /\ DOMAIN y = {"buckets", "next", "previous"}
      /\ y.buckets = [x.buckets EXCEPT ![b] = i]
      /\ y.next = [x.next EXCEPT ![i] = head]
      /\ y.previous = Put([x.previous EXCEPT ![i] = Nil], head, i)
  BY DEF gc_root_link
<1>7. Arrays(y, max)
  <2>1. y.buckets \in [0 .. 2 * max - 1 -> Int] /\ y.next \in [0 .. max - 1 -> Int]
    BY <1>2, <1>5, <1>6 DEF Linked, Arrays
  <2>2. [x.previous EXCEPT ![i] = Nil] \in [0 .. max - 1 -> Int]
    BY DEF Linked, Arrays, Nil
  <2>3. y.previous \in [0 .. max - 1 -> Int]
    <3>1. i \in Int
      BY DEF Table
    <3> QED
      BY <1>6, <2>2, <3>1 DEF Put
  <2> QED
    BY <1>6, <2>1, <2>3 DEF Arrays
<1>8. /\ y.buckets[b] = i /\ \A c \in 0 .. 2 * max - 1 : c # b => y.buckets[c] = x.buckets[c]
      /\ y.next[i] = head /\ \A k \in 0 .. max - 1 : k # i => y.next[k] = x.next[k]
  BY <1>2, <1>6 DEF Linked, Arrays
<1>9. /\ y.previous[i] = Nil
      /\ \A k \in used : y.previous[k] = IF k = head THEN i ELSE x.previous[k]
  <2>1. CASE head = Nil
    BY <2>1, <1>4, <1>6 DEF Linked, Arrays, Put, Table
  <2>2. CASE head # Nil
    BY <2>2, <1>5, <1>6 DEF Linked, Arrays, Put, Table
  <2> QED
    BY <2>1, <2>2
<1>10. used \subseteq 0 .. max - 1
  BY DEF Table
<1> HIDE DEF b, head
<1>11. Forward(y, used \cup {i}, more, max)
  <2> SUFFICES ASSUME NEW k \in used \cup {i}, y.next[k] # Nil
               PROVE  /\ y.next[k] \in used
                      /\ y.previous[y.next[k]] = k
                      /\ Bucket(more, max, y.next[k]) = Bucket(more, max, k)
    BY DEF Forward
  <2>1. CASE k = i
    BY <2>1, <1>3, <1>5, <1>8, <1>9
  <2>2. CASE k \in used
    <3>1. y.next[k] = x.next[k]
      BY <2>2, <1>8, <1>10
    <3>2. /\ x.next[k] \in used /\ x.previous[x.next[k]] = k
          /\ Bucket(roots, max, x.next[k]) = Bucket(roots, max, k)
      BY <2>2, <3>1 DEF Linked, Forward
    <3>3. x.next[k] # head
      BY <2>2, <3>2, <1>4, <1>5
    <3> QED
      BY <2>2, <3>1, <3>2, <3>3, <1>3, <1>9
  <2> QED
    BY <2>1, <2>2
<1>12. Backward(y, used \cup {i}, more, max)
  <2> SUFFICES ASSUME NEW k \in used \cup {i}
               PROVE  IF y.previous[k] = Nil THEN y.buckets[Bucket(more, max, k)] = k
                      ELSE y.previous[k] \in used \cup {i} /\ y.next[y.previous[k]] = k
    BY DEF Backward
  <2>1. CASE k = i
    BY <2>1, <1>3, <1>8, <1>9
  <2>2. CASE k \in used /\ k = head
    <3>1. i # Nil
      BY DEF Nil
    <3> QED
      BY <2>2, <3>1, <1>8, <1>9
  <2>3. CASE k \in used /\ k # head
    <3>1. y.previous[k] = x.previous[k]
      BY <2>3, <1>9
    <3>2. CASE x.previous[k] = Nil
      <4>1. x.buckets[Bucket(roots, max, k)] = k
        BY <2>3, <3>2 DEF Linked, Backward
      <4>2. Bucket(roots, max, k) # b
        BY <2>3, <4>1 DEF head
      <4> QED
        BY <2>3, <3>1, <3>2, <4>1, <4>2, <1>3, <1>4, <1>8
    <3>3. CASE x.previous[k] # Nil
      <4>1. x.previous[k] \in used /\ x.next[x.previous[k]] = k
        BY <2>3, <3>3 DEF Linked, Backward
      <4>2. x.previous[k] # i /\ x.previous[k] \in 0 .. max - 1
        BY <4>1, <1>10
      <4> QED
        BY <3>1, <3>3, <4>1, <4>2, <1>8
    <3> QED
      BY <3>2, <3>3
  <2> QED
    BY <2>1, <2>2, <2>3
<1>13. Heads(y, used \cup {i}, more, max)
  <2> SUFFICES ASSUME NEW c \in 0 .. 2 * max - 1, y.buckets[c] # Nil
               PROVE  /\ y.buckets[c] \in used \cup {i}
                      /\ y.previous[y.buckets[c]] = Nil
                      /\ Bucket(more, max, y.buckets[c]) = c
    BY DEF Heads
  <2>1. CASE c = b
    BY <2>1, <1>3, <1>8, <1>9
  <2>2. CASE c # b
    <3>1. y.buckets[c] = x.buckets[c]
      BY <2>2, <1>8
    <3>2. /\ x.buckets[c] \in used /\ x.previous[x.buckets[c]] = Nil
          /\ Bucket(roots, max, x.buckets[c]) = c
      BY <3>1 DEF Linked, Heads
    <3>3. x.buckets[c] # head
      BY <2>2, <3>2, <1>4, <1>5
    <3> QED
      BY <3>1, <3>2, <3>3, <1>3, <1>9
  <2> QED
    BY <2>1, <2>2
<1>14. NextLinked(y, x, used, i)
  BY <1>5, <1>8, <1>10 DEF NextLinked
<1> QED
  BY <1>1, <1>7, <1>11, <1>12, <1>13, <1>14 DEF Linked

\* gc_root_unlink on an entry in use.
LEMMA UnlinkKeeps ==
    ASSUME NEW x, NEW used, NEW roots, NEW max, Table(used, roots, max),
           Linked(x, used, roots, max), NEW i \in used,
           NEW y, y = gc_root_unlink(x, i, roots[i], max)
    PROVE  /\ Table(used \ {i}, roots, max)
           /\ Linked(y, used \ {i}, roots, max)
           /\ NextUnlinked(y, x, used, i)
<1> DEFINE b == gc_root_bucket(roots[i], max)
           p == x.previous[i]
           n == x.next[i]
<1>1. Table(used \ {i}, roots, max)
  BY DEF Table
<1>2. /\ used \subseteq 0 .. max - 1 /\ used \subseteq Int
      /\ \A k \in used : Bucket(roots, max, k) \in 0 .. 2 * max - 1 /\ k # Nil
  BY Placed DEF Table
<1>3. b = Bucket(roots, max, i) /\ b \in 0 .. 2 * max - 1
  BY <1>2 DEF Bucket
<1>4. /\ p \in Int /\ n \in Int
      /\ n # Nil => n \in used /\ x.previous[n] = i /\ Bucket(roots, max, n) = b
      /\ p # Nil => p \in used /\ x.next[p] = i
      /\ p = Nil => x.buckets[b] = i
  <2>1. p \in Int /\ n \in Int
    BY <1>2 DEF Linked, Arrays
  <2>2. n # Nil => n \in used /\ x.previous[n] = i /\ Bucket(roots, max, n) = b
    BY <1>3 DEF Linked, Forward
  <2> QED
    BY <1>3, <2>1, <2>2 DEF Linked, Backward
<1>5. /\ DOMAIN y = {"buckets", "next", "previous"}
      /\ y.buckets = IF p = Nil THEN [x.buckets EXCEPT ![b] = n] ELSE x.buckets
      /\ y.next = Put(x.next, p, n)
      /\ y.previous = Put(x.previous, n, p)
  BY DEF gc_root_unlink
<1> HIDE DEF b, p, n
<1>6. Arrays(y, max)
  <2>1. y.next \in [0 .. max - 1 -> Int] /\ y.previous \in [0 .. max - 1 -> Int]
    <3>1. /\ y.next = x.next \/ y.next = [x.next EXCEPT ![p] = n]
          /\ y.previous = x.previous \/ y.previous = [x.previous EXCEPT ![n] = p]
      BY <1>5 DEF Put
    <3>2. /\ x.next \in [0 .. max - 1 -> Int] /\ x.previous \in [0 .. max - 1 -> Int]
          /\ p \in Int /\ n \in Int
      BY <1>4 DEF Linked, Arrays
    <3>3. y.next \in [0 .. max - 1 -> Int]
      BY <3>1, <3>2
    <3>4. y.previous \in [0 .. max - 1 -> Int]
      BY <3>1, <3>2
    <3> QED
      BY <3>3, <3>4
  <2>2. y.buckets \in [0 .. 2 * max - 1 -> Int]
    BY <1>4, <1>5 DEF Linked, Arrays
  <2> QED
    BY <1>5, <2>1, <2>2 DEF Arrays
<1>7. \A c \in 0 .. 2 * max - 1 : y.buckets[c] = IF p = Nil /\ c = b THEN n ELSE x.buckets[c]
  BY <1>5 DEF Linked, Arrays
<1>8. \A k \in used : y.next[k] = IF k = p THEN n ELSE x.next[k]
  <2>1. x.next \in [0 .. max - 1 -> Int] /\ (p # Nil => p \in 0 .. max - 1)
    BY <1>2, <1>4 DEF Linked, Arrays
  <2>2. \A k \in 0 .. max - 1 : k # Nil => Put(x.next, p, n)[k] = IF k = p THEN n ELSE x.next[k]
    BY <2>1 DEF Put
  <2> QED
    BY <1>2, <1>5, <2>2
<1>9. \A k \in used : y.previous[k] = IF k = n THEN p ELSE x.previous[k]
  <2>1. x.previous \in [0 .. max - 1 -> Int] /\ (n # Nil => n \in 0 .. max - 1)
    BY <1>2, <1>4 DEF Linked, Arrays
  <2>2. \A k \in 0 .. max - 1 : k # Nil => Put(x.previous, n, p)[k] = IF k = n THEN p ELSE x.previous[k]
    BY <2>1 DEF Put
  <2> QED
    BY <1>2, <1>5, <2>2
<1>10. \A k \in used : k = p <=> x.next[k] = i
  BY <1>2, <1>4 DEF Linked, Forward, p
<1>11. Forward(y, used \ {i}, roots, max)
  <2> SUFFICES ASSUME NEW k \in used \ {i}, y.next[k] # Nil
               PROVE  /\ y.next[k] \in used \ {i}
                      /\ y.previous[y.next[k]] = k
                      /\ Bucket(roots, max, y.next[k]) = Bucket(roots, max, k)
    BY DEF Forward
  <2>1. x.next[k] # Nil => /\ x.next[k] \in used /\ x.previous[x.next[k]] = k
                           /\ Bucket(roots, max, x.next[k]) = Bucket(roots, max, k)
    BY DEF Linked, Forward
  <2>2. CASE k = p
    <3>1. y.next[k] = n /\ n # Nil
      BY <2>2, <1>8
    <3>2. n # i
      BY <2>2, <3>1, <1>4 DEF p
    <3>3. Bucket(roots, max, k) = b
      BY <2>1, <2>2, <1>2, <1>3, <1>4
    <3> QED
      BY <2>2, <3>1, <3>2, <3>3, <1>4, <1>9
  <2>3. CASE k # p
    <3>1. y.next[k] = x.next[k] /\ x.next[k] # i
      BY <2>3, <1>8, <1>10
    <3>2. x.next[k] # n
      BY <2>1, <3>1, <1>4
    <3> QED
      BY <2>1, <3>1, <3>2, <1>9
  <2> QED
    BY <2>2, <2>3
<1>12. Backward(y, used \ {i}, roots, max)
  <2> SUFFICES ASSUME NEW k \in used \ {i}
               PROVE  IF y.previous[k] = Nil THEN y.buckets[Bucket(roots, max, k)] = k
                      ELSE y.previous[k] \in used \ {i} /\ y.next[y.previous[k]] = k
    BY DEF Backward
  <2>1. CASE k = n
    <3>1. y.previous[k] = p /\ Bucket(roots, max, k) = b /\ k # Nil
      BY <2>1, <1>2, <1>4, <1>9
    <3>2. p # i
      BY <2>1, <3>1, <1>2, <1>4 DEF n
    <3> QED
      BY <2>1, <3>1, <3>2, <1>3, <1>4, <1>7, <1>8
  <2>2. CASE k # n
    <3>1. y.previous[k] = x.previous[k]
      BY <2>2, <1>9
    <3>2. CASE x.previous[k] = Nil
      <4>1. x.buckets[Bucket(roots, max, k)] = k
        BY <3>2 DEF Linked, Backward
      <4>2. ~(p = Nil /\ Bucket(roots, max, k) = b)
        BY <4>1, <1>4
      <4> QED
        BY <3>1, <3>2, <4>1, <4>2, <1>2, <1>7
    <3>3. CASE x.previous[k] # Nil
      <4>1. x.previous[k] \in used /\ x.next[x.previous[k]] = k
        BY <3>3 DEF Linked, Backward
      <4>2. x.previous[k] # i
        BY <2>2, <4>1 DEF n
      <4>3. x.previous[k] # p
        BY <4>1, <1>10
      <4> QED
        BY <3>1, <3>3, <4>1, <4>2, <4>3, <1>8
    <3> QED
      BY <3>2, <3>3
  <2> QED
    BY <2>1, <2>2
<1>13. Heads(y, used \ {i}, roots, max)
  <2> SUFFICES ASSUME NEW c \in 0 .. 2 * max - 1, y.buckets[c] # Nil
               PROVE  /\ y.buckets[c] \in used \ {i}
                      /\ y.previous[y.buckets[c]] = Nil
                      /\ Bucket(roots, max, y.buckets[c]) = c
    BY DEF Heads
  <2>1. CASE p = Nil /\ c = b
    <3>1. y.buckets[c] = n /\ n # Nil
      BY <2>1, <1>7
    <3>2. n # i
      BY <2>1, <3>1, <1>2, <1>4 DEF p
    <3> QED
      BY <2>1, <3>1, <3>2, <1>4, <1>9
  <2>2. CASE ~(p = Nil /\ c = b)
    <3>1. y.buckets[c] = x.buckets[c]
      BY <2>2, <1>7
    <3>2. /\ x.buckets[c] \in used /\ x.previous[x.buckets[c]] = Nil
          /\ Bucket(roots, max, x.buckets[c]) = c
      BY <3>1 DEF Linked, Heads
    <3>3. x.buckets[c] # i
      BY <2>2, <3>2, <1>3 DEF p
    <3>4. x.buckets[c] # n
      BY <3>2, <1>2, <1>4
    <3> QED
      BY <3>1, <3>2, <3>3, <3>4, <1>9
  <2> QED
    BY <2>1, <2>2
<1>14. NextUnlinked(y, x, used, i)
  BY <1>8, <1>10 DEF NextUnlinked, n
<1> QED
  BY <1>1, <1>6, <1>11, <1>12, <1>13, <1>14 DEF Linked

\* The last entry moves to a hole, and its neighbours follow it.
LEMMA MoveKeeps ==
    ASSUME NEW x, NEW used, NEW roots, NEW max, Table(used, roots, max),
           Linked(x, used, roots, max), NEW last \in used, x.next[last] # last,
           NEW found \in 0 .. max - 1, found \notin used,
           NEW more \in [0 .. max - 1 -> Addrs], more[found] = roots[last],
           \A k \in used \ {last} : more[k] = roots[k],
           NEW y, y = Move(x, found, last, roots[last], max)
    PROVE  /\ Linked(y, (used \ {last}) \cup {found}, more, max)
           /\ NextMoved(y, x, used, last, found)
<1> DEFINE b == gc_root_bucket(roots[last], max)
           p == x.previous[last]
           n == x.next[last]
           kept == used \ {last}
<1>1. /\ used \subseteq 0 .. max - 1 /\ used \subseteq Int /\ found \in Int /\ found # Nil
      /\ \A k \in used : Bucket(roots, max, k) \in 0 .. 2 * max - 1 /\ k # Nil
  BY Placed DEF Table, Nil
<1>2. /\ b = Bucket(roots, max, last) /\ b \in 0 .. 2 * max - 1
      /\ Bucket(more, max, found) = b
      /\ \A k \in kept : Bucket(more, max, k) = Bucket(roots, max, k)
  BY <1>1 DEF Bucket, Table
<1>3. p \in Int /\ n \in Int
  BY <1>1 DEF Linked, Arrays
<1>4. n # Nil => n \in kept /\ x.previous[n] = last /\ Bucket(roots, max, n) = b
  BY <1>2 DEF Linked, Forward
<1>5. p # Nil => p \in kept /\ x.next[p] = last
  BY DEF Linked, Backward
<1>6. p = Nil => x.buckets[b] = last
  BY <1>2 DEF Linked, Backward
<1>7. /\ DOMAIN y = {"buckets", "next", "previous"}
      /\ y.buckets = IF p = Nil THEN [x.buckets EXCEPT ![b] = found] ELSE x.buckets
      /\ y.next = Put([x.next EXCEPT ![found] = n], p, found)
      /\ y.previous = Put([x.previous EXCEPT ![found] = p], n, found)
  BY DEF Move
<1> HIDE DEF b, p, n
<1>8. Arrays(y, max)
  <2>1. /\ [x.next EXCEPT ![found] = n] \in [0 .. max - 1 -> Int]
        /\ [x.previous EXCEPT ![found] = p] \in [0 .. max - 1 -> Int]
    BY <1>3 DEF Linked, Arrays
  <2>2. y.next \in [0 .. max - 1 -> Int] /\ y.previous \in [0 .. max - 1 -> Int]
    <3>1. PICK f \in [0 .. max - 1 -> Int] : f = [x.next EXCEPT ![found] = n]
      BY <2>1
    <3>2. PICK g \in [0 .. max - 1 -> Int] : g = [x.previous EXCEPT ![found] = p]
      BY <2>1
    <3>3. y.next = Put(f, p, found) /\ y.previous = Put(g, n, found)
      BY <1>7, <3>1, <3>2
    <3>4. found \in Int
      BY <1>1
    <3>5. y.next = f \/ y.next = [f EXCEPT ![p] = found]
      BY <3>3 DEF Put
    <3>6. y.previous = g \/ y.previous = [g EXCEPT ![n] = found]
      BY <3>3 DEF Put
    <3>7. y.next \in [0 .. max - 1 -> Int]
      BY <3>4, <3>5
    <3>8. y.previous \in [0 .. max - 1 -> Int]
      BY <3>4, <3>6
    <3> QED
      BY <3>7, <3>8
  <2>3. y.buckets \in [0 .. 2 * max - 1 -> Int]
    BY <1>1, <1>7 DEF Linked, Arrays
  <2> QED
    BY <1>7, <2>2, <2>3 DEF Arrays
<1>9. \A c \in 0 .. 2 * max - 1 : y.buckets[c] = IF p = Nil /\ c = b THEN found ELSE x.buckets[c]
  BY <1>7 DEF Linked, Arrays
<1>10. y.next[found] = n /\ \A k \in kept : y.next[k] = IF k = p THEN found ELSE x.next[k]
  <2>1. x.next \in [0 .. max - 1 -> Int] /\ p # found
    BY <1>1, <1>5 DEF Linked, Arrays
  <2>2. CASE p = Nil
    BY <2>1, <2>2, <1>1, <1>7 DEF Put
  <2>3. CASE p # Nil
    <3>1. p \in 0 .. max - 1 /\ y.next = [[x.next EXCEPT ![found] = n] EXCEPT ![p] = found]
      BY <2>3, <1>1, <1>5, <1>7 DEF Put
    <3> QED
      BY <2>1, <3>1, <1>1
  <2> QED
    BY <2>2, <2>3
<1>11. y.previous[found] = p /\ \A k \in kept : y.previous[k] = IF k = n THEN found ELSE x.previous[k]
  <2>1. x.previous \in [0 .. max - 1 -> Int] /\ n # found
    BY <1>1, <1>4 DEF Linked, Arrays
  <2>2. CASE n = Nil
    BY <2>1, <2>2, <1>1, <1>7 DEF Put
  <2>3. CASE n # Nil
    <3>1. n \in 0 .. max - 1 /\ y.previous = [[x.previous EXCEPT ![found] = p] EXCEPT ![n] = found]
      BY <2>3, <1>1, <1>4, <1>7 DEF Put
    <3> QED
      BY <2>1, <3>1, <1>1
  <2> QED
    BY <2>2, <2>3
<1>12. \A k \in used : k = p <=> x.next[k] = last
  BY <1>1, <1>5 DEF Linked, Forward, p
<1>13. \A k \in used : k = n <=> x.previous[k] = last
  BY <1>1, <1>4 DEF Linked, Backward, n
<1>14. Forward(y, kept \cup {found}, more, max)
  <2> SUFFICES ASSUME NEW k \in kept \cup {found}, y.next[k] # Nil
               PROVE  /\ y.next[k] \in kept \cup {found}
                      /\ y.previous[y.next[k]] = k
                      /\ Bucket(more, max, y.next[k]) = Bucket(more, max, k)
    BY DEF Forward
  <2>1. CASE k = found
    BY <2>1, <1>2, <1>4, <1>10, <1>11
  <2>2. CASE k \in kept
    <3>1. x.next[k] # Nil => /\ x.next[k] \in used /\ x.previous[x.next[k]] = k
                             /\ Bucket(roots, max, x.next[k]) = Bucket(roots, max, k)
      BY <2>2 DEF Linked, Forward
    <3>2. CASE k = p
      <4>1. y.next[k] = found /\ x.next[k] = last /\ last # Nil
        BY <2>2, <3>2, <1>1, <1>10, <1>12
      <4> QED
        BY <2>2, <3>1, <3>2, <4>1, <1>2, <1>11
    <3>3. CASE k # p
      <4>1. y.next[k] = x.next[k] /\ x.next[k] # last
        BY <2>2, <3>3, <1>10, <1>12
      <4>2. x.next[k] # n
        BY <2>2, <3>1, <4>1, <1>4
      <4> QED
        BY <2>2, <3>1, <4>1, <4>2, <1>2, <1>11
    <3> QED
      BY <3>2, <3>3
  <2> QED
    BY <2>1, <2>2
<1>15. Backward(y, kept \cup {found}, more, max)
  <2> SUFFICES ASSUME NEW k \in kept \cup {found}
               PROVE  IF y.previous[k] = Nil THEN y.buckets[Bucket(more, max, k)] = k
                      ELSE y.previous[k] \in kept \cup {found} /\ y.next[y.previous[k]] = k
    BY DEF Backward
  <2>1. CASE k = found
    BY <2>1, <1>2, <1>5, <1>9, <1>10, <1>11
  <2>2. CASE k \in kept /\ k = n
    BY <2>2, <1>1, <1>10, <1>11
  <2>3. CASE k \in kept /\ k # n
    <3>1. y.previous[k] = x.previous[k] /\ x.previous[k] # last
      BY <2>3, <1>11, <1>13
    <3>2. CASE x.previous[k] = Nil
      <4>1. x.buckets[Bucket(roots, max, k)] = k
        BY <2>3, <3>2 DEF Linked, Backward
      <4>2. ~(p = Nil /\ Bucket(roots, max, k) = b)
        BY <2>3, <4>1, <1>6
      <4> QED
        BY <2>3, <3>1, <3>2, <4>1, <4>2, <1>1, <1>2, <1>9
    <3>3. CASE x.previous[k] # Nil
      <4>1. x.previous[k] \in used /\ x.next[x.previous[k]] = k
        BY <2>3, <3>3 DEF Linked, Backward
      <4>2. x.previous[k] # p
        BY <2>3, <4>1, <1>12
      <4> QED
        BY <3>1, <3>3, <4>1, <4>2, <1>10
    <3> QED
      BY <3>2, <3>3
  <2> QED
    BY <2>1, <2>2, <2>3
<1>16. Heads(y, kept \cup {found}, more, max)
  <2> SUFFICES ASSUME NEW c \in 0 .. 2 * max - 1, y.buckets[c] # Nil
               PROVE  /\ y.buckets[c] \in kept \cup {found}
                      /\ y.previous[y.buckets[c]] = Nil
                      /\ Bucket(more, max, y.buckets[c]) = c
    BY DEF Heads
  <2>1. CASE p = Nil /\ c = b
    BY <2>1, <1>2, <1>9, <1>11
  <2>2. CASE ~(p = Nil /\ c = b)
    <3>1. y.buckets[c] = x.buckets[c]
      BY <2>2, <1>9
    <3>2. /\ x.buckets[c] \in used /\ x.previous[x.buckets[c]] = Nil
          /\ Bucket(roots, max, x.buckets[c]) = c
      BY <3>1 DEF Linked, Heads
    <3>3. x.buckets[c] # last
      BY <2>2, <3>2, <1>2 DEF p
    <3>4. x.buckets[c] # n
      BY <3>2, <1>1, <1>13
    <3> QED
      BY <3>1, <3>2, <3>3, <3>4, <1>2, <1>11
  <2> QED
    BY <2>1, <2>2
<1>17. NextMoved(y, x, used, last, found)
  BY <1>10, <1>12 DEF NextMoved, n
<1> QED
  BY <1>8, <1>14, <1>15, <1>16, <1>17 DEF Linked

-----------------------------------------------------------------------------
(* A grown table *)

\* A set of numbers that is not empty has a least one; below a bound, also a
\* greatest.
LEMMA LeastNumber ==
    ASSUME NEW S, S \subseteq Nat, S # {}
    PROVE  \E i \in S : \A j \in S : i <= j
<1>1. PICK R : R = {ss \in Nat \X Nat : ss[1] < ss[2]}
  OBVIOUS
<1>2. IsWellFoundedOn(R, Nat)
  BY <1>1, NatLessThanWellFounded, Zenon DEF OpToRel
<1>3. PICK i \in S : \A j \in S : ~(<<j, i>> \in R)
  BY <1>2, WFMin
<1>4. \A j \in S : ~(j < i)
  BY <1>1, <1>3
<1> QED
  BY <1>4

LEMMA GreatestNumber ==
    ASSUME NEW n \in Nat, NEW S, S \subseteq 0 .. n - 1, S # {}
    PROVE  \E i \in S : \A j \in S : j <= i
<1> DEFINE T == {n - i : i \in S}
<1>1. T \subseteq Nat /\ T # {}
  OBVIOUS
<1>2. PICK m \in T : \A j \in T : m <= j
  <2> HIDE DEF T
  <2> QED
    BY <1>1, LeastNumber
<1>3. PICK i \in S : m = n - i
  OBVIOUS
<1>4. \A j \in S : n - i <= n - j
  BY <1>2, <1>3
<1> QED
  BY <1>4

LEMMA GreatestIs ==
    ASSUME NEW n \in Nat, NEW S, S \subseteq 0 .. n - 1
    PROVE  /\ S = {} => Greatest(S) = Nil
           /\ S # {} => Greatest(S) \in S /\ Greatest(S) # Nil /\ \A j \in S : j <= Greatest(S)
           /\ \A i \in S : (\A j \in S : j <= i) => Greatest(S) = i
<1>1. S = {} => Greatest(S) = Nil
  BY DEF Greatest
<1>2. ASSUME S # {} PROVE Greatest(S) \in S /\ \A j \in S : j <= Greatest(S)
  <2>1. \E i \in S : \A j \in S : j <= i
    BY <1>2, GreatestNumber
  <2>2. Greatest(S) = CHOOSE i \in S : \A j \in S : j <= i
    BY <1>2 DEF Greatest
  <2> QED
    BY <2>1, <2>2
<1>3. \A i \in S : i \in Int /\ i # Nil
  BY DEF Nil
<1>4. ASSUME NEW i \in S, \A j \in S : j <= i PROVE Greatest(S) = i
  <2>1. Greatest(S) \in S /\ Greatest(S) <= i /\ i <= Greatest(S)
    BY <1>2, <1>4
  <2>2. i \in Int /\ Greatest(S) \in Int
    BY <1>3, <2>1
  <2> QED
    BY <2>1, <2>2
<1> QED
  BY <1>1, <1>2, <1>3, <1>4

LEMMA LeastIs ==
    ASSUME NEW n \in Nat, NEW S, S \subseteq 0 .. n - 1
    PROVE  /\ S = {} => Least(S) = Nil
           /\ S # {} => Least(S) \in S /\ Least(S) # Nil /\ \A j \in S : Least(S) <= j
           /\ \A i \in S : (\A j \in S : i <= j) => Least(S) = i
<1>1. S = {} => Least(S) = Nil
  BY DEF Least
<1>2. ASSUME S # {} PROVE Least(S) \in S /\ \A j \in S : Least(S) <= j
  <2>1. \E i \in S : \A j \in S : i <= j
    <3>1. S \subseteq Nat
      OBVIOUS
    <3> QED
      BY <1>2, <3>1, LeastNumber
  <2>2. Least(S) = CHOOSE i \in S : \A j \in S : i <= j
    BY <1>2 DEF Least
  <2> QED
    BY <2>1, <2>2
<1>3. \A i \in S : i \in Int /\ i # Nil
  BY DEF Nil
<1>4. ASSUME NEW i \in S, \A j \in S : i <= j PROVE Least(S) = i
  <2>1. Least(S) \in S /\ Least(S) <= i /\ i <= Least(S)
    BY <1>2, <1>4
  <2>2. i \in Int /\ Least(S) \in Int
    BY <1>3, <2>1
  <2> QED
    BY <2>1, <2>2
<1> QED
  BY <1>1, <1>2, <1>3, <1>4

\* The loop that links the entries of a grown table anew makes an index of them.
LEMMA RelinkedIs ==
    ASSUME NEW roots, NEW max \in Nat, max > 0, NEW n \in 0 .. max,
           NEW big \in [0 .. max - 1 -> Addrs], \A i \in 0 .. n - 1 : big[i] = roots[i]
    PROVE  /\ Linked(Relinked(roots, n, max), 0 .. n - 1, big, max)
           /\ \A i \in 0 .. n - 1 : LET next == Relinked(roots, n, max).next[i]
                                   IN  next # Nil => next < i
<1> DEFINE x == Relinked(roots, n, max)
           B(i) == Bucket(big, max, i)
           In(b) == {i \in 0 .. n - 1 : gc_root_bucket(roots[i], max) = b}
           Before(i) == {j \in In(gc_root_bucket(roots[i], max)) : j < i}
           After(i) == {j \in In(gc_root_bucket(roots[i], max)) : j > i}
<1>1. \A i \in 0 .. n - 1 : B(i) = gc_root_bucket(roots[i], max) /\ B(i) \in 0 .. 2 * max - 1
  <2>1. \A i \in 0 .. n - 1 : big[i] \in Addrs /\ big[i] = roots[i]
    OBVIOUS
  <2> QED
    BY <2>1, BucketRange DEF Bucket
<1>2. n \in Nat /\ \A i \in 0 .. n - 1 : i \in 0 .. max - 1 /\ i \in Int /\ i # Nil
  BY DEF Nil
<1>3. /\ DOMAIN x = {"buckets", "next", "previous"}
      /\ x.buckets = [b \in 0 .. 2 * max - 1 |-> Greatest(In(b))]
      /\ x.next = [i \in 0 .. max - 1 |-> IF i < n THEN Greatest(Before(i)) ELSE Nil]
      /\ x.previous = [i \in 0 .. max - 1 |-> IF i < n THEN Least(After(i)) ELSE Nil]
  BY DEF Relinked
<1> HIDE DEF x
<1>4. /\ \A b : In(b) \subseteq 0 .. n - 1
      /\ \A i : Before(i) \subseteq 0 .. n - 1 /\ After(i) \subseteq 0 .. n - 1
  OBVIOUS
<1>5. /\ \A b : Greatest(In(b)) \in Int
      /\ \A i : Greatest(Before(i)) \in Int /\ Least(After(i)) \in Int
  <2>1. \A S : S \subseteq 0 .. n - 1 => Greatest(S) \in (0 .. n - 1) \cup {Nil}
    BY <1>2, GreatestIs
  <2>2. \A S : S \subseteq 0 .. n - 1 => Least(S) \in (0 .. n - 1) \cup {Nil}
    BY <1>2, LeastIs
  <2>3. (0 .. n - 1) \cup {Nil} \subseteq Int
    BY DEF Nil
  <2> HIDE DEF In, Before, After
  <2> QED
    BY <1>4, <2>1, <2>2, <2>3
<1>6. Arrays(x, max)
  <2>1. Nil \in Int
    BY DEF Nil
  <2> HIDE DEF In, Before, After
  <2>2. x.buckets \in [0 .. 2 * max - 1 -> Int]
    BY <1>3, <1>5
  <2>3. x.next \in [0 .. max - 1 -> Int]
    BY <1>3, <1>5, <2>1
  <2>4. x.previous \in [0 .. max - 1 -> Int]
    BY <1>3, <1>5, <2>1
  <2> QED
    BY <1>3, <2>2, <2>3, <2>4 DEF Arrays
<1>7. /\ \A b \in 0 .. 2 * max - 1 : x.buckets[b] = Greatest(In(b))
      /\ \A i \in 0 .. n - 1 : x.next[i] = Greatest(Before(i)) /\ x.previous[i] = Least(After(i))
  BY <1>2, <1>3
<1>8. \A i, j \in 0 .. n - 1 :
        /\ j \in Before(i) <=> B(j) = B(i) /\ j < i
        /\ j \in After(i) <=> B(j) = B(i) /\ j > i
  BY <1>1
<1> HIDE DEF B, In, Before, After
<1>9. \A i \in 0 .. n - 1 : x.next[i] # Nil =>
        /\ x.next[i] \in Before(i) /\ \A j \in Before(i) : j <= x.next[i]
  BY <1>2, <1>4, <1>7, GreatestIs
<1>10. \A i \in 0 .. n - 1 :
        IF x.previous[i] = Nil THEN After(i) = {}
        ELSE x.previous[i] \in After(i) /\ \A j \in After(i) : x.previous[i] <= j
  BY <1>2, <1>4, <1>7, LeastIs
<1>11. Forward(x, 0 .. n - 1, big, max)
  <2> SUFFICES ASSUME NEW i \in 0 .. n - 1, x.next[i] # Nil
               PROVE  x.next[i] \in 0 .. n - 1 /\ x.previous[x.next[i]] = i /\ B(x.next[i]) = B(i)
    BY DEF Forward, B
  <2>1. PICK g \in 0 .. n - 1 : g = x.next[i] /\ B(g) = B(i) /\ g < i /\ \A j \in Before(i) : j <= g
    BY <1>4, <1>8, <1>9
  <2>2. i \in After(g) /\ \A j \in After(g) : i <= j
    <3>1. i \in After(g)
      BY <2>1, <1>2, <1>8
    <3>2. ASSUME NEW j \in After(g) PROVE i <= j
      <4>1. j \in 0 .. n - 1 /\ B(j) = B(i) /\ j > g
        BY <2>1, <3>2, <1>4, <1>8
      <4>2. ~(j < i)
        BY <2>1, <4>1, <1>8
      <4> QED
        BY <4>1, <4>2
    <3> QED
      BY <3>1, <3>2
  <2>3. Least(After(g)) = i
    BY <2>2, <1>2, <1>4, LeastIs
  <2> QED
    BY <2>1, <2>3, <1>7
<1>12. Backward(x, 0 .. n - 1, big, max)
  <2> SUFFICES ASSUME NEW i \in 0 .. n - 1
               PROVE  IF x.previous[i] = Nil THEN x.buckets[B(i)] = i
                      ELSE x.previous[i] \in 0 .. n - 1 /\ x.next[x.previous[i]] = i
    BY DEF Backward, B
  <2>1. CASE x.previous[i] = Nil
    <3>1. i \in In(B(i)) /\ \A j \in In(B(i)) : j \in 0 .. n - 1 /\ B(j) = B(i)
      BY <1>1 DEF In
    <3>2. \A j \in In(B(i)) : ~(j > i)
      BY <2>1, <3>1, <1>8, <1>10
    <3>3. \A j \in In(B(i)) : j <= i
      BY <3>1, <3>2
    <3>4. Greatest(In(B(i))) = i
      BY <3>1, <3>3, <1>2, <1>4, GreatestIs
    <3> QED
      BY <2>1, <3>4, <1>1, <1>7
  <2>2. CASE x.previous[i] # Nil
    <3>1. PICK l \in 0 .. n - 1 : l = x.previous[i] /\ B(l) = B(i) /\ l > i /\ \A j \in After(i) : l <= j
      BY <2>2, <1>4, <1>8, <1>10
    <3>2. i \in Before(l)
      BY <3>1, <1>2, <1>8
    <3>3. ASSUME NEW j \in Before(l) PROVE j <= i
      <4>1. j \in 0 .. n - 1 /\ B(j) = B(i) /\ j < l
        BY <3>1, <3>3, <1>4, <1>8
      <4>2. ~(j > i)
        BY <3>1, <4>1, <1>8
      <4> QED
        BY <4>1, <4>2
    <3>4. Greatest(Before(l)) = i
      BY <3>2, <3>3, <1>2, <1>4, GreatestIs
    <3> QED
      BY <2>2, <3>1, <3>4, <1>7
  <2> QED
    BY <2>1, <2>2
<1>13. Heads(x, 0 .. n - 1, big, max)
  <2> SUFFICES ASSUME NEW b \in 0 .. 2 * max - 1, x.buckets[b] # Nil
               PROVE  /\ x.buckets[b] \in 0 .. n - 1 /\ x.previous[x.buckets[b]] = Nil
                      /\ B(x.buckets[b]) = b
    BY DEF Heads, B
  <2>1. PICK h \in In(b) : h = x.buckets[b] /\ \A j \in In(b) : j <= h
    BY <1>2, <1>4, <1>7, GreatestIs
  <2>2. h \in 0 .. n - 1 /\ B(h) = b
    BY <2>1, <1>1 DEF In
  <2>3. After(h) = {}
    <3> SUFFICES ASSUME NEW j \in After(h) PROVE FALSE
      OBVIOUS
    <3>1. j \in 0 .. n - 1 /\ B(j) = b /\ j > h
      BY <2>2, <1>4, <1>8
    <3>2. j <= h
      BY <2>1, <3>1, <1>1 DEF In
    <3> QED
      BY <2>2, <3>1, <3>2
  <2>4. Least(After(h)) = Nil
    BY <2>3 DEF Least
  <2> QED
    BY <2>1, <2>2, <2>4, <1>7
<1>14. \A i \in 0 .. n - 1 : x.next[i] # Nil => x.next[i] < i
  BY <1>4, <1>8, <1>9
<1> QED
  BY <1>6, <1>11, <1>12, <1>13, <1>14 DEF Linked, x

-----------------------------------------------------------------------------
(* Initial state and the steps *)

LEMMA InitInv == RootsInit => IInv
<1> SUFFICES ASSUME RootsInit PROVE IInv
  OBVIOUS
<1>1. /\ gc_roots_max = 0 /\ gc_roots_count = 0 /\ Slots = {} /\ Used = {}
      /\ 0 .. gc_roots_max - 1 = {} /\ 0 .. 2 * gc_roots_max - 1 = {}
  BY DEF RootsInit, Slots, Used
<1>2. \A T : <<>> \in [{} -> T]
  OBVIOUS
<1>3. TypeInv
  BY <1>1, <1>2 DEF RootsInit, TypeInv
<1>4. Arrays(Index, gc_roots_max)
  BY <1>1, <1>2 DEF RootsInit, Arrays, Index
<1>5. Linked(Index, Used, gc_roots, gc_roots_max)
  BY <1>1, <1>4 DEF Linked, Forward, Backward, Heads
<1>6. 0 \in Nat /\ DOMAIN <<>> = Slots /\ Ranked(Index, Used, <<>>, 0)
  BY <1>1 DEF Ranked
<1> QED
  BY <1>3, <1>5, <1>6 DEF IInv

\* An index knows of an array what it has at the entries in use.
LEMMA LinkedSame ==
    ASSUME NEW x, NEW used, NEW roots, NEW big, NEW max,
           \A i \in used : big[i] = roots[i], Linked(x, used, roots, max)
    PROVE  Linked(x, used, big, max)
<1>1. \A i \in used : Bucket(big, max, i) = Bucket(roots, max, i)
  BY DEF Bucket
<1>2. Forward(x, used, big, max)
  BY <1>1 DEF Linked, Forward
<1>3. Backward(x, used, big, max)
  BY <1>1 DEF Linked, Backward
<1>4. Heads(x, used, big, max)
  BY <1>1 DEF Linked, Heads
<1> QED
  BY <1>2, <1>3, <1>4 DEF Linked

\* The index that a registration is linked into: the old one, or one of twice
\* the size.
LEMMA Room ==
    ASSUME IInv, NEW a \in Addrs, NEW max, NEW x,
           IF gc_roots_count = gc_roots_max
             THEN /\ max = IF gc_roots_max = 0 THEN FirstMax ELSE 2 * gc_roots_max
                  /\ x = Relinked(gc_roots, gc_roots_count, max)
             ELSE max = gc_roots_max /\ x = Index
    PROVE  /\ Table(Used, Grown(gc_roots, max, a), max)
           /\ gc_roots_count \in 0 .. max - 1
           /\ Linked(x, Used, Grown(gc_roots, max, a), max)
           /\ \E rank, top : top \in Nat /\ Ranked(x, Used, rank, top)
<1> DEFINE big == Grown(gc_roots, max, a)
<1>1. /\ gc_roots_max \in Nat /\ gc_roots_count \in Nat /\ gc_roots_count <= gc_roots_max
      /\ gc_roots \in [0 .. gc_roots_max - 1 -> Addrs]
  BY DEF IInv, TypeInv, Slots
<1>2. max \in Nat /\ max > 0 /\ gc_roots_count \in 0 .. max - 1 /\ gc_roots_count < max
  BY <1>1, HashAssumption
<1>3. /\ Used = 0 .. gc_roots_count - 1
      /\ Used \subseteq 0 .. gc_roots_max - 1 /\ Used \subseteq 0 .. max - 1
  BY <1>1, <1>2 DEF Used
<1>4. big \in [0 .. max - 1 -> Addrs] /\ \A i \in Used : big[i] = gc_roots[i]
  BY <1>1, <1>3 DEF Grown
<1>5. Table(Used, big, max)
  BY <1>2, <1>3, <1>4 DEF Table
<1>6. Linked(x, Used, big, max) /\ \E rank, top : top \in Nat /\ Ranked(x, Used, rank, top)
  <2>1. CASE gc_roots_count = gc_roots_max
    <3>1. x = Relinked(gc_roots, gc_roots_count, max)
      BY <2>1
    <3>2. gc_roots_count \in 0 .. max /\ \A i \in 0 .. gc_roots_count - 1 : big[i] = gc_roots[i]
      BY <1>2, <1>3, <1>4
    <3> HIDE DEF big
    <3>3. /\ Linked(x, 0 .. gc_roots_count - 1, big, max)
          /\ \A i \in 0 .. gc_roots_count - 1 : x.next[i] # Nil => x.next[i] < i
      BY <3>1, <3>2, <1>2, <1>4, RelinkedIs
    <3>4. PICK rank : rank = [i \in Used |-> i]
      OBVIOUS
    <3>5. \A i \in Used : x.next[i] # Nil => x.next[i] \in Used /\ x.next[i] < i
      BY <3>3, <1>3 DEF Linked, Forward
    <3>6. \A i \in Used : i \in Nat /\ i < gc_roots_count
      BY <1>1, <1>3
    <3>7. Ranked(x, Used, rank, gc_roots_count)
      BY <3>4, <3>5, <3>6 DEF Ranked
    <3> QED
      BY <3>3, <3>7, <1>1, <1>3
  <2>2. CASE gc_roots_count # gc_roots_max
    <3>1. x = Index /\ max = gc_roots_max
      BY <2>2
    <3>2. Linked(x, Used, gc_roots, max) /\ \E rank, top : top \in Nat /\ Ranked(x, Used, rank, top)
      BY <3>1 DEF IInv
    <3> HIDE DEF big
    <3> QED
      BY <3>2, <1>4, LinkedSame
  <2> QED
    BY <2>1, <2>2
<1> QED
  BY <1>2, <1>5, <1>6

\* Every chain has an end, so its entries can be numbered down to it.
LEMMA ChainEntries ==
    ASSUME IInv, NEW b \in 0 .. 2 * gc_roots_max - 1
    PROVE  Chain(gc_root_buckets[b]) = {i \in Used : gc_root_bucket(gc_roots[i], gc_roots_max) = b}
<1> DEFINE head == gc_root_buckets[b]
           Closed(S) == /\ head # Nil => head \in S
                        /\ \A k \in S : gc_root_next[k] # Nil => gc_root_next[k] \in S
           E == {i \in Used : Bucket(gc_roots, gc_roots_max, i) = b}
<1>1. /\ Index.buckets = gc_root_buckets /\ Index.next = gc_root_next
      /\ Index.previous = gc_root_previous
  BY DEF Index
<1>2. \A i \in Used : gc_root_next[i] # Nil =>
        /\ gc_root_next[i] \in Used
        /\ Bucket(gc_roots, gc_roots_max, gc_root_next[i]) = Bucket(gc_roots, gc_roots_max, i)
  BY <1>1 DEF IInv, Linked, Forward
<1>3. \A i \in Used :
        IF gc_root_previous[i] = Nil THEN gc_root_buckets[Bucket(gc_roots, gc_roots_max, i)] = i
        ELSE gc_root_previous[i] \in Used /\ gc_root_next[gc_root_previous[i]] = i
  BY <1>1 DEF IInv, Linked, Backward
<1>4. head # Nil => head \in E
  BY <1>1 DEF IInv, Linked, Heads
<1>5. \A i \in Used : i # Nil
  BY DEF Used, Nil, IInv, TypeInv
<1>6. E \subseteq Slots
  BY DEF Slots, Used, IInv, TypeInv
<1>7. Closed(E)
  BY <1>2, <1>4
<1>8. PICK rank, top : /\ top \in Nat
                       /\ \A i \in Used : /\ rank[i] \in Nat /\ rank[i] < top
                                          /\ gc_root_next[i] # Nil => rank[gc_root_next[i]] < rank[i]
  BY <1>1 DEF IInv, Ranked
<1>9. ASSUME NEW S, Closed(S) PROVE E \subseteq S
  <2> SUFFICES ASSUME E \ S # {} PROVE FALSE
    OBVIOUS
  <2> DEFINE T == {top - rank[i] : i \in E \ S}
  <2>1. T \subseteq Nat /\ T # {}
    BY <1>8
  <2>2. PICK m \in T : \A j \in T : m <= j
    <3> HIDE DEF T
    <3> QED
      BY <2>1, LeastNumber
  <2>3. PICK i \in E \ S : m = top - rank[i]
    OBVIOUS
  <2>4. \A j \in E \ S : top - rank[i] <= top - rank[j]
    BY <2>2, <2>3
  <2>5. \A j \in E \ S : rank[j] <= rank[i]
    BY <2>4, <1>8
  <2>6. gc_root_previous[i] # Nil
    BY <2>3, <1>3, <1>5, <1>9
  <2>7. PICK p \in Used : p = gc_root_previous[i] /\ gc_root_next[p] = i
    BY <2>6, <1>3
  <2>8. p \in E /\ rank[i] < rank[p] /\ rank[p] \in Nat /\ rank[i] \in Nat
    BY <2>7, <1>2, <1>5, <1>8
  <2>9. p \notin S
    BY <2>3, <2>7, <1>5, <1>9
  <2> QED
    BY <2>5, <2>8, <2>9
<1>10. Chain(head) = {j \in Slots : \A S \in SUBSET Slots : Closed(S) => j \in S}
  BY DEF Chain
<1>11. Chain(head) = E
  <2> HIDE DEF Closed, E
  <2> QED
    BY <1>6, <1>7, <1>9, <1>10
<1> QED
  BY <1>11 DEF Bucket

\* What hl_remove_root finds is what the scan from the end of the array finds.
LEMMA FoundIs ==
    ASSUME IInv, NEW a \in Addrs, NEW found \in Found(a)
    PROVE  /\ found \in Used /\ gc_roots[found] = a
           /\ \A j \in Used : gc_roots[j] = a => j <= found
<1>1. gc_roots_count # 0 /\ gc_roots_count \in Nat /\ gc_roots_max \in Nat /\ gc_roots_max > 0
  BY DEF Found, Matches, IInv, TypeInv
<1>2. gc_root_bucket(a, gc_roots_max) \in 0 .. 2 * gc_roots_max - 1
  BY <1>1, BucketRange
<1>3. Matches(a) = {i \in Used : gc_roots[i] = a}
  BY <1>1, <1>2, ChainEntries DEF Matches
<1> QED
  BY <1>3 DEF Found

-----------------------------------------------------------------------------

LEMMA AddInv ==
    ASSUME IInv, NEW a \in Addrs, NEW w \in Owners, hl_add_root_owner(a, w)
    PROVE  IInv'
<1> DEFINE n == gc_roots_count
           max == gc_roots_max'
<1>1. PICK x : /\ IF n = gc_roots_max
                     THEN /\ max = IF gc_roots_max = 0 THEN FirstMax ELSE 2 * gc_roots_max
                          /\ x = Relinked(gc_roots, n, max)
                     ELSE max = gc_roots_max /\ x = Index
               /\ SetIndex(gc_root_link(x, n, a, max))
  BY DEF hl_add_root_owner
<1>2. /\ gc_roots' = [Grown(gc_roots, max, a) EXCEPT ![n] = a]
      /\ gc_root_owners' = [Grown(gc_root_owners, max, w) EXCEPT ![n] = w]
      /\ gc_roots_count' = n + 1
  BY DEF hl_add_root_owner
<1> DEFINE big == Grown(gc_roots, max, a)
           y == gc_root_link(x, n, a, max)
<1>3. /\ Table(Used, big, max) /\ n \in 0 .. max - 1 /\ Linked(x, Used, big, max)
      /\ \E rank, top : top \in Nat /\ Ranked(x, Used, rank, top)
  BY <1>1, Room
<1>4. n \in Nat /\ n <= gc_roots_max /\ gc_roots_max \in Nat
  BY DEF IInv, TypeInv
<1>5. n \notin Used /\ Used' = Used \cup {n} /\ Slots' = 0 .. max - 1 /\ max \in Nat /\ max > 0
  BY <1>2, <1>3, <1>4 DEF Used, Slots, Table
<1>6. /\ Linked(y, Used \cup {n}, gc_roots', max)
      /\ NextLinked(y, x, Used, n)
  <2> HIDE DEF big, y
  <2>1. y = gc_root_link(x, n, a, max)
    BY DEF y
  <2>2. /\ gc_roots' \in [0 .. max - 1 -> Addrs] /\ gc_roots'[n] = a
        /\ \A k \in Used : gc_roots'[k] = big[k]
    <3>1. gc_roots' = [big EXCEPT ![n] = a]
      BY <1>2 DEF big
    <3> QED
      BY <3>1, <1>3, <1>5 DEF Table
  <2> QED
    BY <2>1, <2>2, <1>3, <1>5, LinkKeeps
<1>7. Index' = y
  BY <1>1 DEF SetIndex, Index, gc_root_link
<1> HIDE DEF y, big
<1>8. TypeInv'
  <2>1. gc_roots' \in [Slots' -> Addrs]
    BY <1>2, <1>3, <1>5 DEF Table, big
  <2>2. gc_root_owners \in [0 .. gc_roots_max - 1 -> Owners] /\ Used \subseteq 0 .. gc_roots_max - 1
    BY <1>4 DEF IInv, TypeInv, Slots, Used
  <2>3. Grown(gc_root_owners, max, w) \in [0 .. max - 1 -> Owners]
    BY <2>2 DEF Grown
  <2>4. gc_root_owners' \in [Slots' -> Owners]
    BY <2>3, <1>2, <1>3, <1>5
  <2>5. gc_roots_count' \in 0 .. gc_roots_max' /\ gc_roots_max' \in Nat
    <3>1. PICK m \in Nat : m = max
      BY <1>5
    <3>2. n \in 0 .. m - 1
      BY <3>1, <1>3
    <3>3. n + 1 \in 0 .. m
      BY <3>2
    <3> QED
      BY <3>1, <3>3, <1>2
  <2> QED
    BY <2>1, <2>4, <2>5 DEF TypeInv
<1>9. Linked(Index', Used', gc_roots', max)
  BY <1>5, <1>6, <1>7
<1>10. PICK rank, top : top \in Nat /\ Ranked(x, Used, rank, top)
  BY <1>3
<1>11. PICK rk : rk = [k \in 0 .. max - 1 |-> IF k = n THEN top ELSE rank[k]]
  OBVIOUS
<1>12. Used \subseteq 0 .. max - 1
  BY <1>3 DEF Table
<1>13. /\ rk[n] = top /\ \A k \in Used : rk[k] = rank[k]
       /\ \A k \in Used : x.next[k] # Nil => x.next[k] \in Used
  BY <1>3, <1>5, <1>11, <1>12 DEF Linked, Forward
<1>14. Ranked(y, Used \cup {n}, rk, top + 1)
  BY <1>6, <1>10, <1>13 DEF Ranked, NextLinked
<1>15. top + 1 \in Nat /\ DOMAIN rk = Slots' /\ Ranked(Index', Used', rk, top + 1)
  BY <1>5, <1>7, <1>10, <1>11, <1>14
<1> QED
  BY <1>8, <1>9, <1>15 DEF IInv

LEMMA RemoveInv ==
    ASSUME IInv, NEW a \in Addrs, hl_remove_root(a)
    PROVE  IInv'
<1> DEFINE last == gc_roots_count - 1
           max == gc_roots_max
<1>1. PICK found \in Found(a) :
        /\ gc_roots_count' = last
        /\ gc_roots' = [gc_roots EXCEPT ![found] = gc_roots[last]]
        /\ gc_root_owners' = [gc_root_owners EXCEPT ![found] = gc_root_owners[last]]
        /\ SetIndex(IF found = last THEN gc_root_unlink(Index, found, a, max)
                    ELSE Move(gc_root_unlink(Index, found, a, max), found, last, gc_roots[last], max))
        /\ gc_roots_max' = gc_roots_max
  BY DEF hl_remove_root
<1>2. found \in Used /\ gc_roots[found] = a
  BY FoundIs
<1>3. /\ max \in Nat /\ gc_roots_count \in Nat /\ gc_roots_count <= max /\ found \in 0 .. last
      /\ last \in 0 .. max - 1 /\ found \in 0 .. max - 1 /\ max > 0
      /\ Used = 0 .. last /\ Used' = 0 .. last - 1 /\ Slots = 0 .. max - 1 /\ Slots' = Slots
  BY <1>1, <1>2 DEF IInv, TypeInv, Used, Slots
<1>4. Table(Used, gc_roots, max)
  BY <1>3 DEF Table, IInv, TypeInv
<1>5. PICK y : y = gc_root_unlink(Index, found, gc_roots[found], max)
  OBVIOUS
<1>6. /\ Table(Used \ {found}, gc_roots, max)
      /\ Linked(y, Used \ {found}, gc_roots, max)
      /\ NextUnlinked(y, Index, Used, found)
  <2>1. Linked(Index, Used, gc_roots, max)
    BY DEF IInv
  <2> QED
    BY <2>1, <1>2, <1>4, <1>5, UnlinkKeeps
<1>7. PICK rank, top : top \in Nat /\ DOMAIN rank = Slots /\ Ranked(Index, Used, rank, top)
  BY DEF IInv
<1>8. found # Nil /\ \A k \in Used : Index.next[k] # Nil => Index.next[k] \in Used
  BY <1>3 DEF IInv, Linked, Forward, Nil
<1>9. Ranked(y, Used \ {found}, rank, top)
  BY <1>2, <1>6, <1>7, <1>8 DEF Ranked, NextUnlinked
<1>10. TypeInv'
  <2>1. gc_roots' \in [Slots -> Addrs] /\ gc_root_owners' \in [Slots -> Owners]
    BY <1>1, <1>3 DEF IInv, TypeInv
  <2> QED
    BY <2>1, <1>1, <1>3 DEF TypeInv
<1>11. CASE found = last
  <2>1. Index' = y
    BY <1>1, <1>2, <1>5, <1>11 DEF SetIndex, Index, gc_root_unlink
  <2>2. Used' = Used \ {found}
    BY <1>3, <1>11
  <2>3. gc_roots' = gc_roots
    BY <1>1, <1>3, <1>11 DEF IInv, TypeInv
  <2>4. Linked(Index', Used', gc_roots', gc_roots_max')
    BY <2>1, <2>2, <2>3, <1>1, <1>6
  <2>5. DOMAIN rank = Slots' /\ Ranked(Index', Used', rank, top)
    BY <2>1, <2>2, <1>3, <1>7, <1>9
  <2> QED
    BY <2>4, <2>5, <1>7, <1>10 DEF IInv
<1>12. CASE found # last
  <2>1. PICK z : z = Move(y, found, last, gc_roots[last], max)
    OBVIOUS
  <2>2. Index' = z
    BY <2>1, <1>1, <1>2, <1>5, <1>12 DEF SetIndex, Index, Move
  <2>3. last \in Used \ {found} /\ last # Nil
    BY <1>3, <1>12 DEF Nil
  <2>4. y.next[last] # last
    BY <2>3, <1>9 DEF Ranked
  <2>5. /\ Linked(z, ((Used \ {found}) \ {last}) \cup {found}, gc_roots', max)
        /\ NextMoved(z, y, Used \ {found}, last, found)
    <3>1. /\ gc_roots' \in [0 .. max - 1 -> Addrs] /\ gc_roots'[found] = gc_roots[last]
          /\ \A k \in (Used \ {found}) \ {last} : gc_roots'[k] = gc_roots[k]
      BY <1>1, <1>3, <1>4 DEF Table
    <3>2. found \notin Used \ {found} /\ found \in 0 .. max - 1
      BY <1>3
    <3> QED
      BY <2>1, <2>3, <2>4, <3>1, <3>2, <1>6, MoveKeeps
  <2>6. Used' = ((Used \ {found}) \ {last}) \cup {found}
    BY <1>3, <1>12
  <2>7. PICK rk : rk = [rank EXCEPT ![found] = rank[last]]
    OBVIOUS
  <2>8. /\ DOMAIN rk = Slots /\ rk[found] = rank[last]
        /\ \A k \in (Used \ {found}) \ {last} : rk[k] = rank[k]
    BY <2>7, <1>3, <1>7
  <2>9. \A k \in Used \ {found} : y.next[k] # Nil => y.next[k] \in Used \ {found}
    BY <1>6 DEF Linked, Forward
  <2>10. Ranked(z, ((Used \ {found}) \ {last}) \cup {found}, rk, top)
    <3> SUFFICES ASSUME NEW k \in ((Used \ {found}) \ {last}) \cup {found}
                 PROVE  /\ rk[k] \in Nat /\ rk[k] < top
                        /\ z.next[k] # Nil => rk[z.next[k]] < rk[k]
      BY DEF Ranked
    <3>1. CASE k = found
      BY <3>1, <2>3, <2>4, <2>5, <2>8, <2>9, <1>9 DEF Ranked, NextMoved
    <3>2. CASE k # found
      BY <3>2, <2>3, <2>5, <2>8, <2>9, <1>9 DEF Ranked, NextMoved
    <3> QED
      BY <3>1, <3>2
  <2>11. Linked(Index', Used', gc_roots', gc_roots_max')
    BY <2>2, <2>5, <2>6, <1>1
  <2>12. DOMAIN rk = Slots' /\ Ranked(Index', Used', rk, top)
    BY <2>2, <2>6, <2>8, <2>10, <1>3
  <2> QED
    BY <2>11, <2>12, <1>7, <1>10 DEF IInv
<1> QED
  BY <1>11, <1>12

LEMMA StepInv == IInv /\ [RootsNext]_roots_vars => IInv'
<1>1. ASSUME IInv, UNCHANGED roots_vars PROVE IInv'
  BY <1>1 DEF roots_vars, IInv, TypeInv, Slots, Used, Index
<1> QED
  BY <1>1, AddInv, RemoveInv DEF RootsNext

-----------------------------------------------------------------------------
(* The theorems *)

LEMMA Invariance == RootsSpec => []IInv
BY InitInv, StepInv, PTL DEF RootsSpec

\* The index is exact for every address set, hash function and table size: a
\* chain of gc_root_next has the entries of its bucket, all of them and no
\* other, and gc_root_previous leads back to the bucket.
THEOREM IndexExactCorrect == RootsSpec => []IndexExact
<1>1. IInv => IndexExact
  <2> SUFFICES ASSUME IInv PROVE IndexExact
    OBVIOUS
  <2>1. DOMAIN gc_root_buckets = 0 .. 2 * gc_roots_max - 1
    BY DEF IInv, Linked, Arrays, Index
  <2>2. \A i \in Used :
          /\ gc_root_next[i] # Nil => gc_root_previous[gc_root_next[i]] = i
          /\ gc_root_previous[i] = Nil => gc_root_buckets[gc_root_bucket(gc_roots[i], gc_roots_max)] = i
    <3>1. Index.next = gc_root_next /\ Index.previous = gc_root_previous /\ Index.buckets = gc_root_buckets
      BY DEF Index
    <3> QED
      BY <3>1 DEF IInv, Linked, Forward, Backward, Bucket
  <2> QED
    BY <2>1, <2>2, ChainEntries DEF IndexExact
<1> QED
  BY <1>1, Invariance, PTL

(* The list of registrations that the table stands for. *)
Listed == [i \in 1 .. gc_roots_count |-> [root |-> gc_roots[i - 1], owner |-> gc_root_owners[i - 1]]]

(* An array of n entries, counted from 1, is a sequence of length n. *)
LEMMA ArrayIsSeq ==
    ASSUME NEW S, NEW n \in Nat, NEW f \in [1 .. n -> S]
    PROVE  f \in Seq(S) /\ Len(f) = n
<1>1. f \in Seq(S)
  OBVIOUS
<1>2. Len(f) \in Nat /\ 1 .. n = 1 .. Len(f)
  BY <1>1, LenProperties
<1>3. n = Len(f)
  <2>1. n > 0 => n \in 1 .. Len(f)
    BY <1>2
  <2>2. Len(f) > 0 => Len(f) \in 1 .. n
    BY <1>2
  <2> QED
    BY <1>2, <2>1, <2>2
<1> QED
  BY <1>1, <1>3

LEMMA ListIs ==
    ASSUME NEW n \in Nat, NEW r, NEW w, \A i \in 0 .. n - 1 : r[i] \in Addrs /\ w[i] \in Owners,
           NEW l, l = [i \in 1 .. n |-> [root |-> r[i - 1], owner |-> w[i - 1]]]
    PROVE  /\ l \in Seq([root : Addrs, owner : Owners])
           /\ Len(l) = n /\ DOMAIN l = 1 .. n
<1>1. \A i \in 1 .. n : i - 1 \in 0 .. n - 1
  OBVIOUS
<1>2. l \in [1 .. n -> [root : Addrs, owner : Owners]]
  BY <1>1
<1> QED
  BY <1>2, ArrayIsSeq

LEMMA ListedIs ==
    ASSUME IInv
    PROVE  /\ Listed \in Seq([root : Addrs, owner : Owners])
           /\ Len(Listed) = gc_roots_count
           /\ DOMAIN Listed = 1 .. gc_roots_count
<1>1. /\ gc_roots_count \in Nat
      /\ \A i \in 0 .. gc_roots_count - 1 : gc_roots[i] \in Addrs /\ gc_root_owners[i] \in Owners
  BY DEF IInv, TypeInv, Slots
<1> QED
  BY <1>1, ListIs DEF Listed

LEMMA AddRefines ==
    ASSUME IInv, IInv', NEW a \in Addrs, NEW w \in Owners, hl_add_root_owner(a, w)
    PROVE  Registry!Add(a, w)
<1> DEFINE n == gc_roots_count
           max == gc_roots_max'
           e == [root |-> a, owner |-> w]
<1>1. /\ gc_roots' = [Grown(gc_roots, max, a) EXCEPT ![n] = a]
      /\ gc_root_owners' = [Grown(gc_root_owners, max, w) EXCEPT ![n] = w]
      /\ gc_roots_count' = n + 1 /\ n < MaxRoots
  BY DEF hl_add_root_owner
<1>2. n \in Nat /\ max \in Nat /\ n + 1 <= max
  BY <1>1 DEF IInv, TypeInv
<1>3. /\ gc_roots'[n] = a /\ gc_root_owners'[n] = w
      /\ \A i \in Used : gc_roots'[i] = gc_roots[i] /\ gc_root_owners'[i] = gc_root_owners[i]
  <2>1. n \in 0 .. max - 1 /\ \A i \in Used : i \in 0 .. max - 1 /\ i # n
    <3>1. PICK m \in Nat : m = max /\ n + 1 <= m
      BY <1>2
    <3>2. PICK c \in Nat : c = n
      BY <1>2
    <3>3. c + 1 <= m
      BY <3>1, <3>2
    <3>4. c \in 0 .. m - 1 /\ \A i \in 0 .. c - 1 : i \in 0 .. m - 1 /\ i # c
      BY <3>3
    <3> QED
      BY <3>1, <3>2, <3>4 DEF Used
  <2>2. gc_roots'[n] = a /\ \A i \in Used : gc_roots'[i] = gc_roots[i]
    BY <2>1, <1>1 DEF Grown
  <2>3. gc_root_owners'[n] = w /\ \A i \in Used : gc_root_owners'[i] = gc_root_owners[i]
    BY <2>1, <1>1 DEF Grown
  <2> QED
    BY <2>2, <2>3
<1>4. \A i \in 1 .. n + 1 : Listed'[i] = IF i = n + 1 THEN e ELSE Listed[i]
  <2> SUFFICES ASSUME NEW i \in 1 .. n + 1
               PROVE  Listed'[i] = IF i = n + 1 THEN e ELSE Listed[i]
    OBVIOUS
  <2>1. Listed'[i] = [root |-> gc_roots'[i - 1], owner |-> gc_root_owners'[i - 1]]
    BY <1>1 DEF Listed
  <2>2. CASE i = n + 1
    BY <2>1, <2>2, <1>2, <1>3
  <2>3. CASE i # n + 1
    <3>1. i \in 1 .. n /\ i - 1 \in Used
      BY <2>3, <1>2 DEF Used
    <3> QED
      BY <2>1, <2>3, <3>1, <1>3 DEF Listed
  <2> QED
    BY <2>2, <2>3
<1>5. Listed' = Append(Listed, e)
  <2>1. /\ Listed' \in Seq([root : Addrs, owner : Owners]) /\ Len(Listed') = n + 1
    <3>1. /\ n + 1 \in Nat
          /\ \A i \in 0 .. (n + 1) - 1 : gc_roots'[i] \in Addrs /\ gc_root_owners'[i] \in Owners
      <4>1. PICK m \in Nat : m = max /\ n + 1 <= m
        BY <1>2
      <4>2. gc_roots' \in [0 .. m - 1 -> Addrs] /\ gc_root_owners' \in [0 .. m - 1 -> Owners]
        BY <4>1 DEF IInv, TypeInv, Slots
      <4>3. PICK c \in Nat : c = n
        BY <1>2
      <4>4. c + 1 <= m
        BY <4>1, <4>3
      <4>5. c + 1 \in Nat /\ \A i \in 0 .. (c + 1) - 1 : i \in 0 .. m - 1
        BY <4>4
      <4> QED
        BY <4>2, <4>3, <4>5
    <3>2. Listed' = [i \in 1 .. n + 1 |-> [root |-> gc_roots'[i - 1], owner |-> gc_root_owners'[i - 1]]]
      BY <1>1 DEF Listed
    <3>3. PICK l : l = Listed'
      OBVIOUS
    <3>4. PICK r, o : r = gc_roots' /\ o = gc_root_owners'
      OBVIOUS
    <3>5. PICK c \in Nat : c = n + 1
      BY <3>1
    <3>6. /\ \A i \in 0 .. c - 1 : r[i] \in Addrs /\ o[i] \in Owners
          /\ l = [i \in 1 .. c |-> [root |-> r[i - 1], owner |-> o[i - 1]]]
      BY <3>1, <3>2, <3>3, <3>4, <3>5
    <3>7. l \in Seq([root : Addrs, owner : Owners]) /\ Len(l) = c
      BY <3>6, ListIs
    <3> QED
      BY <3>3, <3>5, <3>7
  <2>2. Listed \in Seq([root : Addrs, owner : Owners]) /\ Len(Listed) = n
    BY ListedIs
  <2>3. e \in [root : Addrs, owner : Owners]
    OBVIOUS
  <2> HIDE DEF e
  <2>4. /\ Append(Listed, e) \in Seq([root : Addrs, owner : Owners])
        /\ Len(Append(Listed, e)) = n + 1
        /\ \A i \in 1 .. n : Append(Listed, e)[i] = Listed[i]
        /\ Append(Listed, e)[n + 1] = e
    BY <2>2, <2>3, AppendProperties
  <2>5. \A i \in 1 .. n + 1 : Append(Listed, e)[i] = Listed'[i]
    BY <2>4, <1>2, <1>4
  <2> QED
    BY <2>1, <2>4, <2>5, SeqEqual
<1>6. Len(Listed) < MaxRoots
  BY <1>1, ListedIs
<1> QED
  BY <1>5, <1>6 DEF Registry!Add, Listed

LEMMA RemoveRefines ==
    ASSUME IInv, IInv', NEW a \in Addrs, hl_remove_root(a)
    PROVE  Registry!Remove(a)
<1> DEFINE n == gc_roots_count
<1>1. PICK found \in Found(a) :
        /\ gc_roots_count' = n - 1
        /\ gc_roots' = [gc_roots EXCEPT ![found] = gc_roots[n - 1]]
        /\ gc_root_owners' = [gc_root_owners EXCEPT ![found] = gc_root_owners[n - 1]]
  BY DEF hl_remove_root
<1>2. /\ found \in Used /\ gc_roots[found] = a
      /\ \A j \in Used : gc_roots[j] = a => j <= found
  BY FoundIs
<1>3. n \in Nat /\ n <= gc_roots_max /\ gc_roots_max \in Nat /\ found \in 0 .. n - 1
  BY <1>2 DEF IInv, TypeInv, Used
<1>4. /\ gc_roots \in [0 .. gc_roots_max - 1 -> Addrs]
      /\ gc_root_owners \in [0 .. gc_roots_max - 1 -> Owners]
  BY DEF IInv, TypeInv, Slots
<1>5. DOMAIN Listed = 1 .. n /\ Len(Listed) = n
  BY ListedIs
<1>6. \A i \in 1 .. n : Listed[i] = [root |-> gc_roots[i - 1], owner |-> gc_root_owners[i - 1]]
  BY DEF Listed
<1>7. \A i \in 1 .. n : Listed[i].root = a <=> gc_roots[i - 1] = a
  <2> SUFFICES ASSUME NEW i \in 1 .. n PROVE Listed[i].root = a <=> gc_roots[i - 1] = a
    OBVIOUS
  <2>1. PICK r : r = gc_roots[i - 1]
    OBVIOUS
  <2>2. PICK w : w = gc_root_owners[i - 1]
    OBVIOUS
  <2>3. Listed[i] = [root |-> r, owner |-> w]
    BY <2>1, <2>2, <1>6
  <2>4. Listed[i].root = r
    BY <2>3
  <2> QED
    BY <2>1, <2>4
<1>8. found + 1 \in 1 .. n /\ Listed[found + 1].root = a
  BY <1>2, <1>3, <1>7
<1>9. ASSUME NEW j \in 1 .. n, Listed[j].root = a PROVE j <= found + 1
  <2>1. j - 1 \in Used /\ gc_roots[j - 1] = a
    BY <1>3, <1>7, <1>9 DEF Used
  <2> QED
    BY <2>1, <1>2, <1>3
<1>10. Listed' = [j \in 1 .. n - 1 |-> IF j = found + 1 THEN Listed[n] ELSE Listed[j]]
  <2>1. Listed' = [j \in 1 .. n - 1 |-> [root |-> gc_roots'[j - 1], owner |-> gc_root_owners'[j - 1]]]
    BY <1>1 DEF Listed
  <2>2. ASSUME NEW j \in 1 .. n - 1
        PROVE  [root |-> gc_roots'[j - 1], owner |-> gc_root_owners'[j - 1]]
                 = IF j = found + 1 THEN Listed[n] ELSE Listed[j]
    <3>1. j - 1 \in 0 .. gc_roots_max - 1 /\ found \in 0 .. gc_roots_max - 1 /\ n \in 1 .. n /\ j \in 1 .. n
      BY <1>3
    <3>2. CASE j = found + 1
      <4>1. j - 1 = found
        BY <3>2, <1>3
      <4> QED
        BY <3>1, <3>2, <4>1, <1>1, <1>4, <1>6
    <3>3. CASE j # found + 1
      <4>1. j - 1 # found
        BY <3>3, <1>3
      <4> QED
        BY <3>1, <3>3, <4>1, <1>1, <1>4, <1>6
    <3> QED
      BY <3>2, <3>3
  <2> QED
    BY <2>1, <2>2
<1>11. \E i \in {k \in DOMAIN Listed : Listed[k].root = a} :
          /\ \A j \in {k \in DOMAIN Listed : Listed[k].root = a} : j <= i
          /\ Listed' = [j \in 1 .. Len(Listed) - 1 |-> IF j = i THEN Listed[Len(Listed)] ELSE Listed[j]]
  BY <1>5, <1>8, <1>9, <1>10
<1> QED
  BY <1>11 DEF Registry!Remove, Registry!Positions, Listed

\* The hashed table implements the list of registrations that a linear scan kept
\* (RootList), for every address set, hash function and table size: a removal
\* takes the latest of duplicate registrations, its owner with it, and the last
\* registration fills the hole.
THEOREM Implementation == RootsSpec => SameAsScan
<1>1. RootsInit => Registry!Init
  BY DEF RootsInit, Registry!Init
<1>2. IInv /\ IInv' /\ [RootsNext]_roots_vars => [Registry!Next]_Listed
  <2> SUFFICES ASSUME IInv, IInv', [RootsNext]_roots_vars PROVE [Registry!Next]_Listed
    OBVIOUS
  <2>1. ASSUME NEW a \in Addrs, hl_remove_root(a) PROVE Registry!Next
    BY <2>1, RemoveRefines DEF Registry!Next
  <2>2. ASSUME NEW a \in Addrs, NEW w \in Owners, hl_add_root_owner(a, w) PROVE Registry!Next
    BY <2>2, AddRefines DEF Registry!Next
  <2>3. CASE UNCHANGED roots_vars
    BY <2>3 DEF roots_vars, Listed
  <2> QED
    BY <2>1, <2>2, <2>3 DEF RootsNext
<1> QED
  BY <1>1, <1>2, Invariance, PTL DEF RootsSpec, SameAsScan, Registry!Spec, Listed
=============================================================================
