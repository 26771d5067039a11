-------------------------- MODULE GcFreeListProofs --------------------------
(***************************************************************************)
(* The free list of a page, for pages and requests of any length: what it  *)
(* offers is never in use, the sweep makes available exactly what was      *)
(* available or is dead, and a block is found from any address inside it.  *)
(***************************************************************************)
EXTENDS GcFreeList, TLAPS, SequenceTheorems

\* Runs of fl from index `from` on: in the page, in order.
Sorted(fl, from) ==
    /\ \A k \in from .. Len(fl) : End(fl[k]) <= MaxBlocks
    /\ \A j, k \in from .. Len(fl) : j < k => End(fl[j]) <= fl[k].pos

\* On a page of a variable partition no run, empty ones included, has a part of
\* the block of n block numbers at s or lies inside it.
Apart(fl, from, s, n) ==
    \A k \in from .. Len(fl) : End(fl[k]) <= s \/ s + n <= fl[k].pos

\* On a page of a fixed partition no run is empty.
Filled(fl, from) == \A k \in from .. Len(fl) : fl[k].count > 0

RunInv ==
    /\ Sorted(runs, current)
    /\ ~var => Filled(runs, current)

\* Blocks of a variable partition lie in the page, apart from each other and from
\* the runs. Only they have mark bits.
BlockInv == var =>
    /\ \A s \in Bids : sizes[s] # 0 =>
          /\ s + sizes[s] <= MaxBlocks
          /\ \A t \in Bids : s < t /\ sizes[t] # 0 => s + sizes[s] <= t
          /\ Apart(runs, current, s, sizes[s])
    /\ \A s \in bmp : sizes[s] # 0

\* What the program holds. Its blocks are marked when a sweep is due.
UseInv ==
    /\ var => \A b \in Bids : use[b] # 0 => use[b] = sizes[b] /\ b \in bmp
    /\ ~var => \A b \in Bids :
          /\ use[b] # 0 => use[b] = 1
          /\ use[b] # 0 /\ need_flush => b \in bmp
          /\ use[b] # 0 => b \notin Covered(runs, current)

\* The loop of the sweep at block bid: it stands at no place inside a block or a
\* run; the list it has built ends before bid, and is apart from the blocks left.
LoopInv == sweeping =>
    /\ need_flush
    /\ reuse >= current
    /\ \A k \in current .. reuse - 1 : End(runs[k]) <= bid
    /\ \A k \in reuse .. Len(runs) : bid <= runs[k].pos
    /\ \A k \in 1 .. Len(new_fl) : End(new_fl[k]) <= bid
    /\ Sorted(new_fl, 1)
    /\ ~var => Filled(new_fl, 1)
    /\ var => \A s \in Bids : sizes[s] # 0 =>
          /\ s < bid => s + sizes[s] <= bid /\ s \in bmp
          /\ Apart(new_fl, 1, s, sizes[s])

IInv == PageTypeOK /\ RunInv /\ BlockInv /\ UseInv /\ LoopInv /\ SweepExact
-----------------------------------------------------------------------------
(* Lists of runs *)

LEMMA RunType == ASSUME NEW fl \in Seq(Runs), NEW k \in 1 .. Len(fl)
                 PROVE  /\ fl[k] \in Runs /\ fl[k].pos \in Nat /\ fl[k].count \in Nat
                        /\ fl[k].pos >= FirstBlock /\ End(fl[k]) = fl[k].pos + fl[k].count
                        /\ End(fl[k]) \in Nat
<1>1. fl[k] \in Runs
  BY ElementOfSeq
<1> QED
  BY <1>1, PageAssumption DEF Runs, End

LEMMA InCells == ASSUME NEW b \in Int, NEW n \in Int, NEW c
                 PROVE  c \in Cells(b, n) <=> c \in Int /\ b <= c /\ c < b + n
BY DEF Cells

LEMMA InCovered ==
    ASSUME NEW fl \in Seq(Runs), NEW from \in Nat \ {0}, NEW c
    PROVE  c \in Covered(fl, from) <=>
             c \in Int /\ \E k \in from .. Len(fl) : fl[k].pos <= c /\ c < End(fl[k])
<1>1. Len(fl) \in Nat
  BY LenProperties
<1>2. \A k \in from .. Len(fl) : fl[k].pos \in Nat /\ fl[k].count \in Nat /\ End(fl[k]) = fl[k].pos + fl[k].count
  BY <1>1, RunType
<1>3. \A k \in from .. Len(fl) :
        c \in Cells(fl[k].pos, fl[k].count) <=> c \in Int /\ fl[k].pos <= c /\ c < End(fl[k])
  BY <1>2 DEF Cells
<1>4. c \in Covered(fl, from) <=> \E k \in from .. Len(fl) : c \in Cells(fl[k].pos, fl[k].count)
  BY DEF Covered
<1> QED
  BY <1>3, <1>4, Zenon

\* The updates of one run.
LEMMA RunUpdate ==
    ASSUME NEW r \in Runs, NEW n \in Int
    PROVE  /\ [r EXCEPT !.count = @ + n] = [pos |-> r.pos, count |-> r.count + n]
           /\ r.pos + r.count + n <= MaxBlocks /\ n >= 0 =>
                [pos |-> r.pos, count |-> r.count + n] \in Runs
           /\ 0 <= n /\ n <= r.count /\ End(r) <= MaxBlocks =>
                [pos |-> r.pos + n, count |-> r.count - n] \in Runs
<1>1. r \in [pos : Nat, count : Nat]
  BY PageAssumption DEF Runs
<1>2. [r EXCEPT !.count = r.count + n] = [pos |-> r.pos, count |-> r.count + n]
  BY <1>1
<1>3. ASSUME r.pos + r.count + n <= MaxBlocks, n >= 0
      PROVE  [pos |-> r.pos, count |-> r.count + n] \in Runs
  BY <1>3, PageAssumption DEF Runs
<1>4. ASSUME 0 <= n, n <= r.count, End(r) <= MaxBlocks
      PROVE  [pos |-> r.pos + n, count |-> r.count - n] \in Runs
  BY <1>4, PageAssumption DEF Runs, End
<1> QED
  BY <1>2, <1>3, <1>4

\* The two things AddRun does.
LEMMA AddRunCases ==
    ASSUME NEW fl \in Seq(Runs), NEW p \in FirstBlock .. MaxBlocks, NEW n \in Nat, p + n <= MaxBlocks
    PROVE  LET g == AddRun(fl, p, n) l == Len(fl) IN
           /\ g \in Seq(Runs)
           /\ \/ /\ l > 0 /\ End(fl[l]) = p /\ Len(g) = l
                 /\ \A k \in 1 .. l - 1 : g[k] = fl[k]
                 /\ g[l].pos = fl[l].pos /\ End(g[l]) = p + n /\ g[l].count = fl[l].count + n
              \/ /\ Len(g) = l + 1
                 /\ \A k \in 1 .. l : g[k] = fl[k]
                 /\ g[l + 1].pos = p /\ g[l + 1].count = n /\ End(g[l + 1]) = p + n
<1> DEFINE l == Len(fl)
           g == AddRun(fl, p, n)
           r == [pos |-> p, count |-> n]
<1>1. l \in Nat
  BY LenProperties
<1>2. r \in Runs
  BY PageAssumption DEF Runs
<1>3. CASE fl # <<>> /\ End(fl[l]) = p
  <2>1. l > 0 /\ l \in 1 .. l
    BY <1>1, <1>3, EmptySeq
  <2>2. /\ fl[l] \in Runs /\ fl[l].pos \in Nat /\ fl[l].count \in Nat
        /\ fl[l].pos >= FirstBlock /\ End(fl[l]) = fl[l].pos + fl[l].count
    BY <2>1, RunType
  <2> DEFINE q == [pos |-> fl[l].pos, count |-> fl[l].count + n]
  <2>3. q \in Runs /\ q.pos = fl[l].pos /\ q.count = fl[l].count + n /\ End(q) = p + n
    <3>1. q \in Runs
      <4>1. fl[l].pos + fl[l].count + n <= MaxBlocks /\ n >= 0 /\ n \in Int
        BY <1>3, <2>2
      <4> QED
        BY <2>2, <4>1, RunUpdate, Zenon
    <3>2. End(q) = fl[l].pos + (fl[l].count + n)
      BY DEF End
    <3> QED
      BY <1>3, <2>2, <3>1, <3>2
  <2>4. g = [fl EXCEPT ![l] = q]
    <3>1. g = [fl EXCEPT ![l] = [fl[l] EXCEPT !.count = @ + n]]
      BY <1>3 DEF AddRun
    <3>2. n \in Int
      OBVIOUS
    <3> QED
      BY <2>2, <3>1, <3>2, RunUpdate, Zenon
  <2>5. g \in Seq(Runs) /\ Len(g) = l /\ g[l] = q /\ \A k \in 1 .. l - 1 : g[k] = fl[k]
    BY <1>1, <2>1, <2>3, <2>4, ExceptSeq
  <2> QED
    BY <1>3, <2>1, <2>3, <2>5
<1>4. CASE ~(fl # <<>> /\ End(fl[l]) = p)
  <2>1. g = Append(fl, r)
    BY <1>4 DEF AddRun
  <2>2. g \in Seq(Runs) /\ Len(g) = l + 1 /\ g[l + 1] = r /\ \A k \in 1 .. l : g[k] = fl[k]
    BY <1>2, <2>1, AppendProperties
  <2> QED
    BY <2>2 DEF End
<1> QED
  BY <1>3, <1>4
\* What a list of runs that ends before p becomes by n more blocks from p on.
LEMMA AddRunList ==
    ASSUME NEW fl \in Seq(Runs), NEW p \in FirstBlock .. MaxBlocks, NEW n \in Nat, p + n <= MaxBlocks,
           \A k \in 1 .. Len(fl) : End(fl[k]) <= p, Sorted(fl, 1)
    PROVE  LET g == AddRun(fl, p, n) IN
           /\ g \in Seq(Runs) /\ Len(g) \in Nat /\ Len(g) > 0
           /\ End(g[Len(g)]) = p + n
           /\ \A k \in 1 .. Len(g) : End(g[k]) <= p + n
           /\ Sorted(g, 1)
<1> DEFINE l == Len(fl)
           g == AddRun(fl, p, n)
<1>1. l \in Nat /\ p \in Nat /\ MaxBlocks \in Nat
  BY LenProperties, PageAssumption
<1>2. /\ g \in Seq(Runs)
      /\ \/ /\ l > 0 /\ End(fl[l]) = p /\ Len(g) = l
            /\ \A k \in 1 .. l - 1 : g[k] = fl[k]
            /\ g[l].pos = fl[l].pos /\ End(g[l]) = p + n
         \/ /\ Len(g) = l + 1
            /\ \A k \in 1 .. l : g[k] = fl[k]
            /\ g[l + 1].pos = p /\ End(g[l + 1]) = p + n
  BY AddRunCases
<1>3. \A k \in 1 .. l : End(fl[k]) \in Nat /\ fl[k].pos \in Nat /\ fl[k].pos <= End(fl[k])
  BY RunType
<1> HIDE DEF g
<1>4. Len(g) \in Nat /\ Len(g) > 0 /\ End(g[Len(g)]) = p + n
  BY <1>1, <1>2
<1>5. \A k \in 1 .. Len(g) : k < Len(g) => k \in 1 .. l /\ g[k] = fl[k]
  BY <1>1, <1>2
<1>6. \A k \in 1 .. Len(g) : End(g[k]) <= p + n
  BY <1>1, <1>3, <1>4, <1>5
<1>7. \A j, k \in 1 .. Len(g) : j < k => End(g[j]) <= g[k].pos
  <2> SUFFICES ASSUME NEW j \in 1 .. Len(g), NEW k \in 1 .. Len(g), j < k
               PROVE  End(g[j]) <= g[k].pos
    OBVIOUS
  <2>1. j \in 1 .. l /\ g[j] = fl[j]
    BY <1>4, <1>5
  <2>2. CASE k < Len(g)
    BY <1>5, <2>1, <2>2 DEF Sorted
  <2>3. CASE k = Len(g)
    <3>1. CASE Len(g) = l /\ g[l].pos = fl[l].pos
      BY <1>1, <2>1, <2>3, <3>1 DEF Sorted
    <3>2. CASE Len(g) = l + 1 /\ g[l + 1].pos = p
      BY <2>1, <2>3, <3>2
    <3> QED
      BY <1>2, <3>1, <3>2
  <2> QED
    BY <1>4, <2>2, <2>3
<1>8. \A k \in 1 .. Len(g) : End(g[k]) <= MaxBlocks
  <2>1. \A k \in 1 .. Len(g) : End(g[k]) \in Nat
    BY <1>2, RunType
  <2> QED
    BY <1>1, <1>6, <2>1
<1>9. Sorted(g, 1)
  BY <1>7, <1>8 DEF Sorted
<1> QED
  BY <1>2, <1>4, <1>6, <1>9 DEF g

\* The memory it offers.
LEMMA AddRunCovers ==
    ASSUME NEW fl \in Seq(Runs), NEW p \in FirstBlock .. MaxBlocks, NEW n \in Nat, p + n <= MaxBlocks
    PROVE  \A c : c \in Covered(AddRun(fl, p, n), 1) <=> c \in Covered(fl, 1) \/ c \in p .. p + n - 1
<1> DEFINE l == Len(fl)
           g == AddRun(fl, p, n)
<1> SUFFICES ASSUME NEW c PROVE c \in Covered(g, 1) <=> c \in Covered(fl, 1) \/ c \in p .. p + n - 1
  OBVIOUS
<1>1. l \in Nat /\ p \in Nat
  BY LenProperties, PageAssumption
<1>2. /\ g \in Seq(Runs)
      /\ \/ /\ l > 0 /\ End(fl[l]) = p /\ Len(g) = l
            /\ \A k \in 1 .. l - 1 : g[k] = fl[k]
            /\ g[l].pos = fl[l].pos /\ End(g[l]) = p + n
         \/ /\ Len(g) = l + 1
            /\ \A k \in 1 .. l : g[k] = fl[k]
            /\ g[l + 1].pos = p /\ End(g[l + 1]) = p + n
  BY AddRunCases
<1>3. \A k \in 1 .. l : End(fl[k]) \in Nat /\ fl[k].pos \in Nat /\ fl[k].pos <= End(fl[k])
  BY RunType
<1> HIDE DEF g
<1>4. c \in Covered(g, 1) <=> c \in Int /\ \E k \in 1 .. Len(g) : g[k].pos <= c /\ c < End(g[k])
  BY <1>2, InCovered
<1>5. c \in Covered(fl, 1) <=> c \in Int /\ \E k \in 1 .. l : fl[k].pos <= c /\ c < End(fl[k])
  BY InCovered
<1>6. c \in p .. p + n - 1 <=> c \in Int /\ p <= c /\ c < p + n
  BY <1>1
<1>7. CASE c \notin Int
  BY <1>4, <1>5, <1>6, <1>7
<1>8. CASE c \in Int /\ l > 0 /\ End(fl[l]) = p /\ Len(g) = l
              /\ (\A k \in 1 .. l - 1 : g[k] = fl[k]) /\ g[l].pos = fl[l].pos /\ End(g[l]) = p + n
  <2>1. l \in 1 .. l /\ \A k \in 1 .. l : k = l \/ (k \in 1 .. l - 1 /\ g[k] = fl[k])
    BY <1>1, <1>8
  <2>2. (\E k \in 1 .. l : g[k].pos <= c /\ c < End(g[k])) =>
          (\E k \in 1 .. l : fl[k].pos <= c /\ c < End(fl[k])) \/ (p <= c /\ c < p + n)
    <3> SUFFICES ASSUME NEW k \in 1 .. l, g[k].pos <= c, c < End(g[k])
                 PROVE  (\E i \in 1 .. l : fl[i].pos <= c /\ c < End(fl[i])) \/ (p <= c /\ c < p + n)
      OBVIOUS
    <3>1. CASE k # l
      BY <2>1, <3>1
    <3>2. CASE k = l
      <4>1. fl[l].pos <= c /\ c < p + n
        BY <1>8, <3>2
      <4>2. c < p \/ p <= c
        BY <1>1, <1>8
      <4> QED
        BY <1>8, <2>1, <4>1, <4>2
    <3> QED
      BY <3>1, <3>2
  <2>3. (\E k \in 1 .. l : fl[k].pos <= c /\ c < End(fl[k])) \/ (p <= c /\ c < p + n) =>
          \E k \in 1 .. l : g[k].pos <= c /\ c < End(g[k])
    <3>1. ASSUME NEW i \in 1 .. l - 1, fl[i].pos <= c, c < End(fl[i])
          PROVE  \E k \in 1 .. l : g[k].pos <= c /\ c < End(g[k])
      <4>1. i \in 1 .. l /\ g[i] = fl[i]
        BY <1>1, <1>8
      <4> QED
        BY <3>1, <4>1
    <3>2. ASSUME (fl[l].pos <= c /\ c < End(fl[l])) \/ (p <= c /\ c < p + n)
          PROVE  g[l].pos <= c /\ c < End(g[l])
      BY <1>1, <1>3, <1>8, <2>1, <3>2
    <3> QED
      BY <2>1, <3>1, <3>2
  <2> QED
    BY <1>4, <1>5, <1>6, <1>8, <2>2, <2>3
<1>9. CASE c \in Int /\ Len(g) = l + 1 /\ (\A k \in 1 .. l : g[k] = fl[k])
              /\ g[l + 1].pos = p /\ End(g[l + 1]) = p + n
  <2>1. l + 1 \in 1 .. l + 1 /\ \A k \in 1 .. l + 1 : k = l + 1 \/ (k \in 1 .. l /\ g[k] = fl[k])
    BY <1>1, <1>9
  <2>2. 1 .. l \subseteq 1 .. l + 1
    BY <1>1
  <2>3. (\E k \in 1 .. l + 1 : g[k].pos <= c /\ c < End(g[k])) <=>
          (\E k \in 1 .. l : fl[k].pos <= c /\ c < End(fl[k])) \/ (p <= c /\ c < p + n)
    <3>1. ASSUME NEW k \in 1 .. l + 1, g[k].pos <= c, c < End(g[k])
          PROVE  (\E i \in 1 .. l : fl[i].pos <= c /\ c < End(fl[i])) \/ (p <= c /\ c < p + n)
      BY <1>9, <2>1, <3>1
    <3>2. ASSUME NEW i \in 1 .. l, fl[i].pos <= c, c < End(fl[i])
          PROVE  \E k \in 1 .. l + 1 : g[k].pos <= c /\ c < End(g[k])
      BY <1>9, <2>2, <3>2
    <3>3. ASSUME p <= c, c < p + n
          PROVE  \E k \in 1 .. l + 1 : g[k].pos <= c /\ c < End(g[k])
      BY <1>9, <2>1, <3>3
    <3> QED
      BY <3>1, <3>2, <3>3, Zenon
  <2> QED
    BY <1>4, <1>5, <1>6, <1>9, <2>3
<1> QED
  BY <1>2, <1>7, <1>8, <1>9

\* It stays apart from a block that the new blocks are apart from.
LEMMA AddRunApart ==
    ASSUME NEW fl \in Seq(Runs), NEW p \in FirstBlock .. MaxBlocks, NEW n \in Nat, p + n <= MaxBlocks,
           NEW s \in Nat, NEW m \in Nat \ {0}, Apart(fl, 1, s, m), p + n <= s \/ s + m <= p
    PROVE  Apart(AddRun(fl, p, n), 1, s, m)
<1> DEFINE l == Len(fl)
           g == AddRun(fl, p, n)
<1>1. l \in Nat /\ p \in Nat
  BY LenProperties, PageAssumption
<1>2. \/ /\ l > 0 /\ End(fl[l]) = p /\ Len(g) = l
         /\ \A k \in 1 .. l - 1 : g[k] = fl[k]
         /\ g[l].pos = fl[l].pos /\ End(g[l]) = p + n
      \/ /\ Len(g) = l + 1
         /\ \A k \in 1 .. l : g[k] = fl[k]
         /\ g[l + 1].pos = p /\ End(g[l + 1]) = p + n
  BY AddRunCases
<1>3. \A k \in 1 .. l : End(fl[k]) \in Nat /\ fl[k].pos \in Nat
  BY RunType
<1>4. \A k \in 1 .. l : End(fl[k]) <= s \/ s + m <= fl[k].pos
  BY DEF Apart
<1> HIDE DEF g
<1> SUFFICES ASSUME NEW k \in 1 .. Len(g) PROVE End(g[k]) <= s \/ s + m <= g[k].pos
  BY DEF Apart, g
<1>5. CASE k \in 1 .. l /\ g[k] = fl[k]
  BY <1>4, <1>5
<1>6. CASE k = l /\ l > 0 /\ End(fl[l]) = p /\ g[l].pos = fl[l].pos /\ End(g[l]) = p + n
  BY <1>1, <1>3, <1>4, <1>6
<1>7. CASE k = l + 1 /\ g[l + 1].pos = p /\ End(g[l + 1]) = p + n
  BY <1>7
<1> QED
  BY <1>1, <1>2, <1>5, <1>6, <1>7

LEMMA AddRunFilled ==
    ASSUME NEW fl \in Seq(Runs), NEW p \in FirstBlock .. MaxBlocks, NEW n \in Nat \ {0}, p + n <= MaxBlocks,
           Filled(fl, 1)
    PROVE  Filled(AddRun(fl, p, n), 1)
<1> DEFINE l == Len(fl)
           g == AddRun(fl, p, n)
<1>1. l \in Nat
  BY LenProperties
<1>2. \/ /\ l > 0 /\ Len(g) = l
         /\ \A k \in 1 .. l - 1 : g[k] = fl[k]
         /\ g[l].count = fl[l].count + n
      \/ /\ Len(g) = l + 1
         /\ \A k \in 1 .. l : g[k] = fl[k]
         /\ g[l + 1].count = n
  BY AddRunCases
<1>3. \A k \in 1 .. l : fl[k].count \in Nat /\ fl[k].count > 0
  BY RunType DEF Filled
<1> HIDE DEF g
<1> SUFFICES ASSUME NEW k \in 1 .. Len(g) PROVE g[k].count > 0
  BY DEF Filled, g
<1>4. CASE k \in 1 .. l /\ g[k] = fl[k]
  BY <1>3, <1>4
<1>5. CASE k = l /\ l > 0 /\ g[l].count = fl[l].count + n
  BY <1>1, <1>3, <1>5
<1>6. CASE k = l + 1 /\ g[l + 1].count = n
  BY <1>6
<1> QED
  BY <1>1, <1>2, <1>4, <1>5, <1>6
-----------------------------------------------------------------------------
(* The steps *)

\* What the steps use of the types.
Numbers ==
    /\ FirstBlock \in Nat /\ MaxBlocks \in Nat /\ FirstBlock < MaxBlocks
    /\ bid \in Nat /\ FirstBlock <= bid /\ bid <= MaxBlocks
    /\ current \in Nat \ {0} /\ reuse \in Nat \ {0}
    /\ current <= Len(runs) + 1 /\ reuse <= Len(runs) + 1
    /\ Len(runs) \in Nat /\ Len(new_fl) \in Nat
    /\ \A k \in 1 .. Len(runs) : /\ runs[k].pos \in Nat /\ runs[k].count \in Nat /\ End(runs[k]) \in Nat
                                 /\ FirstBlock <= runs[k].pos /\ runs[k].pos <= End(runs[k])
                                 /\ End(runs[k]) = runs[k].pos + runs[k].count
    /\ \A b \in Bids : sizes[b] \in Nat /\ use[b] \in Nat
    /\ \A b : b \in Bids <=> b \in Nat /\ FirstBlock <= b /\ b < MaxBlocks

LEMMA TypeNumbers == ASSUME PageTypeOK PROVE Numbers
<1>1. Len(runs) \in Nat /\ Len(new_fl) \in Nat
  BY LenProperties DEF PageTypeOK
<1>2. \A k \in 1 .. Len(runs) : /\ runs[k].pos \in Nat /\ runs[k].count \in Nat /\ End(runs[k]) \in Nat
                               /\ FirstBlock <= runs[k].pos /\ runs[k].pos <= End(runs[k])
                               /\ End(runs[k]) = runs[k].pos + runs[k].count
  BY RunType DEF PageTypeOK
<1>3. \A b \in Bids : sizes[b] \in Nat /\ use[b] \in Nat
  BY PageAssumption DEF PageTypeOK
<1>4. \A b : b \in Bids <=> b \in Nat /\ FirstBlock <= b /\ b < MaxBlocks
  BY PageAssumption DEF Bids
<1>5. /\ bid \in Nat /\ FirstBlock <= bid /\ bid <= MaxBlocks
      /\ current \in Nat \ {0} /\ reuse \in Nat \ {0}
      /\ current <= Len(runs) + 1 /\ reuse <= Len(runs) + 1
  BY <1>1, PageAssumption DEF PageTypeOK
<1> QED
  BY <1>1, <1>2, <1>3, <1>4, <1>5, PageAssumption DEF Numbers

LEMMA CoveredRuns ==
    ASSUME PageTypeOK, NEW c
    PROVE  c \in Covered(runs, current) <=>
             c \in Int /\ \E k \in current .. Len(runs) : runs[k].pos <= c /\ c < End(runs[k])
<1>1. current \in Nat \ {0}
  BY TypeNumbers DEF Numbers
<1> QED
  BY <1>1, InCovered DEF PageTypeOK

LEMMA InitInv == ASSUME PageInit PROVE IInv
<1> DEFINE r == [pos |-> FirstBlock, count |-> MaxBlocks - FirstBlock]
<1>1. r \in Runs /\ r.pos = FirstBlock /\ r.count > 0 /\ End(r) = MaxBlocks
  BY PageAssumption DEF Runs, End
<1>2. runs = <<r>> /\ Len(runs) = 1 /\ runs[1] = r /\ runs \in Seq(Runs)
  BY <1>1 DEF PageInit
<1>3. <<>> \in Seq(Runs) /\ new_fl = <<>>
  BY DEF PageInit
<1>4. bid \in FirstBlock .. MaxBlocks /\ current \in 1 .. Len(runs) + 1 /\ reuse \in 1 .. Len(runs) + 1
  BY <1>2, PageAssumption DEF PageInit
<1>5. PageTypeOK
  <2>1. [b \in Bids |-> 0] \in [Bids -> 0 .. MaxRequest]
    BY PageAssumption
  <2>2. /\ var \in BOOLEAN /\ finalizer \in BOOLEAN /\ need_flush \in BOOLEAN /\ sweeping \in BOOLEAN /\ bmp \subseteq Bids
        /\ sizes = [b \in Bids |-> 0] /\ use = [b \in Bids |-> 0]
    BY DEF PageInit
  <2> QED
    BY <1>2, <1>3, <1>4, <2>1, <2>2, Zenon DEF PageTypeOK
<1>6. RunInv
  BY <1>1, <1>2, PageAssumption DEF PageInit, RunInv, Sorted, Filled
<1>7. BlockInv /\ UseInv /\ LoopInv /\ SweepExact
  BY DEF PageInit, BlockInv, UseInv, LoopInv, SweepExact
<1> QED
  BY <1>5, <1>6, <1>7 DEF IInv

LEMMA FlushInv == ASSUME IInv, flush_free_list PROVE IInv'
<1>1. Numbers /\ PageTypeOK
  BY TypeNumbers DEF IInv
<1>2. /\ sweeping' = TRUE /\ need_flush' = need_flush /\ need_flush
      /\ bid' = FirstBlock /\ new_fl' = <<>> /\ reuse' = current
      /\ var' = var /\ finalizer' = finalizer /\ sizes' = sizes /\ runs' = runs /\ current' = current /\ bmp' = bmp /\ use' = use
  BY DEF flush_free_list, page, kind
<1>3. Len(<<>>) = 0 /\ <<>> \in Seq(Runs)
  OBVIOUS
<1>4. FirstBlock \in FirstBlock .. MaxBlocks
  BY PageAssumption
<1>5. PageTypeOK'
  BY <1>1, <1>2, <1>3, <1>4 DEF PageTypeOK, Bids
<1>6. RunInv' /\ BlockInv'
  BY <1>2 DEF IInv, RunInv, BlockInv, Sorted, Filled, Apart, Bids, End
<1>7. UseInv'
  BY <1>2 DEF IInv, UseInv, Covered, Cells, Bids
<1>8. LoopInv'
  <2>1. \A k \in 1 .. 0 : FALSE
    OBVIOUS
  <2>2. \A k \in current .. current - 1 : FALSE
    BY <1>1 DEF Numbers
  <2>3. \A k \in current .. Len(runs) : FirstBlock <= runs[k].pos
    BY <1>1 DEF Numbers
  <2>4. \A s \in Bids : ~(s < FirstBlock)
    BY <1>1 DEF Numbers
  <2>5. current >= current
    BY <1>1 DEF Numbers
  <2> QED
    BY <1>2, <1>3, <2>1, <2>2, <2>3, <2>4, <2>5 DEF LoopInv, Sorted, Filled, Apart, Bids, End
<1>9. SweepExact'
  <2>1. ASSUME NEW c \in Covered(runs, current) \cup Dead PROVE ~(c < FirstBlock)
    <3>1. CASE c \in Covered(runs, current)
      <4>1. PICK k \in current .. Len(runs) : runs[k].pos <= c /\ c \in Int
        BY <1>1, <3>1, CoveredRuns
      <4> QED
        BY <1>1, <4>1 DEF Numbers
    <3>2. CASE c \in Dead
      BY <1>1, <3>2 DEF Numbers, Dead
    <3> QED
      BY <2>1, <3>1, <3>2
  <2>2. Covered(<<>>, 1) = {}
    BY DEF Covered
  <2>3. Covered(runs, current)' = Covered(runs, current) /\ Dead' = Dead /\ Covered(new_fl, 1)' = Covered(<<>>, 1)
    BY <1>2 DEF Covered, Cells, Dead, Bids
  <2> QED
    BY <1>2, <2>1, <2>2, <2>3 DEF SweepExact
<1> QED
  BY <1>5, <1>6, <1>7, <1>8, <1>9 DEF IInv
\* A step of the loop that leaves the page alone or clears sizes of blocks that
\* are not marked keeps what is said of the page.
LEMMA PageKept ==
    ASSUME IInv,
           /\ need_flush' = need_flush /\ var' = var
           /\ runs' = runs /\ current' = current /\ bmp' = bmp /\ use' = use,
           var => \A s \in Bids : sizes'[s] # sizes[s] => sizes'[s] = 0 /\ s \notin bmp
    PROVE  /\ RunInv' /\ BlockInv' /\ UseInv'
           /\ Dead' = Dead /\ Covered(runs, current)' = Covered(runs, current)
<1>1. \A s \in Bids : var /\ sizes'[s] # 0 => sizes'[s] = sizes[s]
  BY Zenon
<1>2. bmp \subseteq Bids /\ \A s \in bmp : var => sizes'[s] = sizes[s]
  BY DEF IInv, PageTypeOK
<1>3. RunInv'
  BY DEF IInv, RunInv, Sorted, Filled, End
<1>4. BlockInv'
  BY <1>1, <1>2 DEF IInv, BlockInv, Apart, End, Bids
<1>5. Covered(runs, current)' = Covered(runs, current)
  BY DEF Covered, Cells
<1>6. UseInv'
  BY <1>2, <1>5 DEF IInv, UseInv, Bids
<1>7. Dead' = Dead
  <2>1. \A s \in bmp : (IF var THEN sizes[s] ELSE 1)' = (IF var THEN sizes[s] ELSE 1)
    BY <1>2
  <2> QED
    BY <2>1 DEF Dead, Bids, Cells
<1> QED
  BY <1>3, <1>4, <1>5, <1>6, <1>7

LEMMA SweepReuseInv == ASSUME IInv, SweepReuse PROVE IInv'
<1> DEFINE n == runs[reuse].count
<1>1. Numbers /\ PageTypeOK /\ LoopInv /\ sweeping
  BY TypeNumbers DEF IInv, SweepReuse
<1>2. /\ need_flush' = need_flush /\ sizes' = sizes /\ var' = var /\ finalizer' = finalizer /\ sweeping' = sweeping
      /\ runs' = runs /\ current' = current /\ bmp' = bmp /\ use' = use /\ reuse' = reuse + 1
      /\ new_fl' = AddRun(new_fl, bid, n)
  BY DEF SweepReuse, page, kind
<1>3. /\ bid < MaxBlocks /\ reuse <= Len(runs) /\ runs[reuse].pos = bid
      /\ reuse \in current .. Len(runs) /\ reuse \in 1 .. Len(runs)
  BY <1>1 DEF SweepReuse, AtReuse, LoopInv, Numbers
<1>4. n \in Nat /\ End(runs[reuse]) = bid + n /\ bid + n <= MaxBlocks
  BY <1>1, <1>3 DEF Numbers, IInv, RunInv, Sorted
<1>5. bid \in FirstBlock .. MaxBlocks /\ new_fl \in Seq(Runs)
  BY <1>1 DEF PageTypeOK
<1>6. /\ new_fl' \in Seq(Runs) /\ Len(new_fl)' \in Nat
      /\ End(new_fl'[Len(new_fl')]) = bid + n
      /\ \A k \in 1 .. Len(new_fl') : End(new_fl'[k]) <= bid + n
      /\ Sorted(new_fl', 1)
  BY <1>1, <1>2, <1>4, <1>5, AddRunList DEF LoopInv
<1>7. bid' = bid + n
  BY <1>6 DEF SweepReuse
<1>8. PageTypeOK'
  <2>1. bid' \in FirstBlock .. MaxBlocks
    BY <1>4, <1>5, <1>7, PageAssumption
  <2>a. reuse' \in 1 .. Len(runs) + 1
    BY <1>2, <1>3
  <2> QED
    BY <1>1, <1>2, <1>6, <2>1, <2>a DEF PageTypeOK, Bids
<1>9. /\ RunInv' /\ BlockInv' /\ UseInv'
      /\ Dead' = Dead /\ Covered(runs, current)' = Covered(runs, current)
  BY <1>2, PageKept
<1>a. bid \in Nat /\ current \in Nat /\ reuse \in Nat
  BY <1>1 DEF Numbers
<1>10. LoopInv'
  <2>1. \A k \in current .. reuse : End(runs[k]) <= bid + n
    <3> SUFFICES ASSUME NEW k \in current .. reuse PROVE End(runs[k]) <= bid + n
      OBVIOUS
    <3>1. CASE k = reuse
      BY <1>4, <1>a, <3>1
    <3>2. CASE k # reuse
      <4>1. k \in current .. reuse - 1 /\ k \in 1 .. Len(runs)
        BY <1>1, <3>2 DEF Numbers
      <4>2. End(runs[k]) <= bid /\ End(runs[k]) \in Nat
        BY <1>1, <4>1 DEF Numbers, LoopInv
      <4> QED
        BY <1>4, <1>a, <4>2
    <3> QED
      BY <3>1, <3>2
  <2>2. \A k \in reuse + 1 .. Len(runs) : bid + n <= runs[k].pos
    <3> SUFFICES ASSUME NEW k \in reuse + 1 .. Len(runs) PROVE bid + n <= runs[k].pos
      OBVIOUS
    <3>1. k \in current .. Len(runs) /\ reuse < k
      BY <1>1, <1>3 DEF Numbers
    <3> QED
      BY <1>3, <1>4, <3>1 DEF IInv, RunInv, Sorted
  <2>3. ~var => Filled(new_fl', 1)
    <3>1. SUFFICES ASSUME ~var PROVE Filled(new_fl', 1)
      OBVIOUS
    <3>2. n \in Nat \ {0} /\ Filled(new_fl, 1)
      BY <1>1, <1>3, <1>4, <3>1 DEF LoopInv, IInv, RunInv, Filled
    <3> QED
      BY <1>2, <1>4, <1>5, <3>2, AddRunFilled
  <2>4. ASSUME var, NEW s \in Bids, sizes[s] # 0
        PROVE  /\ s < bid + n => s + sizes[s] <= bid + n /\ s \in bmp
               /\ Apart(new_fl', 1, s, sizes[s])
    <3>1. s \in Nat /\ sizes[s] \in Nat \ {0}
      BY <1>1, <2>4 DEF Numbers
    <3>2. Apart(new_fl, 1, s, sizes[s]) /\ (s < bid => s + sizes[s] <= bid /\ s \in bmp)
      BY <1>1, <2>4 DEF LoopInv
    <3>3. bid + n <= s \/ s + sizes[s] <= bid
      BY <1>3, <1>4, <2>4 DEF IInv, BlockInv, Apart
    <3>4. Apart(new_fl', 1, s, sizes[s])
      BY <1>2, <1>4, <1>5, <3>1, <3>2, <3>3, AddRunApart
    <3> QED
      BY <1>4, <1>a, <3>1, <3>2, <3>3, <3>4
  <2>5. need_flush /\ reuse + 1 >= current /\ (reuse + 1) - 1 = reuse
    BY <1>1 DEF LoopInv, Numbers
  <2> QED
    BY <1>2, <1>6, <1>7, <2>1, <2>2, <2>3, <2>4, <2>5 DEF LoopInv, Sorted, Filled, Apart, Bids, End
<1>11. SweepExact'
  <2>1. \A c : c \in Covered(new_fl', 1) <=> c \in Covered(new_fl, 1) \/ c \in bid .. bid + n - 1
    BY <1>2, <1>4, <1>5, AddRunCovers
  <2>2. Covered(new_fl, 1) = {c \in Covered(runs, current) \cup Dead : c < bid}
    BY <1>1 DEF IInv, SweepExact
  <2>3. \A c \in bid .. bid + n - 1 : c \in Covered(runs, current)
    BY <1>1, <1>3, <1>4, <1>a, CoveredRuns
  <2>4. \A c \in Covered(runs, current) \cup Dead : c \in Int
    BY <1>1, CoveredRuns DEF Dead, Numbers
  <2>5. \A c : c \in Covered(new_fl', 1) <=> c \in Covered(runs, current) \cup Dead /\ c < bid + n
    <3> SUFFICES ASSUME NEW c
                 PROVE  c \in Covered(new_fl', 1) <=> c \in Covered(runs, current) \cup Dead /\ c < bid + n
      OBVIOUS
    <3>1. CASE c \in Int
      <4>1. c \in bid .. bid + n - 1 <=> bid <= c /\ c < bid + n
        BY <1>4, <1>a, <3>1
      <4>2. c < bid => c < bid + n
        BY <1>4, <1>a, <3>1
      <4>3. c < bid \/ bid <= c
        BY <1>a, <3>1
      <4> QED
        BY <2>1, <2>2, <2>3, <4>1, <4>2, <4>3
    <3>2. CASE c \notin Int
      BY <2>1, <2>2, <2>4, <3>2
    <3> QED
      BY <3>1, <3>2
  <2>6. Covered(new_fl, 1)' = Covered(new_fl', 1)
    BY DEF Covered, Cells
  <2> QED
    BY <1>2, <1>7, <1>9, <2>5, <2>6 DEF SweepExact
<1> QED
  BY <1>8, <1>9, <1>10, <1>11 DEF IInv
\* Where no run of the old list begins, the stretch up to the next stop has none
\* of its runs, and no block starts inside it.
LEMMA StrideFree ==
    ASSUME IInv, sweeping, bid < MaxBlocks, ~AtReuse
    PROVE  LET n == Stride(bid) IN
           /\ bid \in Bids /\ n \in Nat \ {0} /\ bid + n <= MaxBlocks
           /\ \A k \in reuse .. Len(runs) : bid + n <= runs[k].pos
           /\ \A c \in bid .. bid + n - 1 : c \notin Covered(runs, current)
           /\ var => \A s \in Bids : sizes[s] # 0 /\ bid < s => bid + n <= s
<1> DEFINE n == Stride(bid)
<1>1. Numbers /\ PageTypeOK /\ LoopInv /\ BlockInv /\ RunInv
  BY TypeNumbers DEF IInv
<1>2. bid \in Nat /\ current \in Nat \ {0} /\ reuse \in Nat /\ Len(runs) \in Nat /\ bid \in Bids /\ current <= reuse
  BY <1>1 DEF Numbers, LoopInv
<1>3. \A k \in reuse .. Len(runs) : bid < runs[k].pos /\ k \in current .. Len(runs) /\ k \in 1 .. Len(runs)
  <2> SUFFICES ASSUME NEW k \in reuse .. Len(runs)
               PROVE  bid < runs[k].pos /\ k \in current .. Len(runs) /\ k \in 1 .. Len(runs)
    OBVIOUS
  <2>1. k \in current .. Len(runs) /\ k \in 1 .. Len(runs) /\ reuse \in reuse .. Len(runs)
        /\ reuse \in current .. Len(runs) /\ reuse \in 1 .. Len(runs)
    BY <1>2
  <2>2. /\ runs[k].pos \in Nat /\ runs[reuse].pos \in Nat /\ End(runs[reuse]) \in Nat
        /\ runs[reuse].pos <= End(runs[reuse])
    BY <1>1, <2>1 DEF Numbers
  <2>3. bid <= runs[k].pos /\ bid <= runs[reuse].pos
    BY <1>1, <2>1 DEF LoopInv
  <2>4. runs[reuse].pos # bid
    BY <1>2, <2>1 DEF AtReuse
  <2>5. reuse < k => End(runs[reuse]) <= runs[k].pos
    BY <1>1, <2>1 DEF RunInv, Sorted
  <2> QED
    BY <1>2, <2>1, <2>2, <2>3, <2>4, <2>5
<1>4. /\ n \in Nat \ {0} /\ bid + n <= MaxBlocks
      /\ \A k \in reuse .. Len(runs) : bid + n <= runs[k].pos
      /\ var => \A s \in Bids : sizes[s] # 0 /\ bid < s => bid + n <= s
  <2>1. CASE var /\ sizes[bid] # 0
    <3>1. n = sizes[bid] /\ n \in Nat \ {0}
      BY <1>1, <1>2, <2>1 DEF Stride, Numbers
    <3>2. /\ bid + n <= MaxBlocks /\ Apart(runs, current, bid, n)
          /\ \A s \in Bids : sizes[s] # 0 /\ bid < s => bid + n <= s
      BY <1>1, <1>2, <2>1, <3>1 DEF BlockInv
    <3>3. ASSUME NEW k \in reuse .. Len(runs) PROVE bid + n <= runs[k].pos
      <4>1. k \in current .. Len(runs) /\ k \in 1 .. Len(runs) /\ bid < runs[k].pos
        BY <1>3
      <4>2. runs[k].pos \in Nat /\ End(runs[k]) \in Nat /\ runs[k].pos <= End(runs[k])
        BY <1>1, <4>1 DEF Numbers
      <4>3. End(runs[k]) <= bid \/ bid + n <= runs[k].pos
        BY <3>2, <4>1 DEF Apart
      <4> QED
        BY <1>2, <4>1, <4>2, <4>3
    <3> QED
      BY <3>1, <3>2, <3>3
  <2>2. CASE ~(var /\ sizes[bid] # 0)
    <3>1. n = 1
      BY <2>2 DEF Stride
    <3>2. \A k \in reuse .. Len(runs) : runs[k].pos \in Nat
      BY <1>1, <1>3 DEF Numbers
    <3>3. \A s \in Bids : s \in Nat
      BY <1>1 DEF Numbers
    <3>4. MaxBlocks \in Nat
      BY PageAssumption
    <3> HIDE DEF n
    <3> QED
      BY <1>2, <1>3, <3>1, <3>2, <3>3, <3>4
  <2> QED
    BY <2>1, <2>2
<1>5. ASSUME NEW c \in bid .. bid + n - 1, c \in Covered(runs, current) PROVE FALSE
  <2>1. PICK k \in current .. Len(runs) : runs[k].pos <= c /\ c < End(runs[k])
    BY <1>1, <1>5, CoveredRuns
  <2>2. k \in 1 .. Len(runs) /\ (k \in current .. reuse - 1 \/ k \in reuse .. Len(runs))
    BY <1>2
  <2>3. runs[k].pos \in Nat /\ End(runs[k]) \in Nat
    BY <1>1, <2>2 DEF Numbers
  <2>4. CASE k \in current .. reuse - 1
    <3>1. End(runs[k]) <= bid
      BY <1>1, <2>4 DEF LoopInv
    <3> QED
      BY <1>2, <1>4, <2>1, <2>3, <3>1
  <2>5. CASE k \in reuse .. Len(runs)
    <3>1. bid + n <= runs[k].pos
      BY <1>4, <2>5
    <3> QED
      BY <1>2, <1>4, <2>1, <2>3, <3>1
  <2> QED
    BY <2>2, <2>4, <2>5
<1> QED
  BY <1>2, <1>4, <1>5

\* The cells of the stretch are dead if the block is not marked.
LEMMA StrideDead ==
    ASSUME IInv, sweeping, bid < MaxBlocks, ~AtReuse, NEW c \in bid .. bid + Stride(bid) - 1
    PROVE  c \in Dead <=> bid \notin bmp
<1> DEFINE n == Stride(bid)
           m(s) == IF var THEN sizes[s] ELSE 1
<1>1. Numbers /\ PageTypeOK /\ LoopInv /\ BlockInv
  BY TypeNumbers DEF IInv
<1>2. /\ bid \in Bids /\ n \in Nat \ {0} /\ bid + n <= MaxBlocks
      /\ var => \A s \in Bids : sizes[s] # 0 /\ bid < s => bid + n <= s
  BY StrideFree
<1>3. bid \in Nat /\ c \in Nat /\ bid <= c /\ c < bid + n /\ c \in Bids
  <2>1. bid \in Nat /\ FirstBlock \in Nat /\ MaxBlocks \in Nat /\ FirstBlock <= bid
    BY <1>1 DEF Numbers
  <2>2. c \in bid .. bid + n - 1
    OBVIOUS
  <2> HIDE DEF n
  <2>3. c \in Nat /\ bid <= c /\ c < bid + n /\ FirstBlock <= c /\ c < MaxBlocks
    BY <1>2, <2>1, <2>2
  <2> QED
    BY <1>1, <2>1, <2>3 DEF Numbers
<1>4. \A s \in bmp : s \in Bids /\ s \in Nat /\ m(s) \in Nat \ {0}
  <2>1. \A s \in bmp : s \in Bids /\ s \in Nat /\ sizes[s] \in Nat
    BY <1>1 DEF PageTypeOK, Numbers
  <2>2. var => \A s \in bmp : sizes[s] # 0
    BY <1>1 DEF BlockInv
  <2> QED
    BY <2>1, <2>2
<1>5. \A s \in bmp : c \in Cells(s, m(s)) <=> s <= c /\ c < s + m(s)
  BY <1>3, <1>4 DEF Cells
<1>6. c \in Dead <=> \A s \in bmp : ~(s <= c /\ c < s + m(s))
  BY <1>3, <1>5 DEF Dead
<1>7. ASSUME bid \in bmp PROVE c < bid + m(bid)
  <2>1. m(bid) = n
    BY <1>1, <1>4, <1>7 DEF BlockInv, Stride
  <2> QED
    BY <1>3, <2>1
<1>8. ASSUME bid \notin bmp, NEW s \in bmp PROVE ~(s <= c /\ c < s + m(s))
  <2>1. CASE var
    <3>1. sizes[s] # 0 /\ m(s) = sizes[s]
      BY <1>1, <2>1 DEF BlockInv
    <3>2. CASE s < bid
      <4>1. s + m(s) <= bid
        BY <1>1, <1>4, <2>1, <3>1, <3>2 DEF LoopInv
      <4> QED
        BY <1>3, <1>4, <4>1
    <3>3. CASE bid < s
      <4>1. bid + n <= s
        BY <1>2, <1>4, <2>1, <3>1, <3>3
      <4> QED
        BY <1>2, <1>3, <1>4, <4>1
    <3> QED
      BY <1>3, <1>4, <1>8, <3>2, <3>3
  <2>2. CASE ~var
    BY <1>3, <1>4, <1>8, <2>2 DEF Stride
  <2> QED
    BY <2>1, <2>2
<1> QED
  BY <1>3, <1>6, <1>7, <1>8
LEMMA SweepBlockInv == ASSUME IInv, SweepBlock PROVE IInv'
<1> DEFINE n == Stride(bid)
<1>1. Numbers /\ PageTypeOK /\ LoopInv /\ sweeping /\ bid < MaxBlocks /\ ~AtReuse
  BY TypeNumbers DEF IInv, SweepBlock
<1>2. /\ need_flush' = need_flush /\ var' = var /\ finalizer' = finalizer /\ sweeping' = sweeping
      /\ runs' = runs /\ current' = current /\ bmp' = bmp /\ use' = use /\ reuse' = reuse
      /\ bid' = bid + n
  BY DEF SweepBlock, kind
<1>3. /\ bid \in Bids /\ n \in Nat \ {0} /\ bid + n <= MaxBlocks
      /\ \A k \in reuse .. Len(runs) : bid + n <= runs[k].pos
      /\ \A c \in bid .. bid + n - 1 : c \notin Covered(runs, current)
      /\ var => \A s \in Bids : sizes[s] # 0 /\ bid < s => bid + n <= s
  BY <1>1, StrideFree
<1>4. \A c \in bid .. bid + n - 1 : c \in Dead <=> bid \notin bmp
  BY <1>1, StrideDead
<1>5. bid \in Nat /\ current \in Nat /\ reuse \in Nat
  BY <1>1 DEF Numbers
<1>6. bid \in FirstBlock .. MaxBlocks /\ new_fl \in Seq(Runs)
  BY <1>1 DEF PageTypeOK
<1> HIDE DEF n
\* What the step does to the new list and to the sizes.
<1>7. /\ new_fl' \in Seq(Runs)
      /\ \A k \in 1 .. Len(new_fl') : End(new_fl'[k]) <= bid + n
      /\ Sorted(new_fl', 1)
      /\ ~var => Filled(new_fl', 1)
      /\ \A c : c \in Covered(new_fl', 1) <=>
                 c \in Covered(new_fl, 1) \/ (bid \notin bmp /\ c \in bid .. bid + n - 1)
      /\ sizes' \in [Bids -> 0 .. MaxRequest]
      /\ \A s \in Bids : sizes'[s] # sizes[s] => sizes'[s] = 0 /\ s = bid /\ bid \notin bmp
      /\ var /\ bid \notin bmp => sizes'[bid] = 0
      /\ \A s \in Bids : var /\ sizes'[s] # 0 => Apart(new_fl', 1, s, sizes[s])
  <2>1. CASE bid \in bmp
    <3>1. new_fl' = new_fl /\ sizes' = sizes
      BY <2>1 DEF SweepBlock
    <3>2. \A k \in 1 .. Len(new_fl) : End(new_fl[k]) \in Nat /\ End(new_fl[k]) <= bid
      BY <1>1, <1>6, RunType DEF LoopInv
    <3>3. \A k \in 1 .. Len(new_fl) : End(new_fl[k]) <= bid + n
      BY <1>3, <1>5, <3>2
    <3> QED
      BY <1>1, <2>1, <3>1, <3>3 DEF LoopInv, PageTypeOK
  <2>2. CASE bid \notin bmp
    <3>1. new_fl' = AddRun(new_fl, bid, n) /\ sizes' = Reclaimed(bid)
      BY <2>2 DEF SweepBlock, n
    <3>2. \A k \in 1 .. Len(new_fl) : End(new_fl[k]) <= bid
      BY <1>1 DEF LoopInv
    <3>3. Sorted(new_fl, 1) /\ (~var => Filled(new_fl, 1))
      BY <1>1 DEF LoopInv
    <3>4. /\ new_fl' \in Seq(Runs)
          /\ \A k \in 1 .. Len(new_fl') : End(new_fl'[k]) <= bid + n
          /\ Sorted(new_fl', 1)
      BY <1>3, <1>6, <3>1, <3>2, <3>3, AddRunList
    <3>5. ~var => Filled(new_fl', 1)
      BY <1>3, <1>6, <3>1, <3>3, AddRunFilled
    <3>6. \A c : c \in Covered(new_fl', 1) <=> c \in Covered(new_fl, 1) \/ c \in bid .. bid + n - 1
      BY <1>3, <1>6, <3>1, AddRunCovers
    <3>7. /\ sizes' \in [Bids -> 0 .. MaxRequest]
          /\ \A s \in Bids : sizes'[s] # sizes[s] => sizes'[s] = 0 /\ s = bid
          /\ var => sizes'[bid] = 0
      <4>1. sizes \in [Bids -> 0 .. MaxRequest] /\ 0 \in 0 .. MaxRequest
        BY <1>1, PageAssumption DEF PageTypeOK
      <4> QED
        BY <1>3, <3>1, <4>1 DEF Reclaimed
    <3>8. ASSUME NEW s \in Bids, var, sizes'[s] # 0 PROVE Apart(new_fl', 1, s, sizes[s])
      <4>1. s # bid /\ sizes[s] # 0 /\ sizes'[s] = sizes[s]
        BY <3>7, <3>8
      <4>2. s \in Nat /\ sizes[s] \in Nat \ {0}
        BY <1>1, <4>1 DEF Numbers
      <4>3. Apart(new_fl, 1, s, sizes[s]) /\ (s < bid => s + sizes[s] <= bid)
        BY <1>1, <3>8, <4>1 DEF LoopInv
      <4>4. bid < s => bid + n <= s
        BY <1>3, <3>8, <4>1
      <4>5. bid + n <= s \/ s + sizes[s] <= bid
        BY <1>5, <4>1, <4>2, <4>3, <4>4
      <4> QED
        BY <1>3, <1>6, <3>1, <4>2, <4>3, <4>5, AddRunApart
    <3> QED
      BY <2>2, <3>4, <3>5, <3>6, <3>7, <3>8
  <2> QED
    BY <2>1, <2>2
<1>8. PageTypeOK'
  <2>1. bid' \in FirstBlock .. MaxBlocks
    BY <1>2, <1>3, <1>6, <1>5, PageAssumption
  <2> QED
    BY <1>1, <1>2, <1>7, <2>1 DEF PageTypeOK, Bids
<1>9. /\ RunInv' /\ BlockInv' /\ UseInv'
      /\ Dead' = Dead /\ Covered(runs, current)' = Covered(runs, current)
  BY <1>2, <1>7, PageKept
<1>10. LoopInv'
  <2>1. \A k \in current .. reuse - 1 : End(runs[k]) <= bid + n
    <3> SUFFICES ASSUME NEW k \in current .. reuse - 1 PROVE End(runs[k]) <= bid + n
      OBVIOUS
    <3>1. k \in 1 .. Len(runs)
      BY <1>1 DEF Numbers
    <3>2. End(runs[k]) <= bid /\ End(runs[k]) \in Nat
      BY <1>1, <3>1 DEF Numbers, LoopInv
    <3> QED
      BY <1>3, <1>5, <3>2
  <2>2. ASSUME var, NEW s \in Bids, sizes'[s] # 0
        PROVE  /\ s < bid + n => s + sizes'[s] <= bid + n /\ s \in bmp
               /\ Apart(new_fl', 1, s, sizes'[s])
    <3>1. sizes'[s] = sizes[s] /\ sizes[s] # 0
      BY <1>7, <2>2
    <3>2. s \in Nat /\ sizes[s] \in Nat
      BY <1>1, <2>2 DEF Numbers
    <3>3. s < bid => s + sizes[s] <= bid /\ s \in bmp
      BY <1>1, <2>2, <3>1 DEF LoopInv
    <3>4. s = bid => s + sizes[s] = bid + n /\ s \in bmp
      BY <1>7, <2>2, <3>1 DEF n, Stride
    <3>5. bid < s => bid + n <= s
      BY <1>3, <2>2, <3>1
    <3>6. s < bid + n => s + sizes[s] <= bid + n /\ s \in bmp
      BY <1>3, <1>5, <3>2, <3>3, <3>4, <3>5
    <3> QED
      BY <1>7, <2>2, <3>1, <3>6
  <2>3. need_flush /\ reuse >= current
    BY <1>1 DEF LoopInv
  <2> QED
    BY <1>2, <1>3, <1>7, <2>1, <2>2, <2>3 DEF LoopInv, Sorted, Filled, Apart, Bids, End
<1>11. SweepExact'
  <2>1. Covered(new_fl, 1) = {c \in Covered(runs, current) \cup Dead : c < bid}
    BY <1>1 DEF IInv, SweepExact
  <2>2. \A c \in Covered(runs, current) \cup Dead : c \in Int
    BY <1>1, CoveredRuns DEF Dead, Numbers
  <2>3. ASSUME NEW c
        PROVE  c \in Covered(new_fl', 1) <=> c \in Covered(runs, current) \cup Dead /\ c < bid + n
    <3>1. CASE c \in Int
      <4>1. c \in bid .. bid + n - 1 <=> bid <= c /\ c < bid + n
        BY <1>3, <1>5, <3>1
      <4>2. c < bid => c < bid + n
        BY <1>3, <1>5, <3>1
      <4>3. (c < bid \/ bid <= c) /\ ~(c < bid /\ bid <= c)
        BY <1>5, <3>1
      <4> QED
        BY <1>3, <1>4, <1>7, <2>1, <4>1, <4>2, <4>3
    <3>2. CASE c \notin Int
      BY <1>7, <2>1, <2>2, <3>2
    <3> QED
      BY <3>1, <3>2
  <2>4. Covered(new_fl, 1)' = Covered(new_fl', 1)
    BY DEF Covered, Cells
  <2> QED
    BY <1>2, <1>9, <2>3, <2>4 DEF SweepExact
<1> QED
  BY <1>8, <1>9, <1>10, <1>11 DEF IInv

LEMMA SweepEndInv == ASSUME IInv, SweepEnd PROVE IInv'
<1>1. Numbers /\ PageTypeOK /\ LoopInv /\ sweeping /\ bid = MaxBlocks
  BY TypeNumbers DEF IInv, SweepEnd, Numbers
<1>2. /\ need_flush' = FALSE /\ var' = var /\ finalizer' = finalizer /\ sizes' = sizes /\ sweeping' = FALSE
      /\ runs' = new_fl /\ current' = 1 /\ bmp' = bmp /\ use' = use /\ reuse' = 1
      /\ bid' = FirstBlock /\ new_fl' = <<>>
  BY DEF SweepEnd, kind
<1>3. PageTypeOK'
  <2>1. /\ FirstBlock \in FirstBlock .. MaxBlocks /\ <<>> \in Seq(Runs) /\ FALSE \in BOOLEAN
        /\ 1 \in 1 .. Len(new_fl) + 1
    BY <1>1, PageAssumption DEF Numbers
  <2> QED
    BY <1>1, <1>2, <2>1 DEF PageTypeOK, Bids
<1>4. RunInv'
  BY <1>1, <1>2 DEF LoopInv, RunInv, Sorted, Filled, End
<1>5. BlockInv'
  BY <1>1, <1>2 DEF IInv, LoopInv, BlockInv, Apart, End, Bids
<1>6. UseInv'
  <2>1. ASSUME ~var, NEW b \in Bids, use[b] # 0 PROVE b \notin Covered(new_fl, 1)
    <3>1. b \in bmp /\ b \notin Covered(runs, current)
      BY <1>1, <2>1 DEF IInv, UseInv, LoopInv
    <3>2. b \in Cells(b, 1)
      BY <1>1 DEF Cells, Numbers
    <3>3. b \notin Dead
      BY <2>1, <3>1, <3>2 DEF Dead
    <3> QED
      BY <1>1, <3>1, <3>3 DEF IInv, SweepExact
  <2>2. Covered(runs, current)' = Covered(new_fl, 1)
    BY <1>2 DEF Covered, Cells
  <2> QED
    BY <1>2, <2>1, <2>2 DEF IInv, UseInv, Bids
<1>7. LoopInv' /\ SweepExact'
  BY <1>2 DEF LoopInv, SweepExact
<1> QED
  BY <1>3, <1>4, <1>5, <1>6, <1>7 DEF IInv
\* What an allocation does to the list: run k loses its first n blocks.
LEMMA TakeRunList ==
    ASSUME PageTypeOK, Sorted(runs, current), NEW k \in current .. Len(runs), NEW n \in Nat,
           n <= runs[k].count, TakeRun(k, n)
    PROVE  /\ runs' \in Seq(Runs) /\ Len(runs') = Len(runs)
           /\ current' \in 1 .. Len(runs) + 1 /\ current <= current' /\ current' \in Nat \ {0}
           /\ current' = current + (IF runs[k].count = n THEN 1 ELSE 0)
           /\ \A j \in 1 .. Len(runs) : j # k => runs'[j] = runs[j]
           /\ runs'[k].pos = runs[k].pos + n /\ runs'[k].count = runs[k].count - n
           /\ End(runs'[k]) = End(runs[k])
           /\ Sorted(runs', current')
           /\ \A c : c \in Covered(runs', current') =>
                 c \in Covered(runs, current) /\ c \notin Cells(runs[k].pos, n)
<1> DEFINE r == [pos |-> runs[k].pos + n, count |-> runs[k].count - n]
<1>1. Numbers
  BY TypeNumbers
<1>2. k \in 1 .. Len(runs) /\ current \in Nat \ {0} /\ Len(runs) \in Nat /\ MaxBlocks \in Nat
  BY <1>1 DEF Numbers
<1>3. /\ runs[k] \in Runs /\ runs[k].pos \in Nat /\ runs[k].count \in Nat
      /\ End(runs[k]) = runs[k].pos + runs[k].count /\ End(runs[k]) <= MaxBlocks
  BY <1>2, RunType DEF PageTypeOK, Sorted
<1>4. r \in Runs
  <2>1. n \in Int /\ 0 <= n
    OBVIOUS
  <2> QED
    BY <1>3, <2>1, RunUpdate, Zenon
<1>5. End(r) = End(runs[k]) /\ r.pos = runs[k].pos + n /\ r.count = runs[k].count - n
  <2>1. End(r) = (runs[k].pos + n) + (runs[k].count - n)
    BY DEF End
  <2> QED
    BY <1>3, <2>1
<1>6. runs' = [runs EXCEPT ![k] = r]
  BY DEF TakeRun, Taken
<1> HIDE DEF r
<1>7. /\ runs' \in Seq(Runs) /\ Len(runs') = Len(runs) /\ runs'[k] = r
      /\ \A j \in 1 .. Len(runs) : j # k => runs'[j] = runs[j]
  BY <1>2, <1>4, <1>6, ExceptSeq DEF PageTypeOK
<1>8. current' = current + (IF runs[k].count = n THEN 1 ELSE 0)
  BY DEF TakeRun
<1>9. current' \in 1 .. Len(runs) + 1 /\ current <= current' /\ current' \in Nat \ {0}
  BY <1>2, <1>8
<1>10. \A j \in current' .. Len(runs) : j \in current .. Len(runs) /\ j \in 1 .. Len(runs)
  BY <1>2, <1>9
<1>11. \A j \in 1 .. Len(runs) : /\ End(runs'[j]) = End(runs[j]) /\ runs[j].pos <= runs'[j].pos
                                /\ runs[j].pos \in Nat /\ runs'[j].pos \in Nat /\ End(runs[j]) \in Nat
  <2> SUFFICES ASSUME NEW j \in 1 .. Len(runs)
               PROVE  /\ End(runs'[j]) = End(runs[j]) /\ runs[j].pos <= runs'[j].pos
                      /\ runs[j].pos \in Nat /\ runs'[j].pos \in Nat /\ End(runs[j]) \in Nat
    OBVIOUS
  <2>1. runs[j].pos \in Nat /\ End(runs[j]) \in Nat
    BY <1>1 DEF Numbers
  <2>2. CASE j = k
    BY <1>3, <1>5, <1>7, <2>1, <2>2
  <2>3. CASE j # k
    BY <1>7, <2>1, <2>3
  <2> QED
    BY <2>2, <2>3
<1>12. Sorted(runs', current')
  <2>1. \A j \in current' .. Len(runs') : End(runs'[j]) <= MaxBlocks
    BY <1>7, <1>10, <1>11 DEF Sorted
  <2>2. ASSUME NEW i \in current' .. Len(runs'), NEW j \in current' .. Len(runs'), i < j
        PROVE  End(runs'[i]) <= runs'[j].pos
    <3>1. End(runs[i]) <= runs[j].pos
      BY <1>7, <1>10, <2>2 DEF Sorted
    <3>2. i \in 1 .. Len(runs) /\ j \in 1 .. Len(runs)
      BY <1>7, <1>10
    <3>3. /\ End(runs'[i]) = End(runs[i]) /\ End(runs[i]) \in Nat
          /\ runs[j].pos <= runs'[j].pos /\ runs[j].pos \in Nat /\ runs'[j].pos \in Nat
      BY <1>11, <3>2
    <3> QED
      BY <3>1, <3>3
  <2> QED
    BY <2>1, <2>2 DEF Sorted
<1>13. ASSUME NEW c, c \in Covered(runs', current')
       PROVE  c \in Covered(runs, current) /\ c \notin Cells(runs[k].pos, n)
  <2>1. c \in Int /\ \E j \in current' .. Len(runs') : runs'[j].pos <= c /\ c < End(runs'[j])
    BY <1>7, <1>9, <1>13, InCovered
  <2>2. PICK j \in current' .. Len(runs') : runs'[j].pos <= c /\ c < End(runs'[j])
    BY <2>1
  <2>3. j \in current .. Len(runs) /\ j \in 1 .. Len(runs) /\ k \in current .. Len(runs)
    BY <1>7, <1>10
  <2>4. runs[j].pos <= c /\ c < End(runs[j])
    BY <1>11, <2>1, <2>2, <2>3
  <2>5. c \in Covered(runs, current)
    BY <2>1, <2>3, <2>4, CoveredRuns
  <2>6. ASSUME runs[k].pos <= c, c < runs[k].pos + n PROVE FALSE
    <3>1. CASE j = k
      BY <1>3, <1>5, <1>7, <2>1, <2>2, <2>6, <3>1
    <3>2. CASE j < k
      <4>1. End(runs[j]) <= runs[k].pos
        BY <2>3, <3>2 DEF Sorted
      <4> QED
        <5>1. runs[k].pos \in Nat /\ End(runs[j]) \in Nat
          BY <1>3, <1>11, <2>3
        <5> QED
          BY <2>1, <2>4, <2>6, <4>1, <5>1
    <3>3. CASE k < j
      <4>1. End(runs[k]) <= runs[j].pos
        BY <2>3, <3>3 DEF Sorted
      <4> QED
        <5>1. runs[j].pos \in Nat
          BY <1>11, <2>3
        <5>2. runs[k].pos + n <= End(runs[k]) /\ End(runs[k]) \in Nat
          <6>1. n \in Nat /\ n <= runs[k].count
            OBVIOUS
          <6> QED
            BY <1>3, <6>1
        <5>3. runs[k].pos \in Nat /\ n \in Nat
          BY <1>3
        <5>4. c < End(runs[k])
          BY <2>1, <2>6, <5>2, <5>3
        <5>5. End(runs[k]) <= c
          BY <2>1, <2>4, <4>1, <5>1, <5>2
        <5> QED
          BY <2>1, <5>2, <5>4, <5>5
    <3> QED
      BY <1>2, <2>3, <3>1, <3>2, <3>3
  <2> QED
    BY <1>3, <2>5, <2>6 DEF Cells
<1> QED
  BY <1>5, <1>7, <1>8, <1>9, <1>12, <1>13

LEMMA AllocFixedInv == ASSUME IInv, NEW want \in 1 .. MaxRequest, gc_alloc_fixed_run(want) PROVE IInv'
<1> DEFINE run == runs[current]
           taken == IF run.count < want THEN run.count ELSE want
<1>1. Numbers /\ PageTypeOK /\ Sorted(runs, current) /\ ~var /\ ~need_flush
  BY TypeNumbers DEF IInv, RunInv, gc_alloc_fixed_run
<1>2. /\ var' = var /\ finalizer' = finalizer /\ sizes' = sizes /\ bmp' = bmp /\ need_flush' = need_flush
      /\ sweeping' = sweeping /\ bid' = bid /\ new_fl' = new_fl /\ reuse' = reuse
      /\ use' = [b \in Bids |-> IF b \in Cells(run.pos, taken) THEN 1 ELSE use[b]]
      /\ TakeRun(current, taken) /\ current <= Len(runs)
  BY DEF gc_alloc_fixed_run, sweep, kind
<1>3. current \in current .. Len(runs) /\ current \in 1 .. Len(runs) /\ current \in Nat
  BY <1>1, <1>2 DEF Numbers
<1>4. run.count \in Nat /\ run.count > 0 /\ want \in Nat /\ want > 0
  BY <1>1, <1>3, PageAssumption DEF Numbers, IInv, RunInv, Filled
<1>5. taken \in Nat /\ taken > 0 /\ taken <= run.count
  BY <1>4
<1> HIDE DEF taken
<1>6. /\ runs' \in Seq(Runs) /\ Len(runs') = Len(runs)
      /\ current' \in 1 .. Len(runs) + 1 /\ current <= current' /\ current' \in Nat
      /\ current' = current + (IF run.count = taken THEN 1 ELSE 0)
      /\ \A j \in 1 .. Len(runs) : j # current => runs'[j] = runs[j]
      /\ runs'[current].count = run.count - taken
      /\ Sorted(runs', current')
      /\ \A c : c \in Covered(runs', current') =>
            c \in Covered(runs, current) /\ c \notin Cells(run.pos, taken)
  BY <1>1, <1>2, <1>3, <1>5, TakeRunList
<1>7. ~sweeping
  BY <1>1 DEF IInv, LoopInv
<1>8. PageTypeOK'
  <2>1. use' \in [Bids -> 0 .. MaxRequest]
    <3>1. 1 \in 0 .. MaxRequest
      BY PageAssumption
    <3> QED
      BY <1>1, <1>2, <3>1 DEF PageTypeOK
  <2> QED
    BY <1>1, <1>2, <1>6, <2>1 DEF PageTypeOK, Bids
<1>9. RunInv'
  <2>1. Filled(runs', current')
    <3> SUFFICES ASSUME NEW j \in current' .. Len(runs') PROVE runs'[j].count > 0
      BY DEF Filled
    <3>1. CASE j = current
      <4>1. run.count # taken
        BY <1>3, <1>6, <3>1
      <4> QED
        BY <1>4, <1>5, <1>6, <3>1, <4>1
    <3>2. CASE j # current
      <4>1. j \in current .. Len(runs) /\ j \in 1 .. Len(runs)
        BY <1>3, <1>6
      <4>2. runs'[j] = runs[j]
        BY <1>6, <3>2, <4>1
      <4> QED
        BY <1>1, <4>1, <4>2 DEF IInv, RunInv, Filled
    <3> QED
      BY <3>1, <3>2
  <2> QED
    BY <1>6, <2>1 DEF RunInv, Sorted, Filled, End
<1>10. BlockInv' /\ LoopInv' /\ SweepExact'
  BY <1>1, <1>2, <1>7 DEF BlockInv, LoopInv, SweepExact
<1>11. UseInv'
  <2>1. ASSUME NEW b \in Bids, use'[b] # 0 PROVE use'[b] = 1 /\ b \notin Covered(runs', current')
    <3>1. CASE b \in Cells(run.pos, taken)
      BY <1>2, <1>6, <3>1
    <3>2. CASE b \notin Cells(run.pos, taken)
      <4>1. use'[b] = use[b]
        BY <1>2, <3>2
      <4> QED
        BY <1>1, <1>6, <2>1, <4>1 DEF IInv, UseInv
    <3> QED
      BY <3>1, <3>2
  <2>2. Covered(runs, current)' = Covered(runs', current')
    BY DEF Covered, Cells
  <2> QED
    BY <1>1, <1>2, <2>1, <2>2 DEF UseInv, Bids
<1> QED
  BY <1>8, <1>9, <1>10, <1>11 DEF IInv
LEMMA AllocVarInv == ASSUME IInv, NEW n \in 1 .. MaxRequest, gc_alloc_var(n) PROVE IInv'
<1>1. Numbers /\ PageTypeOK /\ Sorted(runs, current) /\ BlockInv
  BY TypeNumbers DEF IInv, RunInv
<1>2. PICK k \in Fits(n) :
        /\ var /\ ~need_flush
        /\ TakeRun(k, n)
        /\ bmp' = bmp \cup {runs[k].pos}
        /\ sizes' = [c \in Bids |-> IF c = runs[k].pos THEN n
                                    ELSE IF c \in Cells(runs[k].pos, n) THEN 0 ELSE sizes[c]]
        /\ use' = [use EXCEPT ![runs[k].pos] = n]
        /\ UNCHANGED <<kind, need_flush, sweep>>
  BY DEF gc_alloc_var
<1> DEFINE b == runs[k].pos
<1>3. /\ var' = var /\ finalizer' = finalizer /\ need_flush' = need_flush /\ sweeping' = sweeping /\ bid' = bid
      /\ new_fl' = new_fl /\ reuse' = reuse
  BY <1>2 DEF sweep, kind
<1>4. /\ k \in current .. Len(runs) /\ k \in 1 .. Len(runs) /\ n <= runs[k].count
      /\ n \in Nat /\ n > 0 /\ n \in 0 .. MaxRequest
  BY <1>1, PageAssumption DEF Fits, Numbers
<1>5. /\ b \in Nat /\ FirstBlock <= b /\ runs[k].count \in Nat /\ End(runs[k]) = b + runs[k].count
      /\ End(runs[k]) <= MaxBlocks /\ MaxBlocks \in Nat
  BY <1>1, <1>4 DEF Numbers, Sorted
<1>6. b + n <= End(runs[k]) /\ b + n <= MaxBlocks /\ b \in Bids
  <2>1. b + n <= End(runs[k]) /\ b + n <= MaxBlocks /\ b < MaxBlocks
    BY <1>4, <1>5
  <2> QED
    BY <1>1, <1>5, <2>1 DEF Numbers
<1>7. /\ runs' \in Seq(Runs) /\ Len(runs') = Len(runs)
      /\ current' \in 1 .. Len(runs) + 1 /\ current <= current' /\ current' \in Nat
      /\ \A j \in 1 .. Len(runs) : j # k => runs'[j] = runs[j]
      /\ runs'[k].pos = b + n /\ End(runs'[k]) = End(runs[k])
      /\ Sorted(runs', current')
  BY <1>1, <1>2, <1>4, TakeRunList
<1>8. ~sweeping
  BY <1>2 DEF IInv, LoopInv
<1>9. \A s \in Bids : sizes[s] # 0 => s + sizes[s] <= b \/ b + n <= s
  <2> SUFFICES ASSUME NEW s \in Bids, sizes[s] # 0 PROVE s + sizes[s] <= b \/ b + n <= s
    OBVIOUS
  <2>1. End(runs[k]) <= s \/ s + sizes[s] <= b
    BY <1>1, <1>2, <1>4 DEF BlockInv, Apart
  <2>2. s \in Nat
    BY <1>1 DEF Numbers
  <2> QED
    BY <1>4, <1>5, <1>6, <2>1, <2>2
<1>10. /\ sizes'[b] = n
       /\ \A s \in Bids : s # b /\ sizes[s] # 0 => sizes'[s] = sizes[s]
       /\ \A s \in Bids : s # b /\ sizes'[s] # 0 => sizes'[s] = sizes[s] /\ (s < b \/ b + n <= s)
       /\ \A s \in Bids : sizes[s] # 0 => s # b
  <2>1. \A s \in Bids : s \in Nat /\ sizes[s] \in Nat
    BY <1>1 DEF Numbers
  <2>2. \A s \in Bids : s \in Cells(b, n) <=> b <= s /\ s < b + n
    BY <1>4, <1>5, <2>1 DEF Cells
  <2>3. \A s \in Bids : sizes[s] # 0 => s < b \/ b + n <= s
    BY <1>4, <1>5, <1>9, <2>1
  <2>4. \A s \in Bids : (s < b \/ b + n <= s) <=> ~(b <= s /\ s < b + n)
    BY <1>4, <1>5, <2>1
  <2>5. ~(b < b) /\ ~(b + n <= b)
    BY <1>4, <1>5
  <2>6. sizes'[b] = n
    BY <1>2, <1>6
  <2>7. \A s \in Bids : s # b => sizes'[s] = IF s \in Cells(b, n) THEN 0 ELSE sizes[s]
    BY <1>2
  <2> QED
    BY <2>2, <2>3, <2>4, <2>5, <2>6, <2>7
<1>11. PageTypeOK'
  <2>1. use' \in [Bids -> 0 .. MaxRequest]
    BY <1>1, <1>2, <1>4, <1>6 DEF PageTypeOK
  <2>2. sizes' \in [Bids -> 0 .. MaxRequest]
    <3>1. 0 \in 0 .. MaxRequest
      BY PageAssumption
    <3> QED
      BY <1>1, <1>2, <1>4, <3>1 DEF PageTypeOK
  <2>3. bmp' \subseteq Bids
    BY <1>1, <1>2, <1>6 DEF PageTypeOK
  <2> QED
    BY <1>1, <1>3, <1>7, <2>1, <2>2, <2>3 DEF PageTypeOK, Bids
<1>12. RunInv'
  BY <1>2, <1>3, <1>7 DEF RunInv, Sorted, End
<1>13. BlockInv'
  <2>1. ASSUME NEW s \in Bids, sizes'[s] # 0
        PROVE  /\ s + sizes'[s] <= MaxBlocks
               /\ \A t \in Bids : s < t /\ sizes'[t] # 0 => s + sizes'[s] <= t
               /\ Apart(runs', current', s, sizes'[s])
    <3>1. s \in Nat /\ sizes[s] \in Nat
      BY <1>1 DEF Numbers
    <3>2. \A j \in current' .. Len(runs') : j \in current .. Len(runs) /\ j \in 1 .. Len(runs)
      BY <1>1, <1>7 DEF Numbers
    <3>3. CASE s = b
      <4>1. \A t \in Bids : b < t /\ sizes'[t] # 0 => b + n <= t
        <5>1. ASSUME NEW t \in Bids, b < t, sizes'[t] # 0 PROVE b + n <= t
          <6>1. t \in Nat /\ t # b /\ ~(t < b)
            <7>1. t \in Nat
              BY <1>1 DEF Numbers
            <7> QED
              BY <1>5, <5>1, <7>1
          <6> QED
            BY <1>10, <5>1, <6>1
        <5> QED
          BY <5>1
      <4>2. ASSUME NEW j \in current' .. Len(runs') PROVE End(runs'[j]) <= b \/ b + n <= runs'[j].pos
        <5>1. j \in current .. Len(runs) /\ j \in 1 .. Len(runs)
          BY <3>2
        <5>2. CASE j = k
          BY <1>4, <1>5, <1>7, <5>2
        <5>3. CASE j < k
          <6>1. End(runs[j]) <= b /\ runs'[j] = runs[j]
            BY <1>1, <1>4, <1>7, <5>1, <5>3 DEF Sorted
          <6> QED
            BY <6>1
        <5>4. CASE k < j
          <6>1. End(runs[k]) <= runs[j].pos /\ runs'[j] = runs[j] /\ runs[j].pos \in Nat
            BY <1>1, <1>4, <1>7, <5>1, <5>4 DEF Sorted, Numbers
          <6> QED
            BY <1>4, <1>5, <1>6, <6>1
        <5> QED
          BY <1>4, <5>1, <5>2, <5>3, <5>4
      <4> QED
        BY <1>6, <1>10, <3>3, <4>1, <4>2 DEF Apart
    <3>4. CASE s # b
      <4>1. sizes'[s] = sizes[s] /\ sizes[s] # 0 /\ (s < b \/ b + n <= s)
        BY <1>10, <2>1, <3>4
      <4>2. /\ s + sizes[s] <= MaxBlocks /\ Apart(runs, current, s, sizes[s])
            /\ \A t \in Bids : s < t /\ sizes[t] # 0 => s + sizes[s] <= t
        BY <1>1, <1>2, <4>1 DEF BlockInv
      <4>3. s < b => s + sizes[s] <= b
        <5>1. s + sizes[s] <= b \/ b + n <= s
          BY <1>9, <4>1
        <5> QED
          BY <1>4, <1>5, <3>1, <5>1
      <4>4. \A t \in Bids : s < t /\ sizes'[t] # 0 => s + sizes[s] <= t
        <5>1. ASSUME NEW t \in Bids, s < t, sizes'[t] # 0 PROVE s + sizes[s] <= t
          <6>1. CASE t = b
            BY <4>3, <5>1, <6>1
          <6>2. CASE t # b
            BY <1>10, <4>2, <5>1, <6>2
          <6> QED
            BY <6>1, <6>2
        <5> QED
          BY <5>1
      <4>5. ASSUME NEW j \in current' .. Len(runs')
            PROVE  End(runs'[j]) <= s \/ s + sizes[s] <= runs'[j].pos
        <5>1. j \in current .. Len(runs) /\ j \in 1 .. Len(runs)
          BY <3>2
        <5>2. End(runs[j]) <= s \/ s + sizes[s] <= runs[j].pos
          BY <4>2, <5>1 DEF Apart
        <5>3. CASE j = k
          BY <1>4, <1>5, <1>7, <3>1, <5>2, <5>3
        <5>4. CASE j # k
          BY <1>7, <5>1, <5>2, <5>4
        <5> QED
          BY <5>3, <5>4
      <4> QED
        BY <4>1, <4>2, <4>4, <4>5 DEF Apart
    <3> QED
      BY <3>3, <3>4
  <2>2. \A s \in bmp' : sizes'[s] # 0
    <3>1. \A s \in bmp : s \in Bids /\ sizes[s] # 0
      BY <1>1, <1>2 DEF BlockInv, PageTypeOK
    <3> QED
      BY <1>2, <1>4, <1>10, <3>1
  <2> QED
    BY <2>1, <2>2 DEF BlockInv, Bids, Apart, End
<1>14. UseInv'
  <2>1. ASSUME NEW s \in Bids, use'[s] # 0 PROVE use'[s] = sizes'[s] /\ s \in bmp'
    <3>1. CASE s = b
      BY <1>1, <1>2, <1>6, <1>10, <3>1 DEF PageTypeOK
    <3>2. CASE s # b
      <4>1. use'[s] = use[s]
        BY <1>1, <1>2, <3>2 DEF PageTypeOK
      <4>2. use[s] = sizes[s] /\ s \in bmp
        BY <1>2, <2>1, <4>1 DEF IInv, UseInv
      <4> QED
        BY <1>2, <1>10, <2>1, <3>2, <4>1, <4>2
    <3> QED
      BY <3>1, <3>2
  <2> QED
    BY <1>2, <1>3, <2>1 DEF UseInv, Bids
<1>15. LoopInv' /\ SweepExact'
  BY <1>3, <1>8 DEF LoopInv, SweepExact
<1> QED
  BY <1>11, <1>12, <1>13, <1>14, <1>15 DEF IInv
LEMMA MarkInv == ASSUME IInv, gc_mark PROVE IInv'
<1>1. PICK keep \in SUBSET {b \in Bids : use[b] # 0}, stray \in SUBSET {b \in Bids : ~var \/ sizes[b] # 0} :
        /\ bmp' = keep \cup stray
        /\ use' = [b \in Bids |-> IF b \in keep THEN use[b] ELSE 0]
        /\ sizes' = gc_call_finalizers(bmp')
  BY DEF gc_mark
<1>2. /\ ~sweeping /\ need_flush' = TRUE /\ var' = var /\ finalizer' = finalizer /\ runs' = runs
      /\ current' = current /\ sweeping' = sweeping /\ bid' = bid /\ new_fl' = new_fl /\ reuse' = reuse
  BY DEF gc_mark, sweep, kind
<1>a. /\ \A b \in Bids : sizes'[b] # 0 \/ b \in bmp' => sizes'[b] = sizes[b]
      /\ sizes' \in [Bids -> 0 .. MaxRequest]
  <2>1. sizes \in [Bids -> 0 .. MaxRequest] /\ 0 \in 0 .. MaxRequest
    BY PageAssumption DEF IInv, PageTypeOK
  <2>2. CASE finalizer
    <3>1. sizes' = [b \in Bids |-> IF b \in bmp' THEN sizes[b] ELSE 0]
      BY <1>1, <2>2 DEF gc_call_finalizers
    <3> QED
      BY <2>1, <3>1
  <2>3. CASE ~finalizer
    BY <1>1, <2>1, <2>3 DEF gc_call_finalizers
  <2> QED
    BY <2>2, <2>3
<1>3. PageTypeOK'
  <2>1. use' \in [Bids -> 0 .. MaxRequest] /\ bmp' \subseteq Bids /\ TRUE \in BOOLEAN
    <3>1. 0 \in 0 .. MaxRequest /\ use \in [Bids -> 0 .. MaxRequest]
      BY PageAssumption DEF IInv, PageTypeOK
    <3> QED
      BY <1>1, <3>1
  <2> QED
    BY <1>2, <1>a, <2>1 DEF IInv, PageTypeOK, Bids
<1>4. RunInv'
  BY <1>2 DEF IInv, RunInv, Sorted, Filled, End
<1>5. BlockInv'
  <2>1. ASSUME var, NEW s \in bmp' PROVE sizes[s] # 0
    <3>1. CASE s \in keep
      BY <2>1, <3>1 DEF IInv, UseInv
    <3>2. CASE s \in stray
      BY <2>1, <3>2
    <3> QED
      BY <1>1, <2>1, <3>1, <3>2
  <2>2. bmp' \subseteq Bids
    BY <1>1
  <2> QED
    BY <1>2, <1>a, <2>1, <2>2 DEF IInv, BlockInv, Apart, End, Bids
<1>6. UseInv'
  <2>1. ASSUME NEW b \in Bids, use'[b] # 0 PROVE use'[b] = use[b] /\ b \in bmp'
    BY <1>1, <2>1
  <2>2. Covered(runs, current)' = Covered(runs, current)
    BY <1>2 DEF Covered, Cells
  <2> QED
    BY <1>2, <1>a, <2>1, <2>2 DEF IInv, UseInv, Bids
<1>7. LoopInv' /\ SweepExact'
  BY <1>2 DEF LoopInv, SweepExact
<1> QED
  BY <1>3, <1>4, <1>5, <1>6, <1>7 DEF IInv

LEMMA StutterInv == ASSUME IInv, UNCHANGED page_vars PROVE IInv'
<1>1. /\ var' = var /\ finalizer' = finalizer /\ sizes' = sizes /\ runs' = runs /\ current' = current /\ need_flush' = need_flush
      /\ bmp' = bmp /\ use' = use /\ sweeping' = sweeping /\ bid' = bid /\ new_fl' = new_fl /\ reuse' = reuse
  BY DEF page_vars, page, sweep, kind
<1>2. PageTypeOK'
  BY <1>1 DEF IInv, PageTypeOK, Bids
<1>3. RunInv' /\ BlockInv' /\ UseInv' /\ Dead' = Dead /\ Covered(runs, current)' = Covered(runs, current)
  BY <1>1, PageKept
<1>4. LoopInv'
  BY <1>1 DEF IInv, LoopInv, Sorted, Filled, Apart, End, Bids
<1>5. SweepExact'
  <2>1. Covered(new_fl, 1)' = Covered(new_fl, 1)
    BY <1>1 DEF Covered, Cells
  <2> QED
    BY <1>1, <1>3, <2>1 DEF IInv, SweepExact
<1> QED
  BY <1>2, <1>3, <1>4, <1>5 DEF IInv

LEMMA NextInv == ASSUME IInv, [PageNext]_page_vars PROVE IInv'
<1>1. ASSUME NEW n \in 1 .. MaxRequest, gc_alloc_fixed_run(n) PROVE IInv'
  BY <1>1, AllocFixedInv
<1>2. ASSUME NEW n \in 1 .. MaxRequest, gc_alloc_var(n) PROVE IInv'
  BY <1>2, AllocVarInv
<1>3. CASE flush_free_list
  BY <1>3, FlushInv
<1>4. CASE SweepReuse
  BY <1>4, SweepReuseInv
<1>5. CASE SweepBlock
  BY <1>5, SweepBlockInv
<1>6. CASE SweepEnd
  BY <1>6, SweepEndInv
<1>7. CASE gc_mark
  BY <1>7, MarkInv
<1>8. CASE UNCHANGED page_vars
  BY <1>8, StutterInv
<1> QED
  BY <1>1, <1>2, <1>3, <1>4, <1>5, <1>6, <1>7, <1>8 DEF PageNext

-----------------------------------------------------------------------------
(* The theorems *)

\* The invariant above holds in every state of the page.
THEOREM Invariance == PageSpec => []IInv
<1>1. PageInit => IInv
  BY InitInv
<1>2. IInv /\ [PageNext]_page_vars => IInv'
  BY NextInv
<1> QED
  BY <1>1, <1>2, PTL DEF PageSpec

\* Sizes fit their range, the cursor its list, and the loop of the sweep ends at the
\* end of the page and not behind it.
THEOREM TypeCorrect == PageSpec => []PageTypeOK
<1>1. IInv => PageTypeOK
  BY DEF IInv
<1> QED
  BY <1>1, Invariance, PTL

\* What the free list offers, before, during and after a sweep, is not in use.
THEOREM RunsFreeCorrect == PageSpec => []RunsFree
<1>1. ASSUME IInv PROVE RunsFree
  <2>1. Numbers /\ PageTypeOK /\ Sorted(runs, current)
    BY <1>1, TypeNumbers DEF IInv, RunInv
  <2>2. ASSUME NEW c, c \in Covered(runs, current), NEW b \in Bids, c \in Cells(b, use[b]) PROVE FALSE
    <3>1. b \in Nat /\ use[b] \in Nat
      BY <2>1 DEF Numbers
    <3>2. c \in Int /\ b <= c /\ c < b + use[b]
      BY <2>2, <3>1 DEF Cells
    <3>3. CASE ~var
      <4>1. use[b] = 1 /\ c = b
        BY <1>1, <3>1, <3>2, <3>3 DEF IInv, UseInv
      <4> QED
        BY <1>1, <2>2, <3>1, <3>3, <4>1 DEF IInv, UseInv
    <3>4. CASE var
      <4>1. use[b] = sizes[b] /\ sizes[b] # 0
        BY <1>1, <3>1, <3>2, <3>4 DEF IInv, UseInv
      <4>2. PICK k \in current .. Len(runs) : runs[k].pos <= c /\ c < End(runs[k])
        BY <2>1, <2>2, CoveredRuns
      <4>3. End(runs[k]) <= b \/ b + sizes[b] <= runs[k].pos
        BY <1>1, <3>4, <4>1 DEF IInv, BlockInv, Apart
      <4>4. k \in 1 .. Len(runs) /\ runs[k].pos \in Nat /\ End(runs[k]) \in Nat
        BY <2>1 DEF Numbers
      <4> QED
        BY <3>1, <3>2, <4>1, <4>2, <4>3, <4>4
    <3> QED
      BY <3>3, <3>4
  <2>3. \A k \in current .. Len(runs) - 1 : End(runs[k]) <= runs[k + 1].pos
    <3> SUFFICES ASSUME NEW k \in current .. Len(runs) - 1 PROVE End(runs[k]) <= runs[k + 1].pos
      OBVIOUS
    <3>1. k \in current .. Len(runs) /\ k + 1 \in current .. Len(runs) /\ k < k + 1
      BY <2>1 DEF Numbers
    <3> QED
      BY <2>1, <3>1 DEF Sorted
  <2> QED
    BY <2>1, <2>2, <2>3 DEF RunsFree, InUse, Sorted
<1> QED
  BY <1>1, Invariance, PTL

\* At every turn of its loop the sweep has made available exactly what was available
\* or is dead among the blocks it has passed; at its end, on the whole page.
THEOREM SweepExactCorrect == PageSpec => []SweepExact
<1>1. IInv => SweepExact
  BY DEF IInv
<1> QED
  BY <1>1, Invariance, PTL

\* The loop of the sweep ends, runs without blocks in the old list included: every
\* turn of it goes on in the page or in the old list, behind neither of which it gets,
\* and nothing else happens to the page before it has ended.
SweepProgress ==
    sweeping /\ sweeping' =>
        /\ bid + reuse < bid' + reuse'
        /\ bid' <= MaxBlocks /\ reuse' <= Len(runs) + 1
        /\ UNCHANGED <<runs, current, bmp, use>>
SweepAdvances == [][SweepProgress]_page_vars

\* Every step while the loop of flush_free_list is under way is a turn that goes on, so
\* that the loop ends.
THEOREM SweepTerminates == PageSpec => SweepAdvances
<1>1. ASSUME IInv, PageNext PROVE SweepProgress
  <2> SUFFICES ASSUME sweeping, sweeping'
               PROVE  /\ bid + reuse < bid' + reuse'
                      /\ bid' <= MaxBlocks /\ reuse' <= Len(runs) + 1
                      /\ UNCHANGED <<runs, current, bmp, use>>
    BY DEF SweepProgress
  <2>1. Numbers /\ PageTypeOK /\ need_flush
    BY <1>1, TypeNumbers DEF IInv, LoopInv
  <2>2. bid \in Nat /\ reuse \in Nat
    BY <2>1 DEF Numbers
  <2>3. PageTypeOK'
    BY <1>1, NextInv DEF IInv
  <2>4. bid' <= MaxBlocks /\ reuse' <= Len(runs') + 1
    BY <2>3, PageAssumption, LenProperties DEF PageTypeOK
  <2>5. CASE SweepReuse
    <3>1. /\ reuse' = reuse + 1 /\ UNCHANGED <<runs, current, bmp, use>>
          /\ runs[reuse].pos = bid /\ reuse <= Len(runs) /\ bid < MaxBlocks
          /\ new_fl' = AddRun(new_fl, bid, runs[reuse].count) /\ bid' = End(new_fl'[Len(new_fl')])
      BY <2>5 DEF SweepReuse, AtReuse, page
    <3>2. reuse \in current .. Len(runs) /\ reuse \in 1 .. Len(runs)
      BY <1>1, <2>1, <3>1 DEF IInv, LoopInv, Numbers
    <3>3. /\ runs[reuse].count \in Nat /\ bid + runs[reuse].count <= MaxBlocks
          /\ bid \in FirstBlock .. MaxBlocks /\ new_fl \in Seq(Runs)
      <4>1. End(runs[reuse]) <= MaxBlocks
        BY <1>1, <3>2 DEF IInv, RunInv, Sorted
      <4> QED
        BY <2>1, <3>1, <3>2, <4>1 DEF Numbers, PageTypeOK
    <3>4. bid' = bid + runs[reuse].count
      BY <1>1, <3>1, <3>3, AddRunList DEF IInv, LoopInv
    <3> QED
      BY <2>2, <2>4, <3>1, <3>3, <3>4
  <2>6. CASE SweepBlock
    <3>1. reuse' = reuse /\ bid' = bid + Stride(bid) /\ UNCHANGED <<runs, current, bmp, use>>
      BY <2>6 DEF SweepBlock
    <3>2. Stride(bid) \in Nat \ {0}
      BY <1>1, <2>6, StrideFree DEF SweepBlock
    <3> QED
      BY <2>2, <2>4, <3>1, <3>2
  <2>7. ~SweepEnd /\ ~flush_free_list /\ ~gc_mark
    BY DEF SweepEnd, flush_free_list, gc_mark
  <2>8. \A n \in 1 .. MaxRequest : ~gc_alloc_fixed_run(n) /\ ~gc_alloc_var(n)
    BY <2>1 DEF gc_alloc_fixed_run, gc_alloc_var
  <2> QED
    BY <1>1, <2>5, <2>6, <2>7, <2>8 DEF PageNext
<1>2. IInv /\ [PageNext]_page_vars => [SweepProgress]_page_vars
  BY <1>1
<1> QED
  BY <1>2, Invariance, PTL DEF PageSpec, SweepAdvances

\* The check of gc_alloc_fixed_run for an empty run never fails.
THEOREM RunNotEmptyCorrect == PageSpec => []RunNotEmpty
<1>1. ASSUME IInv PROVE RunNotEmpty
  <2>1. Numbers
    BY <1>1, TypeNumbers DEF IInv
  <2>2. current <= Len(runs) => current \in current .. Len(runs)
    BY <2>1 DEF Numbers
  <2> QED
    BY <1>1, <2>2 DEF RunNotEmpty, IInv, RunInv, Filled
<1> QED
  BY <1>1, Invariance, PTL

\* gc_allocator_get_block_interior finds every block in use from each address
\* inside it, and nothing on the free list.
THEOREM LookupExactCorrect == PageSpec => []LookupExact
<1>1. ASSUME IInv PROVE LookupExact
  <2> SUFFICES ASSUME var, NEW b \in Bids
               PROVE  /\ \A s \in Bids : b \in Cells(s, use[s]) => Interior(sizes, b) = {s}
                      /\ b \in Covered(runs, current) => Interior(sizes, b) = {}
    BY DEF LookupExact
  <2>1. Numbers /\ PageTypeOK /\ BlockInv /\ UseInv
    BY <1>1, TypeNumbers DEF IInv
  <2>2. b \in Nat /\ FirstBlock \in Nat /\ \A s \in FirstBlock .. b : s \in Bids /\ s \in Nat /\ sizes[s] \in Nat
    <3>1. b \in Nat /\ b < MaxBlocks /\ FirstBlock \in Nat /\ MaxBlocks \in Nat
      BY <2>1 DEF Numbers
    <3>2. \A s \in FirstBlock .. b : s \in Nat /\ FirstBlock <= s /\ s < MaxBlocks
      BY <3>1
    <3> QED
      BY <2>1, <3>1, <3>2 DEF Numbers
  <2>3. ASSUME NEW s \in Bids, b \in Cells(s, use[s]) PROVE Interior(sizes, b) = {s}
    <3>1. s \in Nat /\ use[s] \in Nat /\ FirstBlock <= s
      BY <2>1 DEF Numbers
    <3>2. s <= b /\ b < s + use[s]
      BY <2>3, <3>1 DEF Cells
    <3>3. use[s] = sizes[s] /\ sizes[s] # 0
      BY <2>1, <2>2, <3>1, <3>2 DEF UseInv
    <3>4. ASSUME NEW c \in s + 1 .. b PROVE sizes[c] = 0
      <4>1. c \in FirstBlock .. b /\ s < c /\ c < s + sizes[s]
        BY <2>2, <3>1, <3>2, <3>3
      <4>2. c \in Bids /\ c \in Nat
        BY <2>2, <4>1
      <4>3. sizes[c] # 0 => s + sizes[s] <= c
        BY <2>1, <3>3, <4>1, <4>2 DEF BlockInv
      <4> QED
        BY <3>1, <3>3, <4>1, <4>2, <4>3
    <3>5. s \in FirstBlock .. b /\ b - s < sizes[s]
      BY <2>2, <3>1, <3>2, <3>3
    <3>6. s \in Interior(sizes, b)
      BY <3>3, <3>4, <3>5 DEF Interior, NearestStart
    <3>7. ASSUME NEW t \in Interior(sizes, b) PROVE t = s
      <4>1. t \in FirstBlock .. b /\ sizes[t] # 0 /\ (\A c \in t + 1 .. b : sizes[c] = 0)
        BY <3>7 DEF Interior, NearestStart
      <4>2. t \in Nat /\ ~(s \in t + 1 .. b) /\ ~(t \in s + 1 .. b)
        BY <2>2, <3>3, <3>4, <4>1
      <4> QED
        BY <2>2, <3>1, <3>2, <4>1, <4>2
    <3> QED
      BY <3>6, <3>7
  <2>4. ASSUME b \in Covered(runs, current), NEW s \in Interior(sizes, b) PROVE FALSE
    <3>1. s \in FirstBlock .. b /\ sizes[s] # 0 /\ b - s < sizes[s]
      BY <2>4 DEF Interior, NearestStart
    <3>2. s \in Bids /\ s \in Nat /\ sizes[s] \in Nat /\ s <= b /\ b < s + sizes[s]
      BY <2>2, <3>1
    <3>3. PICK k \in current .. Len(runs) : runs[k].pos <= b /\ b < End(runs[k])
      BY <2>1, <2>4, CoveredRuns
    <3>4. End(runs[k]) <= s \/ s + sizes[s] <= runs[k].pos
      BY <2>1, <3>1, <3>2 DEF BlockInv, Apart
    <3>5. runs[k].pos \in Nat /\ End(runs[k]) \in Nat
      BY <2>1 DEF Numbers
    <3> QED
      BY <2>2, <3>2, <3>3, <3>4, <3>5
  <2> QED
    BY <2>3, <2>4
<1> QED
  BY <1>1, Invariance, PTL
=============================================================================
