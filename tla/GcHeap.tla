------------------------------- MODULE GcHeap -------------------------------
(***************************************************************************)
(* What a collector promises to the program: blocks are handed out while   *)
(* nothing refers to them, the program alone changes its references, and   *)
(* whatever is reclaimed is out of its reach. GcIncremental implements     *)
(* this specification.                                                     *)
(***************************************************************************)
EXTENDS Integers, FiniteSets

CONSTANTS
    Objects,        \* blocks of the heap
    NFields,        \* words of a block
    Null            \* no block

VARIABLES
    allocated,      \* blocks handed out and not reclaimed
    fields,         \* fields[o][i]: word i of block o
    roots           \* blocks that stacks, registers and root addresses show

heap == <<allocated, fields, roots>>

Fields == 1 .. NFields
Empty == [i \in Fields |-> Null]

\* A set of blocks that holds the roots and is closed under references.
Closed(S) == roots \subseteq S /\ \A o \in S, i \in Fields : fields[o][i] \in S \cup {Null}

\* The blocks the program can still use: those no closed set can do without.
Reach == {o \in Objects : \A S \in SUBSET (Objects \ {o}) : ~Closed(S)}

Init == allocated = {} /\ fields = [o \in Objects |-> Empty] /\ roots = {}

\* The heap after `dead` is reclaimed and, unless Null, o is handed out. What a
\* free block contains is not modelled.
Reclaim(dead, o) ==
    /\ allocated' = (allocated \ dead) \cup ({o} \ {Null})
    /\ fields' = [x \in Objects |-> IF x \in dead \cup {o} THEN Empty ELSE fields[x]]
    /\ roots' = roots \cup ({o} \ {Null})

Write(o, i, v) ==
    /\ fields' = [fields EXCEPT ![o][i] = v]
    /\ UNCHANGED <<allocated, roots>>

Load(o, i) ==
    /\ fields[o][i] # Null
    /\ roots' = roots \cup {fields[o][i]}
    /\ UNCHANGED <<allocated, fields>>

Drop(o) ==
    /\ roots' = roots \ {o}
    /\ UNCHANGED <<allocated, fields>>

\* The program's own steps use only what it holds.
Program ==
    \/ \E o \in roots, i \in Fields, v \in roots \cup {Null} : Write(o, i, v)
    \/ \E o \in roots, i \in Fields : Load(o, i)
    \/ \E o \in roots : Drop(o)

\* A block is handed out, or garbage is collected, or both.
Collect ==
    \E dead \in SUBSET (Objects \ Reach), o \in (Objects \ Reach) \cup {Null} : Reclaim(dead, o)

Next == Program \/ Collect

\* A step that shows is one of these.
Step == heap' # heap /\ Next

Spec == Init /\ [][Step]_heap
=============================================================================
