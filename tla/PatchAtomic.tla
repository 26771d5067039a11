---------------------------- MODULE PatchAtomic ----------------------------
(***************************************************************************)
(* What the running program may see of live patching: a patch replaces    *)
(* the code of its functions, extends the tables of the module and        *)
(* initialises the instance in one step, or does nothing at all. It does  *)
(* nothing as long as the program holds a closure of a function that the  *)
(* patch drops. Only the name of a field it brings may be listed early.   *)
(***************************************************************************)
EXTENDS Naturals, Sequences

CONSTANTS
    Tables,     \* the tables a patch may append to, "functions" among them
    First,      \* how many entries each table has when the module is loaded
    Shapes      \* what a patch may hold: [slots, adds, guards, migrates]

VARIABLES
    module,     \* [revision, code, rows, listed, report]: what threads run and read
    instance,   \* 0: none, or the revision whose fields the instance has
    closures    \* the functions of which the program has stored a closure

avars == <<module, instance, closures>>

LoadedModule ==
    [revision |-> 1,
     code     |-> [s \in 1..First["functions"] |-> 1],
     rows     |-> [a \in Tables |-> [i \in 1..First[a] |-> 1]],
     listed   |-> 1..First["fields"],
     report   |-> "none"]

AtomicInit ==
    /\ module = LoadedModule
    /\ instance = 0
    /\ closures = {}

\* The module m after a patch of shape p with the given migration report.
Patched(m, p, report) ==
    LET r == m.revision + 1
        Extended(q, a) == IF a \in p.adds THEN Append(q, r) ELSE q
    IN [revision |-> r,
        code     |-> Extended([s \in DOMAIN m.code |->
                        IF s \in p.slots THEN r ELSE m.code[s]], "functions"),
        rows     |-> [a \in Tables |-> Extended(m.rows[a], a)],
        listed   |-> 1..Len(Extended(m.rows["fields"], "fields")),
        report   |-> report]

\* The instance is initialised for the new fields before anything runs, or
\* the caller is told that an initializer has thrown.
Install(p) ==
    /\ p.guards \cap closures = {}
    /\ IF p.migrates /\ instance # 0
       THEN \/ module' = Patched(module, p, "none") /\ instance' = module.revision + 1
            \/ module' = Patched(module, p, "failed") /\ UNCHANGED instance
       ELSE module' = Patched(module, p, "none") /\ UNCHANGED instance
    /\ UNCHANGED closures

\* A new attempt forgets what the last one reported; one that is refused says
\* so, takes back the field it has listed and changes nothing else.
Attempt ==
    /\ \E r \in {"none", "refused"} :
         module' = [module EXCEPT !.report = r, !.listed = 1..Len(module.rows["fields"])]
    /\ UNCHANGED <<instance, closures>>

\* An attempt that has not been refused may list its field before it is applied.
Announce ==
    /\ module.report = "none"
    /\ module' = [module EXCEPT !.listed = 1..Len(module.rows["fields"]) + 1]
    /\ UNCHANGED <<instance, closures>>

\* The program makes and drops an instance and closures; a constructor
\* initialises every field that its revision knows.
Construct == instance = 0 /\ instance' = module.revision /\ UNCHANGED <<module, closures>>
Drop      == instance # 0 /\ instance' = 0 /\ UNCHANGED <<module, closures>>
Store     ==
    /\ \E s \in 1..First["functions"] : closures' \in {closures \cup {s}, closures \ {s}}
    /\ UNCHANGED <<module, instance>>

AtomicNext == Attempt \/ Announce \/ Construct \/ Drop \/ Store \/ \E p \in Shapes : Install(p)

AtomicSpec == AtomicInit /\ [][AtomicNext]_avars
=============================================================================
