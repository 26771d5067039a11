----------------------------- MODULE MCHlPatch -----------------------------
(* HlPatch with tables that fill up and patches of every kind.             *)
EXTENDS HlPatch, TLC

CONSTANTS t1, t2, r1, Room

MCTables   == {"types", "fields", "functions", "globals"}
MCFirst    == [a \in MCTables |-> IF a = "functions" THEN 2 ELSE 1]
MCCapacity == [a \in MCTables |-> MCFirst[a] + Room]

Symmetric  == Permutations({t1, t2})

Shape(slots, adds, guards, migrates) ==
    [slots |-> slots, adds |-> adds, guards |-> guards, migrates |-> migrates]

\* One that redefines everything, one that drops function 2 and adds a class
\* and a field to initialise, one that adds a function and its global.
AllShapes == {Shape({1, 2}, {}, {}, FALSE),
              Shape({1}, {"types", "fields"}, {2}, TRUE),
              Shape({2}, {"functions", "globals"}, {}, FALSE)}
=============================================================================
