--------------------------- MODULE MCProfRecorder ---------------------------
(* A thread that records beside one that records less, or only pauses. *)
EXTENDS ProfRecorder

CONSTANTS t1, t2

Records(m, n) == (t1 :> m) @@ (t2 :> n)
OneOne    == Records(1, 1)
TwoNone   == Records(2, 0)
ThreeNone == Records(3, 0)
ThreeOne  == Records(3, 1)
=============================================================================
