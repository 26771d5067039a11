-------------------------- MODULE MCGcMarkThreads --------------------------
(* A fan, a diamond that leads back to its top, and a chain. *)
EXTENDS GcMarkThreads, TLC

CONSTANTS a, b, c, d, e

Fan     == (a :> {b, c, d}) @@ (b :> {a}) @@ (c :> {e}) @@ (d :> {b}) @@ (e :> {})
Diamond == (a :> {b, c}) @@ (b :> {d}) @@ (c :> {d}) @@ (d :> {a, e}) @@ (e :> {})
Chain   == (a :> {b}) @@ (b :> {c}) @@ (c :> {d}) @@ (d :> {e}) @@ (e :> {})

MCGraphs == {Fan, Diamond, Chain}
=============================================================================
