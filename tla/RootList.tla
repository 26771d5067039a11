------------------------------ MODULE RootList ------------------------------
(***************************************************************************)
(* The root registry as its callers see it: an array of registrations. An  *)
(* address may be registered several times; a removal takes the latest one *)
(* in the array and fills the hole with the last entry.                    *)
(***************************************************************************)
EXTENDS Integers, Sequences

CONSTANTS Addrs, Owners, MaxRoots

VARIABLE list       \* sequence of [root, owner]

Init == list = <<>>

Add(a, w) ==
    /\ Len(list) < MaxRoots
    /\ list' = Append(list, [root |-> a, owner |-> w])

Positions(a) == {i \in DOMAIN list : list[i].root = a}

Remove(a) ==
    \E i \in Positions(a) :
        /\ \A j \in Positions(a) : j <= i
        /\ list' = [j \in 1 .. Len(list) - 1 |-> IF j = i THEN list[Len(list)] ELSE list[j]]

Next == \E a \in Addrs : Remove(a) \/ \E w \in Owners : Add(a, w)

Spec == Init /\ [][Next]_list
=============================================================================
