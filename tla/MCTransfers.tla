----------------------------- MODULE MCTransfers -----------------------------
(* One branch for TLC, top/a/b and below it the file f, or c and then f. *)
EXTENDS Transfers

Chain == <<Top, "a", "b", "c", "f">>
Branch == SelectSeq(Chain, LAMBDA p : p \in Paths)
Rank(p) == CHOOSE i \in 1..Len(Branch) : Branch[i] = p
MCParent == [p \in Paths \ {Top} |-> Branch[Rank(p) - 1]]
MCAbove == [p \in Paths |-> {Branch[i] : i \in 1..(Rank(p) - 1)}]
=============================================================================
