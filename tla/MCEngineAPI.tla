---------------------------- MODULE MCEngineAPI ----------------------------
(***************************************************************************)
(* Instances of EngineAPI for TLC.  The tree has a fork at its root: a1    *)
(* and a2 on one side, b1 on the other, so that extensions, re-orgs, side  *)
(* forks and missing parents all happen.                                   *)
(***************************************************************************)
EXTENDS EngineAPI, TLC

CONSTANTS g, a1, a2, b1, c1, c2

Symmetry == Permutations(Callers)

TwoBranches == (a1 :> g) @@ (a2 :> a1) @@ (b1 :> g)
FourBlocks == {g, a1, a2, b1}
ThreeBlocks == {g, a1, b1}
TwoLeaves == (a1 :> g) @@ (b1 :> g)

BlockNumber[b \in Blocks] == IF b = g THEN 0 ELSE BlockNumber[Parent[b]] + 1
Ancestors[b \in Blocks] == IF b = g THEN {g} ELSE {b} \cup Ancestors[Parent[b]]

New(b) == [block |-> b]
Choose(b, safe) == [block |-> b, safe |-> safe]

\* every block is offered and chosen; one choice names a safe block of the other branch
AllPayloads == {New(b) : b \in Blocks \ {g}}
AllChoices == {Choose(b, None) : b \in Blocks \ {g}} \cup {Choose(b1, a1)}

\* heads that must be downloaded, and a payload on top of one of them
NoPayloads == {}
Heads == {Choose(b, None) : b \in Blocks \ {g}}
PayloadsA2B1 == {New(a2), New(b1)}
ChoicesA2B1 == {Choose(a2, None), Choose(b1, None)}
PayloadA2 == {New(a2)}
DownloadedHeads == {Choose(a1, None), Choose(b1, a1)}
=============================================================================
