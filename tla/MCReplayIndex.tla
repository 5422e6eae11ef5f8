---------------------------- MODULE MCReplayIndex ----------------------------
(* Small parent block trees for ReplayIndex.                               *)
(*                                                                         *)
(*   g - c - a1 - a2 - a3      c is the launch checkpoint;                 *)
(*    \    \                   x forks off below it.                       *)
(*     x    b1 - b2                                                        *)
EXTENDS ReplayIndex

CONSTANTS g, x, c, a1, a2, a3, b1, b2, d1, d2, m1

Tree == {g, x, c, a1, a2, a3, b1, b2}
TreeParent == [b \in Tree |->
  CASE b = g -> Null [] b \in {x, c} -> g [] b \in {a1, b1} -> c
    [] b = a2 -> a1 [] b = a3 -> a2 [] b = b2 -> b1]
TreeHeight == [b \in Tree |->
  CASE b = g -> 0 [] b \in {x, c} -> 1 [] b \in {a1, b1} -> 2
    [] b \in {a2, b2} -> 3 [] b = a3 -> 4]
TreeChain == [b \in Tree |->
  CASE b = g -> {g} [] b = x -> {g, x} [] b = c -> {g, c}
    [] b = a1 -> {g, c, a1} [] b = a2 -> {g, c, a1, a2}
    [] b = a3 -> {g, c, a1, a2, a3}
    [] b = b1 -> {g, c, b1} [] b = b2 -> {g, c, b1, b2}]

\* d1 is confirmed on both branches, d2 on one.
TreeDeposits == [b \in Tree |->
  CASE b \in {a2, b1} -> {d1} [] b = b2 -> {d2} [] OTHER -> {}]
TreeActivated == {a2, a3, b1, b2}
\* m1 is paid on both branches, on one of them twice.
TreePayments == [b \in Tree |-> IF b \in {a1, a3, b2} THEN {m1} ELSE {}]
TreeProposals == [b \in Tree |-> IF b = a2 THEN {m1} ELSE {}]
=============================================================================
