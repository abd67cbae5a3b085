----------------------------- MODULE MCPrintQueue -----------------------------
(* Instances of PrintQueue for TLC: every agent serves the one printer d1.   *)
EXTENDS PrintQueue

CONSTANTS d1, a1, a2, k1, k2, k3, k4, k5, k6, k7

OnePrinter == [a \in Agents |-> d1]

Symmetric == Permutations(Agents)

=============================================================================
