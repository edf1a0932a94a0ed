------------------------------ MODULE MCRouting ------------------------------
(* Every configuration of up to three tokens and three providers; see the *)
(* configurations.                                                        *)
EXTENDS Routing

CONSTANTS m1, m2, i1, i2, k1, k2

UpTo(n, S) == UNION {[1..l -> S] : l \in 0..n}

MCTokenLists == UpTo(3, Token)
MCProviderLists == UpTo(3, Provider)

=============================================================================
