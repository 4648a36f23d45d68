------------------------------ MODULE MCXv6Log -------------------------------
EXTENDS Xv6Log, TLC

Sym == Permutations(Proc)
=============================================================================
