---------------------------- MODULE MCClientSession ----------------------------
EXTENDS ClientSession, TLC

Symmetric == Permutations(Tokens) \cup Permutations(Ticks)
===============================================================================
