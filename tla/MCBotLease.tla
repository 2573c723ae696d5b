----------------------------- MODULE MCBotLease -----------------------------
EXTENDS BotLease, TLC

Symmetry == Permutations(Gateway)
=============================================================================
