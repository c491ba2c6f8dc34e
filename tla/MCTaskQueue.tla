----------------------------- MODULE MCTaskQueue -----------------------------
EXTENDS TaskQueue, TLC

CONSTANTS h1, h2

Alike == Permutations({h1, h2})
=============================================================================
