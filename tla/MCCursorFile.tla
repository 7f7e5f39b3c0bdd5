---------------------------- MODULE MCCursorFile ----------------------------
\* CursorFile with interchangeable processes, inodes and ids.
EXTENDS CursorFile, TLC

Interchangeable ==
    Permutations(Proc) \union Permutations(Inode) \union Permutations(Id)
=============================================================================
