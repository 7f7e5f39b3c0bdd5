------------------------- MODULE MCDaemonLifecycle -------------------------
\* DaemonLifecycle with interchangeable daemons and starters.
EXTENDS DaemonLifecycle, TLC

Interchangeable == Permutations(Daemon) \union Permutations(Starter)
============================================================================
