--------------------------- MODULE MCHookDelivery ---------------------------
\* HookDelivery with interchangeable hooks and rooms.
EXTENDS HookDelivery, TLC

Interchangeable == Permutations(Hook) \union Permutations(Room)
=============================================================================
