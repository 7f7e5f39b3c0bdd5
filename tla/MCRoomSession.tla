---------------------------- MODULE MCRoomSession ----------------------------
EXTENDS RoomSession, TLC

Interchangeable == Permutations(Peer)
=============================================================================
