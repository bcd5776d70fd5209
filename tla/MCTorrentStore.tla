--------------------------- MODULE MCTorrentStore ---------------------------
(* TorrentStore for TLC: torrents of two pieces, one of them created here. *)
EXTENDS TorrentStore

MCContents == {1, 2}
MoreContents == {1, 2, 3}
First == {1}
Second == {2}
Third == {3}
=============================================================================
