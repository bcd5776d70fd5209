----------------------------- MODULE MCDownload -----------------------------
(* Download for TLC: two torrents of two chunks, and two devices. *)
EXTENDS Download

CONSTANTS t1, t2, c1, c2, d1, d2

MCTorrents == {t1, t2}
MCChunks == {c1, c2}
MCDevices == {d1, d2}
OneDevice == {d1}
First == {t1}
Second == {t2}
=============================================================================
