----------------------------- MODULE MCPackage -----------------------------
(***************************************************************************)
(* Chunking and Packaging for TLC.  The two share no variable, so that a   *)
(* behaviour of both is one of each: here either moves while the other     *)
(* is at rest in its initial states.                                       *)
(***************************************************************************)
EXTENDS Chunking, Packaging

PackageSizes == {1, 4, 5, 7}
MCOwn == {"a"}
MCDownloads == {"d"}

Init == ChunkInit /\ PackInit

ChunksMove == PackInit /\ ChunkNext /\ UNCHANGED packVars
PackagesMove == ChunkInit /\ PackNext /\ UNCHANGED chunkVars

Next == ChunksMove \/ PackagesMove
Spec == Init /\ [][Next]_<<chunkVars, packVars>>

TypeOK == ChunkTypeOK /\ PackTypeOK
=============================================================================
