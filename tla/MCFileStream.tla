---------------------------- MODULE MCFileStream ----------------------------
(***************************************************************************)
(* FileStream on a three byte entry with requests of at most two bytes:    *)
(* short reads, an entry written in several chunks and a reader that is    *)
(* behind, at and (after a swallowed data error) beyond the end of the     *)
(* file all occur.                                                         *)
(***************************************************************************)
EXTENDS FileStream

MCSize     == 3
MCMaxChunk == 2
=============================================================================
