--------------------------- MODULE MCArchiveEntry ---------------------------
(***************************************************************************)
(* ArchiveEntry on a two byte entry: partial extraction, reads that want   *)
(* more than is left, offsets before, at and beyond the end, cached and    *)
(* fresh, encrypted and plain, with and without a password handler.        *)
(***************************************************************************)
EXTENDS ArchiveEntry

MCSize    == 2
MCMaxRead == 3
MCTimeout == 2
=============================================================================
