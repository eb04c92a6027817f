-------------------------- MODULE MCExtractPrompt --------------------------
(***************************************************************************)
(* Three sessions, two of them on one archive: a name can be listed twice, *)
(* and the two archives can be listed in either order.                     *)
(***************************************************************************)
EXTENDS ExtractPrompt

CONSTANTS s1, s2, s3

TwoArchives == (s1 :> 1) @@ (s2 :> 2) @@ (s3 :> 1)
=============================================================================
