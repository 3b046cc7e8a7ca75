----------------------- MODULE MCJsonFileArtifactStore -----------------------
(* A small instance of the filesystem artifact store that crashes and whose      *)
(* files fail.                                                                *)
EXTENDS JsonFileArtifactStore

CONSTANTS t1, t2, h1, h2, small, large

Sizes == [c \in Content |-> IF c = small THEN 1 ELSE 2]
NoScrub == [c \in Content |-> c]
=============================================================================
