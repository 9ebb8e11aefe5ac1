------------------------ MODULE MCRerankerLifecycle ------------------------
(* Small instances of RerankerLifecycle for TLC. *)
EXTENDS RerankerLifecycle
=============================================================================
