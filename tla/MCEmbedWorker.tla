--------------------------- MODULE MCEmbedWorker ---------------------------
(* A small instance of EmbedWorker for TLC. *)
EXTENDS EmbedWorker
=============================================================================
