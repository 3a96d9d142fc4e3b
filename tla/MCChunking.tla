----------------------------- MODULE MCChunking -----------------------------
(* Chunking has no model values; its bounds are in Chunking.cfg. *)
EXTENDS Chunking
=============================================================================
