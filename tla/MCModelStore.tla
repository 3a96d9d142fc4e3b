---------------------------- MODULE MCModelStore ----------------------------
(* The instance of ModelStore that TLC checks. *)
EXTENDS ModelStore, TLC

CONSTANTS qwen, bge, own, d1, d2, qwenFile, bgeFile, ownFile

MCSpecOf == [f \in Files |-> CASE f = qwenFile -> qwen [] f = bgeFile -> bge [] OTHER -> own]

\* ownFile lies in a folder of embedding models.
MCKindOf == [f \in Files |-> IF f = qwenFile THEN "llm" ELSE "embedding"]

MCLocalFile == qwen :> qwenFile @@ bge :> bgeFile
MCUpstream  == qwen :> d1 @@ bge :> d2
=============================================================================
