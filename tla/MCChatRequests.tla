--------------------------- MODULE MCChatRequests ---------------------------
(* The instances of ChatRequests that TLC checks. *)
EXTENDS ChatRequests, TLC

CONSTANTS small, large, few, narrow, tight

\* A small and a large model.
ModelSize == (small :> 1) @@ (large :> 2)

\* One workspace for each quota that two requests can exceed: the number of
\* requests, of models, and the memory of both models.
WorkspaceQuota ==
    (few    :> [concurrent |-> 1, models |-> 2, memory |-> 3]) @@
    (narrow :> [concurrent |-> 2, models |-> 1, memory |-> 3]) @@
    (tight  :> [concurrent |-> 2, models |-> 2, memory |-> 2])
=============================================================================
