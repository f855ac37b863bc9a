--------------------------- MODULE MCInboxPipeline ---------------------------
(***************************************************************************)
(* InboxPipeline on two inbox rows.                                        *)
(***************************************************************************)
EXTENDS InboxPipeline, TLC

CONSTANTS e1, e2, id1, id2, u1, u2

(* Two events of one application.                                          *)
OwnIds == (e1 :> id1) @@ (e2 :> id2)

OneLane == (e1 :> u1) @@ (e2 :> u1)

Interchangeable == Permutations(Tokens) \cup Permutations(Workers)
=============================================================================
