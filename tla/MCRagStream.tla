----------------------------- MODULE MCRagStream -----------------------------
(* RagStream on small instances. *)
EXTENDS RagStream, TLC
=============================================================================
