--------------------------- MODULE MCDocumentSync ---------------------------
(***************************************************************************)
(* DocumentSync for TLC: a project with a definition in a definition.        *)
(***************************************************************************)
EXTENDS DocumentSync
=============================================================================
