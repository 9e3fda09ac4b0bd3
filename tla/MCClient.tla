------------------------------- MODULE MCClient -------------------------------
(***************************************************************************)
(* The graphs of MCLangGraphWorkflow, under a client.                      *)
(***************************************************************************)
EXTENDS MCLangGraphWorkflow, Client
=============================================================================
