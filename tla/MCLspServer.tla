----------------------------- MODULE MCLspServer -----------------------------
(***************************************************************************)
(* One or two files and a handful of messages.                             *)
(***************************************************************************)
EXTENDS LspServer
=============================================================================
