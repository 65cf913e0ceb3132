------------------------------ MODULE MCScopes ------------------------------
(***************************************************************************)
(* Scopes, for TLC: a variable, which some file's imports bind, and an     *)
(* error declared beside it.                                               *)
(***************************************************************************)
EXTENDS Scopes

MCLists == {<<"x">>, <<"_">>, <<"x", "x">>, <<"x", "err">>, <<"err", "_">>}
MCErrNames == {"err"}
MCImportedNames == {{}, {"x"}}
=============================================================================
