------------------------------- MODULE MCShell -------------------------------
(* Two characters, and a word that stands for "clear", for Shell. *)
EXTENDS Shell

MCChars == {"a", Space}
MCClearWord == <<"a", "a">>

=============================================================================
