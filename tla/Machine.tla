------------------------------- MODULE Machine -------------------------------
(***************************************************************************)
(* What the initialisation of the kernel, kinit in kernel/src/init.c, is   *)
(* given and how far it has come.  A machine is a record of what firmware, *)
(* boot loader and devices present; each module that extends this one      *)
(* reads its own fields of it.  stage names the function that kinit is in. *)
(***************************************************************************)
EXTENDS Integers, Sequences, FiniteSets

CONSTANT Machines   \* the machines the kernel is started on

VARIABLES
  machine,   \* the one it was started on
  stage      \* where kinit is, or why it came to a stop

At(s) == stage = s
Go(s) == stage' = s

\* panic, a fault that no handler resolves, or a loop without an end.
Stops == {"panic", "page_fault", "endless"}

Smaller(a, b) == IF a < b THEN a ELSE b
Larger(a, b)  == IF a > b THEN a ELSE b

=============================================================================
