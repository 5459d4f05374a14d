------------------------------- MODULE MCVmem -------------------------------
(* Five pages of kernel virtual area in front of the pageinfo area. *)
EXTENDS Vmem

Flags == {3, 7}

=============================================================================
