------------------------------ MODULE MCPhysMem ------------------------------
(* A small memory map for PhysMem: a bitmap of two four-bit words. *)
EXTENDS PhysMem

MCUsableLow   == {1, 2, 3, 5, 6}
MCBootStack   == <<10, 9, 8>>

=============================================================================
