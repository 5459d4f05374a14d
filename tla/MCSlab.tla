-------------------------------- MODULE MCSlab --------------------------------
(* Pages of eight units and kmalloc slabs for objects of two and four. *)
EXTENDS Slab

MCSizes == <<2, 4>>

=============================================================================
