------------------------------ MODULE AddressMap ------------------------------
(***************************************************************************)
(* What map_page and unmap_page promise: a map from virtual pages to frames*)
(* of which each call changes the one page it names.                       *)
(***************************************************************************)
CONSTANTS VirtualPages, Frames
VARIABLE map

Init == map = [v \in {} |-> 0]

Same(pages) == \A v \in pages : map'[v] = map[v]

Map(v) ==
  /\ DOMAIN map' = DOMAIN map \cup {v}
  /\ map'[v] \in Frames /\ Same(DOMAIN map \ {v})
Unmap(v) ==
  /\ v \in DOMAIN map
  /\ DOMAIN map' = DOMAIN map \ {v} /\ Same(DOMAIN map')

Next == \E v \in VirtualPages : Map(v) \/ Unmap(v)

Spec == Init /\ [][Next]_map

=============================================================================
