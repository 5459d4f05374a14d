------------------------------ MODULE AddrSpace ------------------------------
(***************************************************************************)
(* What the virtual allocator promises (kernel/include/kernel/vmem.h): an   *)
(* allocation is a run of pages of which none was allocated, all with the   *)
(* flags asked for; a free takes back exactly the pages named.              *)
(***************************************************************************)
EXTENDS Integers

CONSTANTS VirtPages,  \* the pages of the kernel virtual area
          FlagSets    \* the flags an allocation may have

VARIABLE owner        \* the flags of every allocated page

Owned == DOMAIN owner
Run(addr, n) == addr .. addr + n - 1

Init == owner = [p \in {} |-> 0]

Alloc(run, f) ==
  /\ run \cap Owned = {}
  /\ owner' = [p \in Owned \cup run |-> IF p \in run THEN f ELSE owner[p]]

Free(run) ==
  /\ run \subseteq Owned
  /\ owner' = [p \in Owned \ run |-> owner[p]]

Next ==
  \E first, last \in VirtPages :
    /\ first <= last
    /\ \/ \E f \in FlagSets : Alloc(first .. last, f)
       \/ Free(first .. last)

Spec == Init /\ [][Next]_owner

=============================================================================
