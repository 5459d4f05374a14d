------------------------------- MODULE MCPaging -------------------------------
(* The pages of the kernel virtual area have a PML4 entry of their own;     *)
(* device pages share tables with the direct map at every level.            *)
EXTENDS Paging, TLC

MCAnonymous == {<<1, 0, 0, 0>>, <<1, 0, 0, 1>>, <<1, 0, 1, 0>>, <<1, 1, 0, 0>>}
MCDevice    == {<<0, 0, 0, 1>>, <<0, 0, 1, 0>>, <<0, 0, 2, 0>>}
MCEarly     == {<<0, 0, 0, 0>>, <<0, 1, 0, 0>>}
MCFrameOf   == (<<0, 0, 0, 1>> :> 101) @@ (<<0, 0, 1, 0>> :> 102)
               @@ (<<0, 0, 2, 0>> :> 103) @@ (<<0, 0, 0, 0>> :> 104)
               @@ (<<0, 1, 0, 0>> :> 105)
MCReleased   == MCAnonymous \cup MCDevice \cup {<<0, 0, 0, 0>>}
MCBootFrames == 1 .. 12

=============================================================================
