--------------------------- MODULE MCNotionIndex ---------------------------
(* Two pages, a block that may move between them, and requests for one     *)
(* page, two pages, or the whole workspace.  Page A has a text that is too *)
(* long for a chunk, a reference to another page, and, on the second page  *)
(* of its listing, x: a toggle with texts below it.  Page B ends with a    *)
(* heading, a blank block and texts.                                       *)
EXTENDS NotionReader, TLC

CONSTANTS A, B, x, long, subpage, head, tail

MCHome == [b \in Blocks |-> A]
Symmetry == Permutations(Runs)
MCOrders == {<<A>>, <<A, B>>, <<B, A>>}
MCSearchResults == {<<A, B, A>>, <<B, A>>}

MCLayout == (A :> <<long, subpage, x>>) @@ (B :> <<x, head, tail>>)

At(depth, type, len) == [type |-> type, len |-> len, depth |-> depth]

MCLines ==
  (long :> <<At(0, "paragraph", 6)>>)
    @@ (subpage :> <<At(0, "child_page", 1), At(1, "paragraph", 1)>>)
    @@ (x :> <<At(0, "toggle", 2), At(1, "paragraph", 2), At(1, "toggle", 0), At(2, "paragraph", 1),
               At(1, "link_to_page", 1), At(2, "paragraph", 1), At(1, "paragraph", 1)>>)
    @@ (head :> <<At(0, "heading_1", 2)>>)
    @@ (tail :> <<At(0, "divider", 0), At(1, "paragraph", 2), At(1, "paragraph", 2)>>)
==============================================================================
