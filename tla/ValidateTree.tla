---------------------------- MODULE ValidateTree ----------------------------
(***************************************************************************)
(* The validator and the tree dump together, as the front end runs them:  *)
(* the parser builds a document and calls the validator on each node;     *)
(* when the whole document parsed and validated, the output function of   *)
(* the -Ttree front end, tree_mdoc, dumps the tree.  A document the walk  *)
(* rejected is never handed to the output function.  The tree the dump    *)
(* sees is the validated one: ROOT and its children, the prologue macros  *)
(* taken out.                                                             *)
(*                                                                        *)
(* The front end's tree_man dumps a man(7) tree the same way.  The man   *)
(* parser is not modelled: ManDocs are the trees it hands over, and the  *)
(* dump of one of them is a step of its own, with no order to the mdoc  *)
(* file assumed.                                                          *)
(***************************************************************************)
EXTENDS Validate, Tree

CONSTANT ManDocs

VARIABLES out, man, manout

tvars == <<vars, out, man, manout>>

\* The tree after the walk (the ROOT node of Events).
RootNode(d) == Node("ROOT", "", <<>>, <<>>, SelectSeq(d, LAMBDA n : ~IsPrologue(n)), "")

\* The front end calls tree_mdoc once, on a document that validated.
Output ==
  /\ Verdict = "accept"
  /\ out = <<>>
  /\ out' = tree_mdoc(RootNode(doc))
  /\ UNCHANGED <<vars, man, manout>>

\* The front end calls tree_man once, on a man(7) tree the parser built.
OutputMan ==
  /\ manout = <<>>
  /\ \E t \in ManDocs : man' = t /\ manout' = tree_man(t)
  /\ UNCHANGED <<vars, out>>

TreeInit == Init /\ out = <<>> /\ man = <<>> /\ manout = <<>>

TreeNext == (Next /\ UNCHANGED <<out, man, manout>>) \/ Output \/ OutputMan

TreeSpec == TreeInit /\ [][TreeNext]_tvars /\ Fairness

----------------------------------------------------------------------------

\* print_mdoc's recursion, child at indent + 1 and next at indent, writes
\* every node of the validated tree exactly once, each after its parent
\* and before its later siblings, indented by its depth: the dump is the
\* tree's listing in document order.
TreeListing == out # <<>> => out = Listing(RootNode(doc))

\* print_man, like print_mdoc, writes every node of the man(7) tree once
\* in document order at the depth of its node, a TBL node as its data
\* cells: the dump is the listing of the page read.
ManTreeListing == manout # <<>> => manout = ListingBy(man, ManLine)

============================================================================
