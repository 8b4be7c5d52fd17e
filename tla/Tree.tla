-------------------------------- MODULE Tree --------------------------------
(***************************************************************************)
(* The tree dump of tree.c: print_mdoc writes one line per node of an     *)
(* mdoc tree, tab-indented by its depth, with the node's name, its kind   *)
(* and its arguments, then the node's children one level deeper, then its *)
(* later siblings at the same depth.                                      *)
(*                                                                        *)
(* A node is a record [type, tok, args, head, body, str] as the validator *)
(* model builds it: a BLOCK keeps its HEAD and BODY children in head and  *)
(* body, an ELEM or the ROOT its children in body.  The line and column   *)
(* printed after each node (n->line, n->pos) are not modelled: the trees *)
(* carry no source positions.  Neither are TBL nodes and TAIL or          *)
(* body-end parts, which the validator's trees never hold.                *)
(*                                                                        *)
(* print_man dumps a man(7) tree the same way, with no arguments, and a   *)
(* TBL node (a record with one more field, span, the strings of its data *)
(* cells) as the list of its cells in place of name and kind.             *)
(***************************************************************************)
EXTENDS Integers, Sequences, FiniteSets

\* The kind names of the first switch of print_mdoc.
KindName ==
  [ROOT |-> "root", BLOCK |-> "block", HEAD |-> "block-head",
   BODY |-> "block-body", ELEM |-> "elem", TEXT |-> "text"]

\* The HEAD or BODY node of a BLOCK, as n->child and its next see them.
BlockPart(type, n) ==
  [type |-> type, tok |-> n.tok, args |-> <<>>, head |-> <<>>,
   body |-> IF type = "HEAD" THEN n.head ELSE n.body, str |-> ""]

\* n->child and the list of its siblings.
Children(n) ==
  CASE n.type = "BLOCK" -> <<BlockPart("HEAD", n), BlockPart("BODY", n)>>
    [] n.type = "TEXT" -> <<>>
    [] OTHER -> n.body

\* One output line: the indent (tabs), p (the string of a TEXT node, the
\* macro name of the others, "root" for ROOT), t (the kind) and the
\* arguments of an ELEM or BLOCK, each with its number of values.
Line(n, indent) ==
  [indent |-> indent,
   p |-> CASE n.type = "TEXT" -> n.str [] n.type = "ROOT" -> "root" [] OTHER -> n.tok,
   t |-> KindName[n.type],
   args |-> IF n.type \in {"ELEM", "BLOCK"} THEN n.args ELSE <<>>]

\* print_mdoc(n, indent), with ns the list of n and its later siblings: the
\* line of n, then n->child at indent + 1, then n->next at indent.  The
\* mutant prints the siblings one level deeper.
RECURSIVE print_mdoc_nextdeeper(_, _)
print_mdoc_nextdeeper(ns, indent) ==
  IF ns = <<>> THEN <<>>
  ELSE <<Line(Head(ns), indent)>>
       \o print_mdoc_nextdeeper(Children(Head(ns)), indent + 1)
       \o print_mdoc_nextdeeper(Tail(ns), indent + 1)
RECURSIVE print_mdoc(_, _)
print_mdoc(ns, indent) ==
  IF ns = <<>> THEN <<>>
  ELSE <<Line(Head(ns), indent)>>
       \o print_mdoc(Children(Head(ns)), indent + 1)
       \o print_mdoc(Tail(ns), indent)

\* tree_mdoc: the dump of the whole tree from its ROOT.
tree_mdoc(root) == print_mdoc(<<root>>, 0)

\* The kind names of the first switch of print_man: those of mdoc and tbl.
ManKindName ==
  [k \in DOMAIN KindName \cup {"TBL"} |-> IF k = "TBL" THEN "tbl" ELSE KindName[k]]

\* One line of print_man: a node with a span (only TBL has one; its p is
\* NULL, as the assertion requires) prints its data cells, any other node
\* p and its kind.  No arguments, unlike print_mdoc.
ManLine(n, indent) ==
  IF n.type = "TBL"
  THEN [indent |-> indent, p |-> "", t |-> "", span |-> n.span]
  ELSE [indent |-> indent,
        p |-> CASE n.type = "TEXT" -> n.str [] n.type = "ROOT" -> "root" [] OTHER -> n.tok,
        t |-> ManKindName[n.type], span |-> <<>>]

\* print_man(n, indent) over the list of n and its later siblings.  The
\* mutant prints n->child before the line of n.
RECURSIVE print_man_childfirst(_, _)
print_man_childfirst(ns, indent) ==
  IF ns = <<>> THEN <<>>
  ELSE print_man_childfirst(Children(Head(ns)), indent + 1)
       \o <<ManLine(Head(ns), indent)>>
       \o print_man_childfirst(Tail(ns), indent)
RECURSIVE print_man(_, _)
print_man(ns, indent) ==
  IF ns = <<>> THEN <<>>
  ELSE <<ManLine(Head(ns), indent)>>
       \o print_man(Children(Head(ns)), indent + 1)
       \o print_man(Tail(ns), indent)

\* tree_man: the dump of a man(7) tree from its ROOT.
tree_man(root) == print_man(<<root>>, 0)

----------------------------------------------------------------------------
(* The dump as a listing of positions.  A position is the sequence of     *)
(* child indices from the root to a node; the dump lists every position   *)
(* once, a node before its descendants and a subtree before its later     *)
(* siblings, each at the depth of its position.                           *)

RECURSIVE NodeAt(_, _)
NodeAt(n, pos) == IF pos = <<>> THEN n ELSE NodeAt(Children(n)[Head(pos)], Tail(pos))

RECURSIVE Positions(_)
Positions(n) ==
  {<<>>} \cup UNION {{<<i>> \o q : q \in Positions(Children(n)[i])} : i \in DOMAIN Children(n)}

\* a comes before b in document order (a proper prefix, or a smaller index
\* at the first difference).
RECURSIVE Before(_, _)
Before(a, b) ==
  /\ a # b
  /\ \/ a = <<>>
     \/ b # <<>> /\ (Head(a) < Head(b) \/ (Head(a) = Head(b) /\ Before(Tail(a), Tail(b))))

\* The listing of the tree from root, each node written by L(node, depth).
ListingBy(root, L(_, _)) ==
  LET ps == Positions(root)
      rank(p) == Cardinality({q \in ps : Before(q, p)}) + 1
  IN [k \in 1..Cardinality(ps) |->
        LET p == CHOOSE q \in ps : rank(q) = k IN L(NodeAt(root, p), Len(p))]

Listing(root) == ListingBy(root, Line)
============================================================================
