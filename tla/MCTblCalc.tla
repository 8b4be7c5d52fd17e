------------------------------ MODULE MCTblCalc ------------------------------
(***************************************************************************)
(* Tables for checking the column solver.  Each family is small enough to *)
(* enumerate and chosen so that one part of tblcalc meets its edge cases. *)
(***************************************************************************)
EXTENDS TblSolve

(* A data cell in column col whose layout cell has the given position,    *)
(* flags and width; its spacing is unset.                                 *)
Cell(col, pos, flags, width, str, block, hspans) ==
  [layout |-> [col |-> col, pos |-> pos, flags |-> flags, width |-> width,
               spacing |-> SIZE_MAX],
   hspans |-> hspans, string |-> str, block |-> block]

Data(cells) == [pos |-> "DATA", cells |-> cells]

Table(spans, cols, box, lvert, offset, rmargin) ==
  [spans |-> spans,
   opts |-> [cols |-> cols, box |-> box, lvert |-> lvert, rvert |-> 0],
   offset |-> offset, rmargin |-> rmargin]

Xs(n) == [i \in 1 .. n |-> "x"]

(* EQUAL and WMAX in every combination over up to three columns of        *)
(* different widths, with and without a right margin.                     *)
FlagChoices == SUBSET {"EQUAL", "WMAX"}
Mixed ==
  UNION {{Table(<<Data([i \in 1 .. n |->
                         Cell(i - 1, "LEFT", fl[i], 0, Xs(w[i]), FALSE, 1)])>>,
                n, "NONE", 0, off, rm) :
          fl \in [1 .. n -> FlagChoices], w \in [1 .. n -> {1, 4}],
          off \in {0, 2}, rm \in {0, 16}} :
         n \in 1 .. 3}

(* Four to six WMAX columns of empty cells, with every line width up to   *)
(* that of spec scenario 4, framed and unframed: every residue of the    *)
(* five-column quirk, and the give-up case.                               *)
Wide ==
  {Table(<<Data([i \in 1 .. n |-> Cell(i - 1, "LEFT", {"WMAX"}, 0, <<>>,
                                       FALSE, 1)])>>,
         n, box, 0, 0, rm) :
   n \in 4 .. 6, box \in {"NONE", "BOX"}, rm \in 10 .. 84}

(* One NUMBER column: two numbers over digits, the decimal character and *)
(* other characters, then a literal row that may be wider.                *)
NumStrs == UNION {[1 .. k -> {"d", "p", "x"}] : k \in 0 .. 3}
Numbers2 ==
  {Table(<<Data(<<Cell(0, "NUMBER", {}, 0, s1, FALSE, 1)>>),
           Data(<<Cell(0, "NUMBER", {}, 0, s2, FALSE, 1)>>),
           Data(<<Cell(0, "LEFT", {}, 0, Xs(w), FALSE, 1)>>)>>,
         1, "NONE", 0, 0, 0) :
   s1 \in NumStrs, s2 \in NumStrs, w \in {0, 4}}

(* Three columns, two rows, each row spanning in one of four ways; one    *)
(* column to maximize.                                                    *)
Row(h) == Data([i \in 1 .. Len(h) |->
                  Cell(i - 1, "LEFT", {}, 0, Xs(2), FALSE, h[i])])
RowShapes == {<<1, 1, 1>>, <<2, 1, 1>>, <<1, 2, 1>>, <<3, 1, 1>>}
WithWmax(t, c) ==
  [t EXCEPT !.spans = [j \in DOMAIN @ |->
     [@[j] EXCEPT !.cells = [k \in DOMAIN @ |->
        IF k = c + 1 THEN [@[k] EXCEPT !.layout.flags = {"WMAX"}]
        ELSE @[k]]]]]
Spanned ==
  {WithWmax(Table(<<Row(h1), Row(h2)>>, 3, "NONE", 1, 0, rm), c) :
   h1 \in RowShapes, h2 \in RowShapes, c \in 0 .. 2, rm \in {0, 20}}

(* One block cell, wrapped at its layout width, at the share of the line *)
(* tblcalc derives from rmargin, or not at all.                           *)
BlockStrs == UNION {[1 .. k -> {"x", " "}] : k \in 0 .. 6}
Blocks ==
  {Table(<<Data(<<Cell(0, "LEFT", {}, lw, s, TRUE, 1)>>)>>,
         1, "NONE", 0, 0, rm) :
   s \in BlockStrs, lw \in {0, 3}, rm \in {0, 8}}

(* Spec section 8, scenario 4: five WMAX columns on an 84-unit line.     *)
Scenario4 ==
  {Table(<<Data([i \in 1 .. 5 |-> Cell(i - 1, "LEFT", {"WMAX"}, 0, <<>>,
                                       FALSE, 1)])>>,
         5, "NONE", 0, 0, 84)}

(* The inputs of the passing run.  Scenario 4 is among them: its WMAX    *)
(* widths sum to avail = 72, where the spec's scenario gives 71.        *)
MCInputs == Mixed \cup Wide \cup Numbers2 \cup Spanned \cup Blocks \cup Scenario4

(* The tables whose last columns are reached only through spans.          *)
SpannedOnly == Spanned

====
