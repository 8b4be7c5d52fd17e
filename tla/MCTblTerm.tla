------------------------------ MODULE MCTblTerm ------------------------------
(***************************************************************************)
(* Documents for checking the table renderer: two tables one after the   *)
(* other, drawn from three shapes with every frame and centring option   *)
(* and vertical rules that differ from one layout row to the next.       *)
(***************************************************************************)
EXTENDS TblTerm

Cell(col, pos, flags, str) ==
  [layout |-> [col |-> col, pos |-> pos, flags |-> flags, width |-> 0,
               spacing |-> SIZE_MAX],
   hspans |-> 1, string |-> str, block |-> FALSE]

Data(cells) == [pos |-> "DATA", cells |-> cells]
Rule == [pos |-> "HORIZ", cells |-> <<>>]

(* A layout row's rule counts: left of the first cell, right of each.    *)
L(vert, cellvert) == [vert |-> vert, cellvert |-> cellvert]

(* The layout rows of the first, second and third span for each frame:  *)
(* rules that widen, narrow, appear and vanish from one row to the next. *)
Layouts(frame) ==
  CASE frame = "none"  -> <<L(0, <<0, 0>>), L(0, <<0, 0>>), L(0, <<0, 0>>)>>
    [] frame = "left"  -> <<L(1, <<1, 0>>), L(0, <<0, 0>>), L(0, <<1, 0>>)>>
    [] frame = "right" -> <<L(0, <<0, 0>>), L(0, <<1, 1>>), L(0, <<0, 1>>)>>
    [] OTHER           -> <<L(0, <<2, 0>>), L(0, <<0, 0>>), L(0, <<1, 0>>)>>

(* The options the parser derives: lvert and rvert are the largest rule  *)
(* counts at the left and right edge of any layout row.                  *)
Opts(centre, frame) ==
  [cols |-> 2, centre |-> centre,
   box |-> CASE frame = "box" -> "BOX" [] frame = "dbox" -> "DBOX"
             [] OTHER -> "NONE",
   lvert |-> Max({Layouts(frame)[i].vert : i \in 1 .. 3}),
   rvert |-> Max({Last(Layouts(frame)[i].cellvert) : i \in 1 .. 3})]

WithLayouts(spans, frame) ==
  [i \in DOMAIN spans |-> spans[i] @@ [layout |-> Layouts(frame)[i]]]

(* Literal cells in every position, with a rule between the rows.        *)
Literals ==
  <<Data(<<Cell(0, "LEFT", {}, <<"x", "x", "x">>), Cell(1, "RIGHT", {}, <<"x">>)>>),
    Rule,
    Data(<<Cell(0, "CENTRE", {}, <<"x">>),
           Cell(1, "LONG", {}, <<"x", "x", "x", "x">>)>>)>>

(* A NUMBER column whose second number has the longer integer part, and  *)
(* a short last row.                                                      *)
Numbers ==
  <<Data(<<Cell(0, "NUMBER", {}, <<"d", "p", "d">>), Cell(1, "LEFT", {}, <<"x">>)>>),
    Data(<<Cell(0, "NUMBER", {}, <<"d", "d", "p", "d">>),
           Cell(1, "LEFT", {}, <<"x", "x">>)>>),
    Data(<<Cell(0, "NUMBER", {}, <<"d", "d">>)>>)>>

(* One span, so that the first span is also the last, with a column to   *)
(* maximize.                                                              *)
Single ==
  <<Data(<<Cell(0, "LEFT", {"WMAX"}, <<"x">>), Cell(1, "LEFT", {}, <<"x">>)>>)>>

Frames == {"none", "box", "dbox", "left", "right"}

Tables(shapes) ==
  {[spans |-> WithLayouts(s, f), opts |-> Opts(ce, f)] :
   s \in shapes, ce \in BOOLEAN, f \in Frames}

MCDocs == {<<t1, t2>> : t1, t2 \in Tables({Literals, Numbers, Single})}

MCMargins == {[offset |-> 0, rmargin |-> 20], [offset |-> 4, rmargin |-> 20],
              [offset |-> 2, rmargin |-> 11]}

NumberDocs == {<<t>> : t \in Tables({Numbers})}
====
