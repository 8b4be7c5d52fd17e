------------------------------ MODULE TblCalc ------------------------------
(***************************************************************************)
(* The column solver of src/out.c: tblcalc and the cell measurements it   *)
(* calls, tblcalc_data, tblcalc_literal and tblcalc_number.               *)
(*                                                                         *)
(* tblcalc is a single function without side effects outside the column  *)
(* array it allocates, so it is written as operators: Pass1 for the walk  *)
(* over all data cells, then Reconcile, Equalize and Maximize for the     *)
(* three passes over the columns.  TblSolve solves one table in one step; *)
(* TblTerm calls tblcalc from the renderer.                               *)
(*                                                                         *)
(* Strings are sequences of character classes: "d" a digit, "p" the      *)
(* table's decimal character, " " a space, "x" any other character.  On   *)
(* the terminal every one of them is one unit wide, so the string width   *)
(* of term_strlen is the length.  The \& alignment escape and width       *)
(* strings parsed by a2roffsu are not modelled: a layout cell carries its *)
(* width as a number.                                                     *)
(***************************************************************************)
EXTENDS Integers, Sequences, SequencesExt, FiniteSets, FiniteSetsExt

CONSTANT SIZE_MAX   \* the "spacing not set" value of struct roffcol

DECIMAL == "p"
IsDigit(ch) == ch = "d"

CellPos == {"LEFT", "CENTRE", "RIGHT", "LONG", "NUMBER", "HORIZ", "DHORIZ",
            "DOWN"}
CellFlags == {"EQUAL", "WMAX", "WIGN"}

(* A column record, as mandoc_calloc leaves it.                            *)
NewCol == [width |-> 0, nwidth |-> 0, decimal |-> 0, spacing |-> 0,
           flags |-> {}]

Max2(a, b) == IF a >= b THEN a ELSE b

(* The frame characters besides the data columns.                         *)
Frame(opts) ==
  IF opts.box \in {"BOX", "DBOX"} THEN 2
  ELSE (IF opts.lvert > 0 THEN 1 ELSE 0) + (IF opts.rvert > 0 THEN 1 ELSE 0)

-----------------------------------------------------------------------------
(* tblcalc_literal: the width of the longest line of a cell.  With a     *)
(* maximum width mw the string is split at single spaces, runs of spaces  *)
(* after a split are skipped, and words are joined greedily into lines of *)
(* at most mw; without one the whole string is one line.                  *)

RECURSIVE SkipSpaces(_)
SkipSpaces(s) == IF s # <<>> /\ Head(s) = " " THEN SkipSpaces(Tail(s)) ELSE s

(* Mutant: the space joining two words left out of the fit test.         *)
RECURSIVE LiteralLinesNoSpace(_, _, _, _)
LiteralLinesNoSpace(beg, mw, lsz, width) ==
  IF beg = <<>> THEN width
  ELSE LET sp   == IF mw > 0 THEN SelectInSeq(beg, LAMBDA ch : ch = " ") ELSE 0
           word == IF sp = 0 THEN beg ELSE SubSeq(beg, 1, sp - 1)
           rest == IF sp = 0 THEN <<>>
                   ELSE SkipSpaces(SubSeq(beg, sp + 1, Len(beg)))
           nl   == IF mw > 0 /\ lsz > 0 /\ lsz + Len(word) <= mw
                   THEN lsz + 1 + Len(word) ELSE Len(word)
       IN LiteralLinesNoSpace(rest, mw, nl, Max2(width, nl))

RECURSIVE LiteralLines(_, _, _, _)
LiteralLines(beg, mw, lsz, width) ==
  IF beg = <<>> THEN width
  ELSE LET sp   == IF mw > 0 THEN SelectInSeq(beg, LAMBDA ch : ch = " ") ELSE 0
           word == IF sp = 0 THEN beg ELSE SubSeq(beg, 1, sp - 1)
           rest == IF sp = 0 THEN <<>>
                   ELSE SkipSpaces(SubSeq(beg, sp + 1, Len(beg)))
           wsz  == Len(word)
           nl   == IF mw > 0 /\ lsz > 0 /\ lsz + 1 + wsz <= mw
                   THEN lsz + 1 + wsz ELSE wsz
       IN LiteralLines(rest, mw, nl, Max2(width, nl))

tblcalc_literal(col, dp, mw) ==
  IF dp.string = <<>> THEN col
  ELSE [col EXCEPT !.width = LiteralLines(dp.string, mw, 0, @)]

-----------------------------------------------------------------------------
(* tblcalc_number.  The scan finds the last digit and the last decimal    *)
(* character next to a digit; the integer part is what precedes that     *)
(* character, or the string up to and including the last digit.          *)

PointAt(s, i) ==
  /\ s[i] = DECIMAL
  /\ \/ i < Len(s) /\ IsDigit(s[i + 1])
     \/ i > 1 /\ IsDigit(s[i - 1])

LastPoint(s) == Max({0} \cup {i \in 1 .. Len(s) : PointAt(s, i)})
LastDigit(s) == Max({0} \cup {i \in 1 .. Len(s) : IsDigit(s[i])})

IntSize(s) == IF LastPoint(s) > 0 THEN LastPoint(s) - 1 ELSE LastDigit(s)

(* Mutant: earlier numbers not shifted right for a longer integer part.  *)
tblcalc_number_noshift(col, dp) ==
  LET s == dp.string
  IN IF s = <<>> THEN col
     ELSE IF LastDigit(s) = 0 THEN [col EXCEPT !.width = Max2(@, Len(s))]
     ELSE IF IntSize(s) > col.decimal
     THEN [col EXCEPT !.nwidth = Max2(@, Len(s)), !.decimal = IntSize(s)]
     ELSE [col EXCEPT !.nwidth = Max2(@, Len(s) + col.decimal - IntSize(s))]

tblcalc_number(col, dp) ==
  LET s == dp.string
      totsz == Len(s)
      intsz == IntSize(s)
  IN IF s = <<>> THEN col
     ELSE IF LastDigit(s) = 0
     THEN [col EXCEPT !.width = Max2(@, totsz)]
     ELSE IF intsz > col.decimal
     THEN [col EXCEPT !.nwidth = Max2(@ + intsz - col.decimal, totsz),
                      !.decimal = intsz]
     ELSE [col EXCEPT !.nwidth = Max2(@, totsz + col.decimal - intsz)]

(* tblcalc_data: dispatch on the position of the layout cell.             *)
tblcalc_data(col, dp, mw) ==
  CASE dp.layout.pos \in {"HORIZ", "DHORIZ"} ->
         [col EXCEPT !.width = Max2(@, 1)]
    [] dp.layout.pos \in {"LONG", "CENTRE", "LEFT", "RIGHT"} ->
         tblcalc_literal(col, dp, mw)
    [] dp.layout.pos = "NUMBER" -> tblcalc_number(col, dp)
    [] dp.layout.pos = "DOWN" -> col

-----------------------------------------------------------------------------
(* Pass 1: every data cell of every data span, left to right.  A cell     *)
(* spanning hspans > 1 columns is not measured, nor are the hspans - 1    *)
(* cells after it.  Columns up to the cell's column come into use with    *)
(* spacing SIZE_MAX; the layout flags are merged even for WIGN cells.     *)

(* The per-cell maximum width handed to tblcalc_data.                     *)
CellMaxWidth(dp, opts, rmargin) ==
  IF ~dp.block THEN 0
  ELSE IF dp.layout.width > 0 THEN dp.layout.width
  ELSE IF rmargin > 0 THEN (rmargin + opts.cols \div 2) \div (opts.cols + 1)
  ELSE 0

MeasureCell(st, dp, opts, rmargin) ==
  LET icol  == dp.layout.col
      grown == [i \in DOMAIN st.cols |->
                  IF st.maxcol < i /\ i <= icol
                  THEN [st.cols[i] EXCEPT !.spacing = SIZE_MAX]
                  ELSE st.cols[i]]
      c1 == [grown[icol] EXCEPT !.flags = @ \cup dp.layout.flags]
      c2 == [c1 EXCEPT !.width = Max2(@, dp.layout.width)]
      c3 == IF dp.layout.spacing # SIZE_MAX
                /\ (c2.spacing = SIZE_MAX \/ c2.spacing < dp.layout.spacing)
            THEN [c2 EXCEPT !.spacing = dp.layout.spacing]
            ELSE c2
      c4 == tblcalc_data(c3, dp, CellMaxWidth(dp, opts, rmargin))
  IN [cols   |-> [grown EXCEPT ![icol] =
                    IF "WIGN" \in dp.layout.flags THEN c1 ELSE c4],
      maxcol |-> Max2(st.maxcol, icol)]

(* Mutant: the span counter tested before it is decremented.            *)
RECURSIVE SpanCellsPostDec(_, _, _, _, _)
SpanCellsPostDec(cells, hspans, st, opts, rmargin) ==
  IF cells = <<>> THEN st
  ELSE LET dp == Head(cells) IN
       IF 0 < hspans
       THEN SpanCellsPostDec(Tail(cells), hspans - 1, st, opts, rmargin)
       ELSE IF 1 < dp.hspans
       THEN SpanCellsPostDec(Tail(cells), dp.hspans, st, opts, rmargin)
       ELSE SpanCellsPostDec(Tail(cells), dp.hspans,
                             MeasureCell(st, dp, opts, rmargin), opts, rmargin)

RECURSIVE SpanCells(_, _, _, _, _)
SpanCells(cells, hspans, st, opts, rmargin) ==
  IF cells = <<>> THEN st
  ELSE LET dp == Head(cells) IN
       IF 0 < hspans - 1
       THEN SpanCells(Tail(cells), hspans - 1, st, opts, rmargin)
       ELSE IF 1 < dp.hspans
       THEN SpanCells(Tail(cells), dp.hspans, st, opts, rmargin)
       ELSE SpanCells(Tail(cells), dp.hspans,
                      MeasureCell(st, dp, opts, rmargin), opts, rmargin)

Pass1(tbl) ==
  FoldLeft(LAMBDA st, sp :
             IF sp.pos # "DATA" THEN st
             ELSE SpanCells(sp.cells, 1, st, tbl.opts, tbl.rmargin),
           [cols |-> [i \in 0 .. tbl.opts.cols - 1 |-> NewCol], maxcol |-> -1],
           tbl.spans)

-----------------------------------------------------------------------------
(* The passes over the columns 0 .. maxcol.                                 *)

Used(st) == 0 .. st.maxcol

(* "Align numbers with text": a column wider than its numbers centres     *)
(* them; otherwise it widens to them.  The spacing of unset and of the    *)
(* last column becomes 3.                                                  *)
ReconcileCol(c, last) ==
  LET c1 == IF c.width > c.nwidth
            THEN [c EXCEPT !.decimal = @ + (c.width - c.nwidth) \div 2]
            ELSE [c EXCEPT !.width = c.nwidth]
  IN IF c1.spacing = SIZE_MAX \/ last THEN [c1 EXCEPT !.spacing = 3] ELSE c1

Reconcile(st) ==
  [st EXCEPT !.cols = [i \in DOMAIN @ |->
                         IF i \in Used(st)
                         THEN ReconcileCol(@[i], i = st.maxcol) ELSE @[i]]]

Flagged(st, f) == {i \in Used(st) : f \in st.cols[i].flags}

(* Widest EQUAL column, and total width of the columns not to maximize.  *)
EWidth(st) == Max({0} \cup {st.cols[i].width : i \in Flagged(st, "EQUAL")})
XWidth(st) ==
  MapThenSumSet(LAMBDA i : st.cols[i].width, Used(st) \ Flagged(st, "WMAX"))

(* Equalize: every EQUAL column takes the widest EQUAL width.  When       *)
(* columns are to be maximized, the width an EQUAL column gains is added  *)
(* to xwidth, whether or not that column is itself one to maximize.       *)
(* Mutant: the equalize gain not reserved in xwidth.                     *)
EqualizeNoGain(st, rmargin) ==
  [cols   |-> [i \in DOMAIN st.cols |->
                 IF i \in Flagged(st, "EQUAL")
                 THEN [st.cols[i] EXCEPT !.width = EWidth(st)] ELSE st.cols[i]],
   maxcol |-> st.maxcol,
   xwidth |-> XWidth(st)]

Equalize(st, rmargin) ==
  LET ew == EWidth(st)
      gain == MapThenSumSet(LAMBDA i : ew - st.cols[i].width,
                            Flagged(st, "EQUAL"))
  IN [cols   |-> [i \in DOMAIN st.cols |->
                    IF i \in Flagged(st, "EQUAL")
                    THEN [st.cols[i] EXCEPT !.width = ew] ELSE st.cols[i]],
      maxcol |-> st.maxcol,
      xwidth |-> XWidth(st) +
                 (IF Flagged(st, "WMAX") # {} /\ rmargin > 0 THEN gain ELSE 0)]

(* The width of the k-th of n columns to maximize, when x units are to be *)
(* shared and the columns before it got e: the double expression          *)
(* x * k / n - e + 0.4995 truncated to size_t.  With 0.4995 = 999 / 2000  *)
(* this is exact: x * k / n is a multiple of 1 / n, never within          *)
(* rounding error of an integer minus 0.4995 for the n a layout can have, *)
(* and the expression is positive, so truncation is the floor.            *)
Share(x, k, n, e) == (2000 * x * k - 2000 * e * n + 999 * n) \div (2000 * n)

(* Emulation of GNU tbl for five columns: which one loses a unit.         *)
(* Mutant: the quirk applied whatever the number of columns.             *)
QuirkColAnyN(x, n) ==
  IF ((x % n) + 2) \in {3, 4} THEN (x % n) + 2 ELSE -1

QuirkCol(x, n) ==
  IF n = 5 /\ ((x % n) + 2) \in {3, 4} THEN (x % n) + 2 ELSE -1

(* Mutant: the running total taken before the quirk's decrement.         *)
RECURSIVE DistributeEwidthBeforeQuirk(_, _, _, _, _, _)
DistributeEwidthBeforeQuirk(cols, todo, x, n, q, done) ==
  IF todo = {} THEN cols
  ELSE LET i == Min(todo)
           k == done.necol + 1
           sh == Share(x, k, n, done.ewidth)
       IN DistributeEwidthBeforeQuirk(
            [cols EXCEPT ![i].width = sh - (IF k = q THEN 1 ELSE 0)],
            todo \ {i}, x, n, q, [necol |-> k, ewidth |-> done.ewidth + sh])

RECURSIVE Distribute(_, _, _, _, _, _)
Distribute(cols, todo, x, n, q, done) ==
  IF todo = {} THEN cols
  ELSE LET i == Min(todo)
           k == done.necol + 1
           w == Share(x, k, n, done.ewidth) - (IF k = q THEN 1 ELSE 0)
       IN Distribute([cols EXCEPT ![i].width = w], todo \ {i}, x, n, q,
                     [necol |-> k, ewidth |-> done.ewidth + w])

(* Maximize: add the 3-unit gaps between the used columns and the frame  *)
(* to xwidth; give up if that leaves nothing of the line; otherwise share *)
(* the rest among the WMAX columns in column order.                      *)
Maximize(st, opts, offset, rmargin) ==
  LET nx == Cardinality(Flagged(st, "WMAX"))
      xw == st.xwidth + 3 * st.maxcol + Frame(opts)
      x  == rmargin - offset - xw
  IN IF nx = 0 \/ rmargin = 0 \/ rmargin <= offset + xw
     THEN [cols |-> st.cols, maxcol |-> st.maxcol, avail |-> -1]
     ELSE [cols   |-> Distribute(st.cols, Flagged(st, "WMAX"), x, nx,
                                 QuirkCol(x, nx), [necol |-> 0, ewidth |-> 0]),
           maxcol |-> st.maxcol,
           avail  |-> x]

(* tblcalc: the columns, the last column in use, and the width shared    *)
(* among the WMAX columns (-1 when none was).                            *)
tblcalc(tbl) ==
  Maximize(Equalize(Reconcile(Pass1(tbl)), tbl.rmargin),
           tbl.opts, tbl.offset, tbl.rmargin)

-----------------------------------------------------------------------------
(* A table handed to term_tbl: its spans, options and the margins of the  *)
(* terminal column at the time of the first span.                        *)
IsTable(t) ==
  /\ t.opts.cols \in Nat \ {0}
  /\ t.opts.box \in {"NONE", "BOX", "DBOX"}
  /\ t.opts.lvert \in Nat /\ t.opts.rvert \in Nat
  /\ t.offset \in Nat /\ t.rmargin \in Nat
  /\ \A j \in DOMAIN t.spans :
       /\ t.spans[j].pos \in {"DATA", "HORIZ", "DHORIZ"}
       /\ \A k \in DOMAIN t.spans[j].cells :
            LET dp == t.spans[j].cells[k] IN
            /\ dp.layout.col \in 0 .. t.opts.cols - 1
            /\ dp.layout.pos \in CellPos
            /\ dp.layout.flags \subseteq CellFlags
            /\ dp.layout.width \in Nat
            /\ dp.layout.spacing \in Nat \cup {SIZE_MAX}
            /\ dp.hspans \in Nat \ {0}
            /\ dp.block \in BOOLEAN
            /\ dp.string \in Seq({"d", "p", "x", " "})

====
