------------------------------ MODULE TblTerm ------------------------------
(***************************************************************************)
(* The terminal table renderer of src/tbl_term.c: term_tbl, called once  *)
(* per span of a table, with the column setup of data spans and the cell *)
(* renderers tbl_data, tbl_literal, tbl_number and tbl_char.             *)
(*                                                                         *)
(* A document is a sequence of tables; each call of term_tbl renders the *)
(* next span.  Between tables the formatter may move the margins of the  *)
(* terminal column (SetMargins).  What term_tbl writes is kept as the    *)
(* lines it prints: the frames of a boxed table, the rule line of a      *)
(* HORIZ span, and the line of a data span with the placement of every   *)
(* cell (where its column starts and how many units of padding it prints *)
(* left and right of its text) and where each vertical rule and frame    *)
(* glyph lands.  The line buffer of term.c, which is not under src/, is  *)
(* taken as the spec describes it: term_flushln prints a column from its *)
(* offset or from viscol if that is further right, leaves viscol after   *)
(* the last unit printed, and prints a first word wider than the column  *)
(* whole, so a data span is one physical line.  Layout rows carry one   *)
(* rule count per column and counts of at most two, as the layout parser *)
(* produces them.                                                          *)
(*                                                                         *)
(* Data cells span no columns.  The renderer reads dp->spans and expects *)
(* spanned cells to be absent from the list, while tblcalc reads         *)
(* dp->hspans and skips them in it; no one parser output is faithful to  *)
(* both, so spans are left to TblCalc.                                    *)
(***************************************************************************)
EXTENDS TblCalc

CONSTANTS
  Docs,        \* the documents: sequences of tables
  Margins,     \* offset and rmargin the formatter may set between tables
  MAXRMARGIN,  \* tp->maxrmargin
  NULL

VARIABLES
  doc,      \* the tables still to render; the head is the current one
  cur,      \* the index of the next span of the current table
  cols,     \* tp->tbl.cols: NULL between tables
  offset,   \* the static offset of term_tbl
  tcol,     \* offset and rmargin of the current terminal column
  rows,     \* the lines printed for the current table: frames, rules and
            \* data lines with their cell placements and glyph positions
  entry     \* the margins and options when the current table began (history)

vars == <<doc, cur, cols, offset, tcol, rows, entry>>

(* tbl_char emits len units; a cell is the padding and text around it.    *)
Fill(w) == [padl |-> 0, len |-> 0, padr |-> w]

(* Mutant: the LONG padding taken from padr without the test for zero.   *)
tbl_literal_long_unguarded(dp, col) ==
  LET len  == Len(dp.string)
      padr == IF col.width > len THEN col.width - len ELSE 0
  IN CASE dp.layout.pos = "LONG" ->
            [padl |-> 1, len |-> len, padr |-> padr - 1]
       [] dp.layout.pos = "CENTRE" /\ padr >= 2 ->
            [padl |-> padr \div 2, len |-> len, padr |-> padr - padr \div 2]
       [] dp.layout.pos = "RIGHT" ->
            [padl |-> padr, len |-> len, padr |-> 0]
       [] OTHER -> [padl |-> 0, len |-> len, padr |-> padr]

(* tbl_literal without spans: the padding by position.                     *)
tbl_literal(dp, col) ==
  LET len  == Len(dp.string)
      padr == IF col.width > len THEN col.width - len ELSE 0
  IN CASE dp.layout.pos = "LONG" ->
            [padl |-> 1, len |-> len, padr |-> IF padr > 1 THEN padr - 1 ELSE 0]
       [] dp.layout.pos = "CENTRE" /\ padr >= 2 ->
            [padl |-> padr \div 2, len |-> len, padr |-> padr - padr \div 2]
       [] dp.layout.pos = "RIGHT" ->
            [padl |-> padr, len |-> len, padr |-> 0]
       [] OTHER -> [padl |-> 0, len |-> len, padr |-> padr]

(* tbl_number: the decimal position is found with strrchr, and d counts  *)
(* the units up to and including the decimal character.                   *)
LastDecimal(s) == Max({0} \cup {i \in 1 .. Len(s) : s[i] = DECIMAL})

tbl_number(dp, col) ==
  LET sz   == Len(dp.string)
      d    == IF LastDecimal(dp.string) > 0 THEN LastDecimal(dp.string)
              ELSE sz + 1
      padl == IF col.decimal > d /\ col.width > sz
              THEN IF col.decimal - d + sz > col.width THEN col.width - sz
                   ELSE col.decimal - d
              ELSE 0
  IN [padl |-> padl, len |-> sz,
      padr |-> IF col.width > sz + padl THEN col.width - sz - padl ELSE 0]

(* tbl_data: a rule cell prints width line characters, a DOWN cell and  *)
(* a missing one width blanks.                                            *)
tbl_data(dp, col) ==
  IF dp = NULL THEN Fill(col.width)
  ELSE CASE dp.layout.pos \in {"HORIZ", "DHORIZ"} ->
              [padl |-> 0, len |-> col.width, padr |-> 0]
         [] dp.layout.pos = "DOWN" -> Fill(col.width)
         [] dp.layout.pos \in {"LONG", "CENTRE", "LEFT", "RIGHT"} ->
              tbl_literal(dp, col)
         [] dp.layout.pos = "NUMBER" -> tbl_number(dp, col)

HasLeftFrame(opts) == opts.box \in {"BOX", "DBOX"} \/ opts.lvert > 0
HasRightFrame(opts) == opts.box \in {"BOX", "DBOX"} \/ opts.rvert > 0

(* The column setup of a data span: the left frame column, then each data *)
(* column width units wide followed by one unit and, but for the last,   *)
(* two more; the right frame column starts where the last one left off.  *)
ColStart(c, opts, base, ic) ==
  base + (IF HasLeftFrame(opts) THEN 1 ELSE 0)
       + MapThenSumSet(LAMBDA j : c[j].width + 3, 0 .. ic - 1)

DataRow(sp, c, opts, base) ==
  [kind   |-> sp.pos,
   cells  |-> [ic \in 0 .. opts.cols - 1 |->
                 [start |-> ColStart(c, opts, base, ic),
                  rmargin |-> ColStart(c, opts, base, ic) + c[ic].width, dp |->
                    IF ic + 1 <= Len(sp.cells) THEN sp.cells[ic + 1] ELSE NULL]
                 @@ tbl_data(IF ic + 1 <= Len(sp.cells) THEN sp.cells[ic + 1]
                             ELSE NULL, c[ic])],
   lframe |-> IF HasLeftFrame(opts) THEN base ELSE -1,
   rframe |-> IF HasRightFrame(opts)
              THEN ColStart(c, opts, base, opts.cols) - 2 ELSE -1]

(* The vertical rules of a span.  sp.layout holds the rule counts of its  *)
(* layout row: vert, left of the first cell, and cellvert[k], right of    *)
(* cell k.  A frame glyph is drawn where this row or the previous span's  *)
(* row has a rule, or the table is boxed.                                 *)
LeftBar(sp, prev, opts) ==
  \/ sp.layout.vert > 0
  \/ prev # NULL /\ prev.layout.vert > 0
  \/ opts.box \in {"BOX", "DBOX"}

RightBar(sp, prev, opts) ==
  \/ Last(sp.layout.cellvert) > 0
  \/ prev # NULL /\ Last(prev.layout.cellvert) > 0
  \/ opts.box \in {"BOX", "DBOX"}

(* Mutant: the previous layout row's rule counts not merged.              *)
tbl_hrule_nomerge(sp, prev, c, s, kind) ==
  LET lay   == sp.layout.cellvert
      at(k) == s + MapThenSumSet(LAMBDA j : c[j - 1].width + 1, 1 .. k)
                 + MapThenSumSet(LAMBDA j : Max2(lay[j], 2), 1 .. k - 1)
  IN [cross |-> IF kind < 2
                THEN UNION {at(k) .. at(k) + lay[k] - 1 : k \in 1 .. Len(lay) - 1}
                ELSE {},
      end   |-> at(Len(lay))]

(* tbl_hrule, its first line character at s: per layout cell width + 1    *)
(* line characters; at each gap the larger of this row's and the previous *)
(* row's rule count, drawn as crossings ('+') unless the kind is the      *)
(* outer frame (2), then line characters up to two.  The '+' ends of a    *)
(* frame (kind > 0) are at s - 1 and at the returned end.                 *)
tbl_hrule(sp, prev, c, s, kind) ==
  LET lay     == sp.layout.cellvert
      n       == Len(lay)
      merge   == prev # NULL /\ prev.layout # sp.layout
      vert(k) == IF merge /\ k <= Len(prev.layout.cellvert)
                 THEN Max2(lay[k], prev.layout.cellvert[k]) ELSE lay[k]
      at(k)   == s + MapThenSumSet(LAMBDA j : c[j - 1].width + 1, 1 .. k)
                   + MapThenSumSet(LAMBDA j : Max2(vert(j), 2), 1 .. k - 1)
  IN [cross |-> IF kind < 2
                THEN UNION {at(k) .. at(k) + vert(k) - 1 : k \in 1 .. n - 1}
                ELSE {},
      end   |-> at(n)]

(* The data columns from ic on, on a line where viscol is v: a column is *)
(* flushed from its offset or from viscol if that is further right, and  *)
(* leaves viscol after its last unit; after every column but the last,   *)
(* its vert bars go at rmargin + 1 or at viscol if that is further right. *)
RECURSIVE DataBars(_, _, _, _)
DataBars(r, sp, ic, v) ==
  LET cell == r.cells[ic]
      size == cell.padl + cell.len + cell.padr
      vis  == IF size = 0 THEN v ELSE Max2(v, cell.start) + size
      vert == sp.layout.cellvert[ic + 1]
      at   == Max2(vis, cell.rmargin + 1)
  IN CASE ic = Len(sp.layout.cellvert) - 1 -> [cross |-> {}, vis |-> vis]
       [] vert = 0 -> DataBars(r, sp, ic + 1, vis)
       [] OTHER ->
            LET rest == DataBars(r, sp, ic + 1, at + vert)
            IN [rest EXCEPT !.cross = @ \cup at .. at + vert - 1]

(* The physical line of a data span: the left frame glyph at the table's *)
(* offset, the columns with the rules between them, and the right frame  *)
(* glyph at the right frame column's offset, or one unit past viscol when *)
(* the last column has reached that offset.                               *)
DataLine(sp, prev, c, opts, base) ==
  LET r    == DataRow(sp, c, opts, base)
      lf   == LeftBar(sp, prev, opts)
      rf   == RightBar(sp, prev, opts)
      flush == DataBars(r, sp, 0, IF lf THEN base + 1 ELSE 0)
      roff == ColStart(c, opts, base, opts.cols) - 2
      rpos == IF roff > flush.vis THEN roff ELSE flush.vis + 1
  IN r @@ [bars  |-> flush.cross,
           left  |-> IF lf THEN base ELSE -1,
           right |-> IF rf THEN rpos ELSE -1]

(* The line of a HORIZ or DHORIZ span: '+' ends where a frame glyph is    *)
(* drawn, '-' where the table only has the lvert or rvert option.        *)
RuleLine(sp, prev, c, opts, base) ==
  LET lf == LeftBar(sp, prev, opts) \/ opts.lvert > 0
      rf == RightBar(sp, prev, opts) \/ opts.rvert > 0
      h  == tbl_hrule(sp, prev, c, IF lf THEN base + 1 ELSE base, 0)
  IN [kind |-> sp.pos, cells |-> <<>>, lframe |-> -1, rframe |-> -1,
      bars |-> h.cross, left |-> IF lf THEN base ELSE -1,
      right |-> IF rf THEN h.end ELSE -1]

(* A frame line of a boxed table: tbl_hrule of kind 1 or 2.               *)
FrameLine(sp, prev, c, base, kind) ==
  LET h == tbl_hrule(sp, prev, c, base + 1, kind)
  IN [kind |-> "FRAME", cells |-> <<>>, lframe |-> -1, rframe |-> -1,
      bars |-> h.cross, left |-> base, right |-> h.end]

(* The frames term_tbl draws before the first span and after the last.   *)
TopFrames(sp, c, opts, base) ==
  (IF opts.box = "DBOX" THEN <<FrameLine(sp, NULL, c, base, 2)>> ELSE <<>>)
  \o (IF opts.box \in {"BOX", "DBOX"}
      THEN <<FrameLine(sp, NULL, c, base, 1)>> ELSE <<>>)

BottomFrames(sp, prev, c, opts, base) ==
  (IF opts.box \in {"BOX", "DBOX"}
   THEN <<FrameLine(sp, prev, c, base, 1)>> ELSE <<>>)
  \o (IF opts.box = "DBOX" THEN <<FrameLine(sp, prev, c, base, 2)>> ELSE <<>>)

(* Mutant: the gap after the last column counted.                        *)
CentreWidthAllGaps(c, opts, off, rm) ==
  LET tsz == Frame(opts)
             + MapThenSumSet(LAMBDA j : c[j].width + 3, 0 .. opts.cols - 1)
  IN IF off + tsz > rm THEN tsz - 1 ELSE tsz

(* The total visible width term_tbl centres, and the offset it centres to. *)
CentreWidth(c, opts, off, rm) ==
  LET tsz == Frame(opts)
             + MapThenSumSet(LAMBDA j : c[j].width + 3, 0 .. opts.cols - 1) - 3
  IN IF off + tsz > rm THEN tsz - 1 ELSE tsz

Centre(c, opts, off, rm) ==
  LET tsz == CentreWidth(c, opts, off, rm)
  IN IF off + rm > tsz THEN (off + rm - tsz) \div 2 ELSE 0

Init ==
  /\ doc \in Docs
  /\ cur = 1
  /\ cols = NULL
  /\ offset = 0
  /\ tcol \in Margins
  /\ rows = <<>>
  /\ entry = [offset |-> 0, rmargin |-> 0, opts |-> NULL]

(* Where the columns of the span are laid out from: on the first span of *)
(* a centred table, the centred offset.                                   *)
TableBaseEverySpan(first, opts, c) ==
  IF opts.centre THEN Centre(c, opts, tcol.offset, tcol.rmargin)
  ELSE tcol.offset

TableBase(first, opts, c) ==
  IF first /\ opts.centre THEN Centre(c, opts, tcol.offset, tcol.rmargin)
  ELSE tcol.offset

(* The static offset: set from the terminal column on the first span,    *)
(* before centring moves it.                                              *)
SaveOffsetAfterCentre(first, base) == IF first THEN base ELSE offset

SaveOffset(first, base) == IF first THEN tcol.offset ELSE offset

(* The formatter moves the margins between two tables.                    *)
SetMargins(m) ==
  /\ cols = NULL
  /\ doc # <<>>
  /\ tcol' = m
  /\ UNCHANGED <<doc, cur, cols, offset, rows, entry>>

(* term_tbl on the next span: on the first span solve the table, save    *)
(* the offset in the static and centre; lay out the span; reset the     *)
(* column's rmargin; on the last span free the columns and restore the   *)
(* offset.                                                                *)
term_tbl ==
  /\ doc # <<>>
  /\ LET t     == Head(doc)
         sp    == t.spans[cur]
         first == cols = NULL
         last  == cur = Len(t.spans)
         c     == IF first
                  THEN tblcalc([spans |-> t.spans, opts |-> t.opts,
                                offset |-> tcol.offset,
                                rmargin |-> tcol.rmargin]).cols
                  ELSE cols
         base  == TableBase(first, t.opts, c)
         saved == SaveOffset(first, base)
         prev  == IF cur > 1 THEN t.spans[cur - 1] ELSE NULL
         line  == IF sp.pos = "DATA" THEN DataLine(sp, prev, c, t.opts, base)
                  ELSE RuleLine(sp, prev, c, t.opts, base)
         out   == (IF first THEN TopFrames(sp, c, t.opts, base) ELSE <<>>)
                  \o <<line>>
                  \o (IF last THEN BottomFrames(sp, prev, c, t.opts, base)
                      ELSE <<>>)
     IN /\ offset' = saved
        /\ tcol' = [offset |-> IF last THEN saved ELSE base,
                    rmargin |-> MAXRMARGIN]
        /\ cols' = IF last THEN NULL ELSE c
        /\ cur' = IF last THEN 1 ELSE cur + 1
        /\ doc' = IF last THEN Tail(doc) ELSE doc
        /\ rows' = IF first THEN out ELSE rows \o out
        /\ entry' = IF first THEN [offset |-> tcol.offset,
                                   rmargin |-> tcol.rmargin, opts |-> t.opts]
                    ELSE entry

Next == term_tbl \/ \E m \in Margins : SetMargins(m)

Spec == Init /\ [][Next]_vars

-----------------------------------------------------------------------------
(* Properties.                                                             *)

DataRows == {r \in Range(rows) : r.kind = "DATA"}

TypeOK ==
  /\ cur \in 1 .. Max({Len(doc[i].spans) : i \in DOMAIN doc} \cup {1})
  /\ offset \in Nat
  /\ tcol.offset \in Nat /\ tcol.rmargin \in Nat
  /\ \A r \in DataRows : \A ic \in DOMAIN r.cells :
       r.cells[ic].padl \in Nat /\ r.cells[ic].padr \in Nat

(* The static offset: when term_tbl has rendered the last span of a      *)
(* table, the terminal column is back at the offset it had before the    *)
(* first span, whatever centring did in between.                          *)
OffsetRestored ==
  [][Len(doc') < Len(doc) => tcol'.offset = entry'.offset]_vars

(* Spans after the first lay out their columns from the offset the first *)
(* span centred to: in every data row of a table each column starts at   *)
(* the same place.                                                        *)
ColumnsStayPut ==
  \A r1, r2 \in DataRows : \A ic \in DOMAIN r1.cells :
    r1.cells[ic].start = r2.cells[ic].start

(* Centring: a table that fits between the margins is placed so that the *)
(* space left of its first printed unit and right of its last differ by  *)
(* at most one.                                                           *)
RowStart(r) == IF r.lframe >= 0 THEN r.lframe ELSE r.cells[0].start
RowEnd(r) ==
  IF r.rframe >= 0 THEN r.rframe + 1
  ELSE LET l == Max(DOMAIN r.cells) IN r.cells[l].start + r.cells[l].padl
                                       + r.cells[l].len + r.cells[l].padr
CentredBalanced ==
  entry.opts # NULL /\ entry.opts.centre =>
    \A r \in DataRows :
      RowEnd(r) - RowStart(r) <= entry.rmargin - entry.offset =>
        LET left  == RowStart(r) - entry.offset
            right == entry.rmargin - RowEnd(r)
        IN left - right \in -1 .. 1

(* Spec section 4.2, rule lines: tbl_hrule merges the rule counts of the *)
(* previous layout row into the crossings it draws, so every vertical    *)
(* rule of a data line, drawn by the column loop of term_tbl, meets a    *)
(* '+' of the rule or frame line printed right below it, and the top     *)
(* frame has a '+' above every rule of the first data line.             *)
RulesMeetBars ==
  \A i \in 1 .. Len(rows) - 1 :
    /\ rows[i].kind = "DATA" /\ rows[i + 1].kind # "DATA"
         => rows[i].bars \subseteq rows[i + 1].bars
    /\ rows[i].kind = "FRAME" /\ rows[i + 1].kind = "DATA"
         => rows[i + 1].bars \subseteq rows[i].bars

(* Spec section 4.2, frames: the frame glyphs a table prints at its left *)
(* and right edge, '+' on frame and rule lines, '|' on data lines, stand  *)
(* in one column each, so the frame is a straight line.                 *)
FramesAligned ==
  \A l1, l2 \in Range(rows) :
    /\ l1.left >= 0 /\ l2.left >= 0 => l1.left = l2.left
    /\ l1.right >= 0 /\ l2.right >= 0 => l1.right = l2.right

(* Spec section 4.2, NUMBER cells: a number is left-padded by the        *)
(* column's decimal position less its own, computed as in measurement,  *)
(* so the numbers of a column line up on their integer parts.            *)
NumbersAligned ==
  \A r1, r2 \in DataRows : \A ic \in DOMAIN r1.cells :
    LET a == r1.cells[ic]
        b == r2.cells[ic]
    IN /\ a.dp # NULL /\ b.dp # NULL
       /\ a.dp.layout.pos = "NUMBER" /\ b.dp.layout.pos = "NUMBER"
       /\ LastDigit(a.dp.string) > 0 /\ LastDigit(b.dp.string) > 0
       => a.start + a.padl + IntSize(a.dp.string)
            = b.start + b.padl + IntSize(b.dp.string)

====
