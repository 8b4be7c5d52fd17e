------------------------------ MODULE TblSolve ------------------------------
(***************************************************************************)
(* One call of tblcalc on a table drawn from a bounded set, and what the  *)
(* solved columns must satisfy.                                           *)
(***************************************************************************)
EXTENDS TblCalc

CONSTANT Inputs   \* the tables the solver is run on

ASSUME \A t \in Inputs : IsTable(t)

VARIABLES
  tbl,      \* the table
  solved,   \* tblcalc has run
  res       \* what it computed

vars == <<tbl, solved, res>>

Init ==
  /\ tbl \in Inputs
  /\ solved = FALSE
  /\ res = [cols |-> <<>>, maxcol |-> -1, avail |-> -1]

(* term_tbl calls tblcalc on the first span of a table.                   *)
Solve ==
  /\ ~solved
  /\ solved' = TRUE
  /\ res' = tblcalc(tbl)
  /\ UNCHANGED tbl

Next == Solve

Spec == Init /\ [][Next]_vars

-----------------------------------------------------------------------------
(* Reference definitions.                                                  *)

(* The cells pass 1 measures: from the first cell of a data span, each    *)
(* cell reached leads hspans cells on; a reached cell spanning one column *)
(* is measured.                                                           *)
RECURSIVE Reached(_, _)
Reached(cells, j) ==
  IF j > Len(cells) THEN {}
  ELSE {j} \cup Reached(cells, j + Max2(cells[j].hspans, 1))

MeasuredCells(t) ==
  UNION {{t.spans[j].cells[k] : k \in {k \in Reached(t.spans[j].cells, 1) :
                                          t.spans[j].cells[k].hspans = 1}} :
         j \in {j \in DOMAIN t.spans : t.spans[j].pos = "DATA"}}

(* The numbers measured in column i.                                       *)
Numbers(t, i) ==
  {dp.string : dp \in {dp \in MeasuredCells(t) :
                         /\ dp.layout.col = i
                         /\ dp.layout.pos = "NUMBER"
                         /\ "WIGN" \notin dp.layout.flags
                         /\ LastDigit(dp.string) > 0}}

-----------------------------------------------------------------------------
(* Properties.                                                             *)

(* The type of the state.  A width in Nat is also the absence of a size_t *)
(* wrap below zero, which the quirk's decrement could cause.              *)
TypeOK ==
  /\ solved \in BOOLEAN
  /\ res.maxcol \in -1 .. tbl.opts.cols - 1
  /\ solved =>
       /\ DOMAIN res.cols = 0 .. tbl.opts.cols - 1
       /\ \A i \in DOMAIN res.cols :
            /\ res.cols[i].width \in Nat
            /\ res.cols[i].decimal \in Nat /\ res.cols[i].nwidth \in Nat

(* Numbers line up (tblcalc_number over all rows, then the reconciliation *)
(* of numeric and literal widths): in every column that is not maximized, *)
(* every number measured there, moved right so that its integer part ends *)
(* at the column's decimal position, lies inside the column.  Earlier     *)
(* rows are moved when a later one has a longer integer part, so this     *)
(* depends on the order of the rows.                                      *)
NumbersFitColumn ==
  solved =>
    \A i \in 0 .. res.maxcol :
      "WMAX" \notin res.cols[i].flags =>
        \A s \in Numbers(tbl, i) :
          /\ IntSize(s) <= res.cols[i].decimal
          /\ res.cols[i].decimal - IntSize(s) + Len(s) <= res.cols[i].width

(* Maximize shares exactly the width it computed as available among the  *)
(* WMAX columns (spec section 8), the five-column quirk included: the     *)
(* unit taken from one column goes to the next.                           *)
SharesSumToAvail ==
  solved /\ res.avail >= 0 =>
    MapThenSumSet(LAMBDA i : res.cols[i].width, Flagged(res, "WMAX"))
      = res.avail

(* The widths of the used columns, the 3-unit gaps between them and the   *)
(* frame never exceed the line once the WMAX columns have been sized, and *)
(* fill it exactly unless a column is both EQUAL and WMAX (its equalize  *)
(* gain is reserved in xwidth, then its width is replaced by its share). *)
MaximizedFitsLine ==
  solved /\ res.avail >= 0 =>
    LET total == MapThenSumSet(LAMBDA i : res.cols[i].width, Used(res))
                   + 3 * res.maxcol + Frame(tbl.opts)
    IN /\ total <= tbl.rmargin - tbl.offset
       /\ Flagged(res, "EQUAL") \cap Flagged(res, "WMAX") = {}
            => total = tbl.rmargin - tbl.offset

(* Spec section 8: the widths of all ncols columns plus 3 (ncols - 1)     *)
(* plus the frame fit between offset and rmargin whenever the WMAX        *)
(* columns have been sized.  term_tbl lays out all opts->cols columns.    *)
TableFitsLine ==
  solved /\ res.avail >= 0 =>
    MapThenSumSet(LAMBDA i : res.cols[i].width, 0 .. tbl.opts.cols - 1)
      + 3 * (tbl.opts.cols - 1) + Frame(tbl.opts)
    <= tbl.rmargin - tbl.offset

(* The longest run of non-space characters of a string.                  *)
LongestWord(s) ==
  LET Runs == {r \in (1 .. Len(s)) \X (1 .. Len(s)) :
                 r[1] <= r[2] /\ \A k \in r[1] .. r[2] : s[k] # " "}
  IN Max({0} \cup {r[2] - r[1] + 1 : r \in Runs})

Literal == {"LONG", "CENTRE", "LEFT", "RIGHT"}

(* Word wrapping in tblcalc_literal: in a column whose measured cells are *)
(* all wrapped literal cells, and which equalize and maximize leave       *)
(* alone, the width lies between the longest word and the longer of the  *)
(* wrap width and that word: joined words, with the space between them,  *)
(* never make a line longer than the wrap width.                          *)
WrapFits ==
  solved =>
    \A i \in Used(res) :
      LET cs == {dp \in MeasuredCells(tbl) : dp.layout.col = i}
          mw(dp) == CellMaxWidth(dp, tbl.opts, tbl.rmargin)
      IN /\ cs # {}
         /\ \A dp \in cs : /\ dp.layout.pos \in Literal /\ dp.block
                           /\ mw(dp) > 0 /\ "WIGN" \notin dp.layout.flags
         /\ res.cols[i].flags \cap {"EQUAL", "WMAX"} = {}
         => /\ \A dp \in cs : LongestWord(dp.string) <= res.cols[i].width
            /\ \E dp \in cs :
                 res.cols[i].width <= Max2(mw(dp), LongestWord(dp.string))

(* Pass 1 matches data cells to columns across horizontal spans: every   *)
(* unwrapped literal cell that a span does not consume fits the column it *)
(* belongs to, unless maximize has resized that column.                   *)
CellsFitColumns ==
  solved =>
    \A dp \in MeasuredCells(tbl) :
      /\ dp.layout.pos \in Literal /\ ~dp.block
      /\ "WIGN" \notin dp.layout.flags
      /\ ~(res.avail >= 0 /\ "WMAX" \in res.cols[dp.layout.col].flags)
      => Len(dp.string) <= res.cols[dp.layout.col].width

====
