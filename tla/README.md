# TLA+ models of mandoc's index reader, table engine, mdoc validator and tree dump

This directory holds TLA+ specifications of the C sources under `src/`,
the TLC configurations that check them, and `PROJECT.json`, which lists the
components, the runs, the mutants that show each property can fail, the map
from every definition to the source lines it models, the findings and the
hazards.

## Inventory

The six source files make up three independent components and two leaf
programs. They share no state and never call each other. The renderer calls
the column solver, and `apropos` calls the index reader through `mansearch`,
which is not under `src/`. Everything runs on one thread: no operation
blocks, yields or calls back asynchronously (spec section 5). What is hard
is therefore not concurrency. It is hidden state that outlives the call that
set it, and arithmetic at its edges.

### I: index reader (`src/dbm.c`)

- **State.** All of it is static:
  - the mapping, owned by `dbm_map`;
  - `npages`, `pages`, `nvals[MACRO_MAX]` and `macros[MACRO_MAX]`, copied
    from the header by `dbm_open`;
  - the kind of the current page iteration, `iteration`;
  - function-local cursor statics: `match`, `cp` and `ip` in
    `page_bytitle`; `match` and `ip` in `page_byarch`; `pp` in
    `page_bymacro`; `pp`, `im`, `ip` and `iv` in `macro_bypage`.
- **Operations.**
  - `dbm_open` maps the file and checks the header. It assigns the statics
    while it checks them.
  - `dbm_close` unmaps the file. The cursor statics are left untouched.
  - `dbm_page_byname`, `dbm_page_bysect`, `dbm_page_bydesc`,
    `dbm_page_byarch` and `dbm_page_bymacro` arm an iteration.
  - `dbm_page_next` continues the armed iteration.
  - `dbm_macro_bypage` arms an iteration over the values of one macro that
    list a page; `dbm_macro_next` continues it.
  - `dbm_page_count`, `dbm_page_get`, `dbm_macro_count` and `dbm_macro_get`
    only read.
- **What makes it correct.**
  - Every armed iteration returns exactly the matching pages, or values, in
    order, each once, and then the sentinel.
  - Returned page indexes are below `npages`.
  - No call reads outside the mapping or through NULL once `dbm_open` has
    accepted the file.
  - A next call with nothing armed returns the sentinel.
- **What is hard.**
  - The cursors survive `dbm_close`. Whether a next call after a reopen is
    safe depends on the whole history of calls.
  - The name, section and description blocks of all pages are walked as one
    byte stream. Page boundaries are recognised by counting NUL bytes.

### T: table engine (`src/out.c`, `src/tbl_term.c`)

- **`tblcalc` (out.c), the column solver.**
  - Called once per table, on the first span.
  - Allocates the column records (`width`, `nwidth`, `decimal`, `spacing`,
    `flags`).
  - Pass 1 measures every data cell: literal cells with greedy word
    wrapping, numeric cells with decimal alignment. Horizontally spanned
    cells are skipped.
  - It then reconciles numeric and literal widths, equalizes the EQUAL
    columns, and distributes the free line width over the WMAX columns. That
    last step includes a deliberate decrement that reproduces GNU tbl when
    there are five such columns.
  - Its only conversion is `a2roffsu`, which parses a width string.
- **`term_tbl` (tbl_term.c), the renderer.**
  - Called once per span.
  - On the first span it calls the solver, centres the table through the
    static `offset`, and draws the top frame.
  - On every span it renders rules, or cells through `tbl_literal`,
    `tbl_number` and `tbl_char`.
  - On the last span it draws the bottom frame, frees the columns and
    restores the offset.
- **What makes it correct.**
  - A maximized table fills the line exactly without exceeding it.
  - EQUAL columns are equally wide.
  - Numbers in a column line up on their decimal point. The solver and the
    renderer must agree on where that point is.
  - Centring and frames leave the terminal's offset as it was.
- **What is hard.** All of it is arithmetic on unsigned sizes and one
  double, across two files that must agree.

### V: mdoc validator (`src/validate.c`)

- **Structure.** Per-macro tables of pre- and post-rules, run by
  `mdoc_valid_pre` and `mdoc_valid_post` when the parser opens and closes a
  node.
- **State.** The rules read the node tree. They update the document's meta
  fields and `lastnamed`. The parser, which owns them, is outside `src/`.
- **What makes it correct.**
  - The prologue comes first: `Dd`, then `Dt`, then `Os`, each once.
  - NAME is the first section, and the sections follow the conventional
    order.
  - Displays do not nest.
  - A `-column` list item has as many head cells as the list has columns.
  - Error rules abort the walk, while warnings continue it.
  - The manual-section rules of `Rv`, `Ex`, `Er` and `Cd` follow the
    section that `Dt` recorded.
- **What is hard.** Sequences of macros that reach a state a single rule
  does not expect, and rules that read state (`lastnamed`, `meta.msec`,
  argument vectors) which an earlier call should have set.

### Leaf programs

- `apropos.c` parses the command line and calls `mansearch`. It keeps no
  state that a property could be about.
- `tree.c` is the `-Ttree` output: `tree_mdoc` prints the validated tree,
  one line per node, and `tree_man` does the same for a man(7) tree. They
  run after the validator on a file that parsed, so they are modelled
  composed with the validator (`ValidateTree`).

## Plan

Each component is modelled in its own module. The modules are written in
order of how much a model checker adds over testing:

1. **`Dbm`** (done) is the index reader. Its hidden, persistent iteration
   state is the riskiest behaviour in the repository, and no test of a
   single call can reach it.
2. **`TblCalc`** (done) is the column solver as operators:
   - pass 1 as a recursive walk over spans and cells;
   - reconciliation, equalize and maximize with the quirk;
   - a module whose state is a table chosen from bounded sets.

   Properties: maximized widths sum to the available width; the table fits
   the line; numbers fit their column; wrapping and spans; EQUAL columns
   end equal. A violation run compares the result with an invariant of
   spec section 8.
3. **`TblTerm`** (done) is `term_tbl` as one action per span. It composes
   `TblCalc` and models the static `offset`, centring, the column setup and
   the cell renderers, and every line a table prints: frames, rule lines
   and data lines with their vertical rules. It checks:
   - that numbers line up on their decimal point (this fails);
   - that the vertical rules of a data line meet the crossings of the rule
     below it, and that the frame is a straight line (this fails);
   - that the offset is restored after the last span;
   - that several tables rendered one after another keep their columns in
     place.
4. **`Validate`** (done) is the pre- and post-rules of every macro the
   `mdoc_valids` table gives a rule, driven by a walk of a document tree
   (spec_modelled, because the parser is not under `src/`).
   `AcceptedDocs` states, per document, what spec section 4.1 accepts; the
   walk is shown to refine it.
5. **`Tree`** (done) is `print_mdoc` and `print_man` as recursive
   operators, composed with the validator in `ValidateTree`.
6. `apropos` stays out, as explained under "Not modelled".

## Modules and runs

### `Dbm.tla`, `MCDbm.tla`

**One action per API function that changes state.** The actions are
`dbm_open`, `dbm_close`, `page_bytitle_arm` (byname, bysect and bydesc),
`page_byarch_arm`, `page_bymacro_arm`, `dbm_macro_bypage`, `dbm_macro_next`,
and `dbm_page_next`. The last is split into one disjunct per branch of its
`switch`: `page_next_none`, `page_bytitle_next`, `page_byarch_next` and
`page_bymacro_next`.

**Loops.** Every loop runs to completion inside its action, as it does in
the code. `TitleScan` is the search loop of `page_bytitle`, `SkipRest` its
do-while, `MacroScan` the search loop of `macro_bypage`, and `MacroSkip` its
skip.

**The file.** A file is a record of its header fields and blocks. Each block
is a sequence of tokens: `NUL`, a quality byte, a whole string, or a page
reference. `Region` and `PagesRegion` lay out the blocks of all pages one
after another, so the cursors are positions in the very stream the code
walks.

**Pointer statics and faults.**
- A pointer static that was set before the last unmap is marked dangling.
- Dereferencing a dangling pointer, dereferencing NULL, or reading past a
  block is recorded in `fault`, together with the call that did it, and ends
  the behaviour.
- The variables `parg`, `yielded`, `ended`, `marg`, `myielded` and `mended`
  record what the client armed since `dbm_open` and what it got back. The
  properties are stated over them.

**Inputs** (`MCDbm.tla`):
- `Big`: three pages, with the names of spec scenario 6 plus a name that
  matches only after a non-matching one. It has a page without
  architectures and macro page lists that share a page.
- `Small`: one page.
- `Empty`: no pages.
- Three files that `dbm_open` rejects: a negative page count, a bad macros
  table, and a bad last macro entry (found after the other entries were
  copied).

**Bounds, and why they are enough.**
- `MaxOpens = 3`: two reopens, so that a cursor can outlive two files.
- `MaxPages = 3` bounds the page cursor.
- `Matches = {a, b}`: `a` hits the first page, and `b` only later pages.
- `MACRO_MAX = 2`: one macro with values, and one without.
- `Calls` selects the family of calls a run explores. The page iterations
  and `macro_bypage` share no static, so interleaving them cannot change
  what the properties of either family are about. The two passing runs
  together fire every action.

| run | cfg | expect | shows |
|-----|-----|--------|-------|
| dbm_page_iterate | MCDbmPage.cfg | pass | The page iterations, with next calls allowed at any time. About 162k states in 10 s. |
| dbm_macro_bypage | MCDbmByPage.cfg | pass | The same for `dbm_macro_bypage` and `dbm_macro_next`. |
| dbm_stale_page | MCDbmStale.cfg | violation of `PageInRange` | A SECT iteration is advanced to the end of a file, so `ip == npages`. After a close and an open of a file with fewer pages, and no new arm, `dbm_page_next` returns that stale `ip` as a page. TLC's first file varies with the workers' order; the trace always ends on the smaller file. |

Both passing runs set `UnarmedNext = TRUE`, so a client may call a next
function with nothing armed. They check these properties:
- `IterationFollowsFilter` (page run): each armed page iteration returns
  the expected prefix and ends exactly on it.
- `MacroByPageFollows` (macro run): the same for the values of a macro
  that list a page.
- `FaultOnlyWhenUnarmed` (both runs): every invalid access is made by a
  next call with nothing of its kind armed since the open.
- `TypeOK` (page run).

Each mutant in `PROJECT.json` breaks one passing property. They are:
- the arch cursor not advancing past a hit;
- the skip of a found value's page list omitted;
- `dbm_open` not checking the macro entries;
- `dbm_macro_bypage` not resetting `iv`;
- the title cursor starting a byte early.

**Fairness.** None is assumed, and only safety is checked. The reader never
waits for anything, and a client may stop calling it at any time. For the
same reason every config says `CHECK_DEADLOCK FALSE`: once `MaxOpens` is
used up, or after a fault, no step is enabled, and this is a legitimate end.

### `TblCalc.tla`, `MCTblCalc.tla`

**Operators, one per step of `tblcalc`.** `tblcalc` has no effect outside
the column array it allocates, so it is written as operators and solved in
one action, `Solve`, the call `term_tbl` makes on the first span
(`tbl_term.c:84-90`).
- `Pass1` folds `SpanCells` over the data spans. `SpanCells` is the cell
  loop with its `--hspans` counter, and `MeasureCell` its body: columns
  come into use with spacing `SIZE_MAX`, flags are merged before the `WIGN`
  test, then the layout width, the spacing and `tblcalc_data`.
- `tblcalc_literal` is `LiteralLines`, the greedy wrap loop. `tblcalc_number`
  uses `LastPoint`, `LastDigit` and `IntSize`, the scan and the integer
  width.
- `Reconcile`, `Equalize` and `Maximize` are the three column loops.
  `Maximize` shares the free width with `Share`, which is the
  `+0.4995` double expression in integers, and `QuirkCol`, the five-column
  emulation of GNU tbl. `Distribute` is the loop that applies both.

**Data.** A character is one of the classes `d` (digit), `p` (the decimal
character), space and `x`. Every class is one unit wide on a terminal. A
layout cell carries its width as a number: `a2roffsu` is not modelled.

**Inputs** (`MCTblCalc.tla`), five families:
- `Mixed`: one to three columns with every combination of EQUAL and WMAX,
  widths 1 and 4, with and without an offset and an rmargin.
- `Wide`: four to six WMAX columns, framed and not, on every rmargin from
  10 to 84. This covers every residue of the quirk and the give-up case.
- `Numbers2`: two numbers of up to three characters over `d`, `p`, `x` in
  one NUMBER column, then a literal row of width 0 or 4.
- `Spanned`: three columns, two rows, each row one of four span shapes, one
  WMAX column.
- `Scenario4`: spec scenario 4, five WMAX columns on rmargin 84.
- `Blocks`: a wrapped cell of up to six characters, wrapped at its layout
  width, at the width derived from rmargin, or not at all.

| run | cfg | expect | shows |
|-----|-----|--------|-------|
| tblcalc_solve | MCTblCalc.cfg | pass | All seven properties below, over about 6,600 tables and spec scenario 4, in 12 s. |
| tblcalc_spanned_fit | MCTblCalcFits.cfg | violation of `TableFitsLine` | With the last columns reached only through spans, maximize leaves out the gaps of the columns never measured: the table is 3 units wider than the line per such column (two columns, 6 units, in TLC's trace). |

The properties of the passing run are:
- `TypeOK`: every width, decimal position and numeric width is a natural
  number. The quirk's `width--` on `size_t` cannot wrap.
- `NumbersFitColumn`: every number, shifted to the column's decimal
  position, lies inside a column that is not maximized. This checks the
  running shift across rows and the reconciliation.
- `SharesSumToAvail`: the WMAX widths sum to the available width, the quirk
  included (spec section 8).
- `MaximizedFitsLine`: the used columns, 3-unit gaps and frame never exceed
  `rmargin - offset`, and fill it exactly unless a column is EQUAL and WMAX.
- `WrapFits`: a wrapped column is at least as wide as its longest word and
  no wider than the wrap width or that word.
- `CellsFitColumns`: every unwrapped literal cell not consumed by a span
  fits its column. `MeasuredCells` is the reference definition of which
  cells pass 1 measures.

Each has a mutant in `PROJECT.json`:
- the quirk applied for any number of columns;
- earlier numbers not shifted;
- the running total taken before the decrement;
- the equalize gain not reserved;
- the joining space left out of the fit test;
- the span counter post-decremented;
- the equalize loop stopping before `maxcol`.

**Bounds, and why they are enough.** Widths 0 to 84 cover every branch of
every loop: sharing is periodic in the width modulo the number of columns,
and `Wide` runs through several periods. Strings of three characters give
every position of a decimal point relative to digits. Six-character block
strings hold two and three words, and leading, trailing and double spaces.

**Fairness.** None: the module solves one table in one step and stops,
hence `CHECK_DEADLOCK FALSE`.

### `TblTerm.tla`, `MCTblTerm.tla`

**State.**
- `doc`: the tables still to render.
- `cur`: the next span of the current table.
- `cols`: `tp->tbl.cols`. It is NULL between tables, which is how
  `term_tbl` recognises a first span.
- `offset`: the function's static.
- `tcol`: the offset and rmargin of the terminal column.
- `rows`: the lines printed for the current table, in order: top frames,
  one line per span, bottom frames. A data line records, for every column,
  where it starts and the padding printed left and right of the text.
  Every line records the positions of its interior vertical rules or
  crossings (`bars`) and of its left and right frame glyphs.
- `entry`: a history variable with the margins and options the table began
  with. The properties compare the end of a table with it.

**Actions.**
- `term_tbl` is one call of the function: solve on the first span
  (`tblcalc` of `TblCalc`), save the static (`SaveOffset`), centre
  (`TableBase`, `Centre`), lay out the span (`DataRow`, `ColStart`,
  `tbl_data`, `tbl_literal`, `tbl_number`), print its line (`DataLine`
  with `DataBars`, or `RuleLine` with `tbl_hrule`; the frame glyphs
  follow `LeftBar` and `RightBar`), reset rmargin, and free the columns
  and restore the offset on the last span. The frames of a boxed table
  (`TopFrames`, `BottomFrames`, `FrameLine`) are printed in the same step
  as the first and last span, as the code does.
- `SetMargins` is the formatter moving the margins between tables. It is
  modelled from the spec, because the formatters are not under `src/`.

**Assumed of code outside `src/`.** `term_flushln` (in `term.c`) prints a
column from its offset, or from `viscol` if that is further right, and
leaves `viscol` after the last unit printed, the padding blanks included. A
first word wider than its column is printed whole, so a data span is one
physical line. The layout parser gives every layout row one rule count per
column and counts of at most two, and sets `lvert` and `rvert` to the
largest count at either edge.

**Not modelled.** Fonts and the characters themselves (`tbl_word`) are pure
output: the model keeps where glyphs land, not which glyphs they are. Horizontal spans are checked in
`TblCalc` only: `tbl_term.c` steps over them with `dp->spans`, `out.c`
with `dp->hspans`, and the two expect different cell lists. In
`tbl_data`, the data cells drawn as a rule in place of text (`TBL_DATA_NONE`,
`HORIZ`, `NHORIZ`, `DHORIZ`, `NDHORIZ`, lines 361-375) are left out. Each
fills its column with one glyph, so no property would tell them apart
from a blank cell of the same width.

**Inputs.** Documents are two tables in a row. Each table is one of three
shapes, with every frame (none, box, double box, left or right rule) and
with and without centring. Each frame option comes with layout rows whose
rule counts change from span to span: a double rule over a rule span
without one, or a right rule that only the rule span and the last row
have. The shapes are:
- literal cells in all four positions around a rule;
- a NUMBER column whose second number has the longer integer part;
- a single span with a WMAX column, whose first span is also its last.

The margins are offset 0 or 4 with rmargin 20, or offset 2 with rmargin
11, where the tables do not fit.

| run | cfg | expect | shows |
|-----|-----|--------|-------|
| tblterm_render | MCTblTerm.cfg | pass | About 15,600 states in 6 s. |
| tblterm_numbers | MCTblTermNumbers.cfg | violation of `NumbersAligned` | 1.5 and 12.5 are printed with their points one unit apart. |
| tblterm_long_frame | MCTblTermFrames.cfg | violation of `FramesAligned` | A LONG cell as wide as the last column pushes the right frame of its line one column right. |

The properties of the passing run are:
- `TypeOK`: no padding wraps below zero.
- `ColumnsStayPut`: every data row of a table starts each column at the
  same place, although only the first span centres.
- `CentredBalanced`: a centred table that fits has margins left and right
  that differ by at most one.
- `RulesMeetBars`: every vertical rule of a data line stands on a `+` of
  the rule or frame line printed right below it, and under a `+` of the top
  frame. The bars are placed by the column loop as `viscol` moves; the
  crossings are counted by `tbl_hrule` from widths and gaps, merged with the
  previous layout row's counts.
- `OffsetRestored` (action property): the step that renders the last span
  of a table leaves the column at the offset the table began at.

Their mutants are:
- the LONG padding unguarded;
- centring on every span;
- counting the gap after the last column;
- `tbl_hrule` not merging the previous row's rule counts;
- saving the static after centring.

**Fairness.** None, and `CHECK_DEADLOCK FALSE`: the document ends.

### `Validate.tla`, `AcceptedDocs.tla`, `Tree.tla`, `ValidateTree.tla`, `MCValidate.tla`

**State of `Validate`.**
- `doc` and `evs`: the document tree and the calls the parser makes on it.
  `Walk` flattens the tree: pre on a BLOCK or ELEM when it is appended,
  post on a HEAD, a BODY, then the BLOCK when they close, and post on ROOT
  last. `up` in each call lists the ancestors that the rules reach through
  `parent` pointers.
- `pc`: the next call.
- `valid`: the post calls made so far, which is the `MDOC_VALID` flag.
- `meta` and `lastnamed`: the document meta. `title`, `date`, `os` and
  `name` are TRUE once set; `msec` is the manual section `Dt` recorded
  (`mdoc_atomsec`).
- `status`: `run`, `fail` (an ERR or a refused warning), `assert` (the
  `assert` of `post_it`) or `fault` (the out-of-bounds read of
  `check_stdarg`, below).
- `warned`: TRUE once a warning has been accepted.

**Actions.**
- `Pre` is `mdoc_valid_pre` on the next call: the macro's pre rules
  (`PreRules`, the `pres_*` tables), cut by `Chain` at the first failure.
- `Post` is `mdoc_valid_post`: set VALID, run the rule list of the macro
  (`PostRules`, the `mdoc_valids` table with the `posts_*` lists), and
  record the meta.
- `RePost` is the parser calling post again on a node already closed.

Each rule is an operator returning the diagnostics it emits. Besides the
prologue, section, list and display rules, the model has `pre_ss`,
`pre_st`, `pre_an`, `pre_rv`, `pre_ex`, `pre_er`, `pre_cd` with
`check_msec` and `check_stdarg`, the counting rules (`herr_*`, `eerr_*`,
`ewarn_*`, `bwarn_ge1`), `ebool`, `post_bf`, `post_xr`, `post_at`,
`post_an`, `post_ex` and `post_nm`. `Outcomes` gives the results the opaque
warning policy allows: any warning may be refused, which stops the walk,
and otherwise the last diagnostic decides.

**Undefined behaviour.** `check_stdarg` reads `argv[0].arg` before it
tests `argc`. For an `Ex` or `Rv` with no argument the read is past an
empty vector: it may crash or read garbage. `ArgvRead` chooses between the
two; garbage is not `MDOC_Std`, so the rule warns.

**Modelled from the spec, because the code is not under `src/`.**
- `check_parent`, `mdoc_atosec`, `mdoc_atomsec` and `mdoc_atoatt`.
- The meta updates (`MetaAfter`, `DtMsec`): `Dt` records the title and
  section, `Os` moves `lastnamed` to `SEC_BODY`, which `post_sh_head`
  presupposes, and a named section raises it to the highest seen.
- The prologue macros leave the tree once recorded. This is why
  `post_root` finds a `Sh` first.

**Abstracted.** TEXT nodes are not called, nor are the pre calls of HEAD
and BODY nodes: for these macros those calls only set flags. A section
head is named by its words joined by single spaces (`xstrlcats`, not under
`src/`), so `.Sh NAME x` names a custom section. `TooLong` refuses a head
of 64 bytes or more, as `post_sh_head` does. The documents keep their heads
under that bound, because spec section 4.1 states no length limit for the
refinement check to compare with. Macros without any rule in the table are accepted by the
walk, as the code does, and are not enumerated.

**The abstract specification (`AcceptedDocs`).** A document's verdict goes
from `pending` to `accept` or `reject` in one step, `Judge`, constrained by
`Allowed(d)`: the ERR rules of spec section 4.1, read over the whole tree
(`Broken`), force rejection; the WARN rules (`Warned`) allow either verdict,
since the warning policy is opaque; a document breaking neither must be
accepted. Its rules are written over the whole document (ancestors,
sections, counts of children), not over the walk's state, so they say what
the walk should compute without `lastnamed`, `meta` or the VALID flag.
`Validate` maps its state to the verdict with `Verdict` (`abort` on an
assertion or a fault) and `Accepted == INSTANCE AcceptedDocs WITH verdict
<- Verdict`. `AcceptedSpec` checks `Accepted!SafeSpec /\ Accepted!Decides`:
every step of the walk is a stutter or a `Judge` step, and every walk
reaches a verdict. The abstract weak fairness on `Judge` is equivalent to
`Decides` because `Allowed(d)` is never empty, so `Judge` stays enabled
while the verdict is pending; checking `Decides` directly avoids TLC's
evaluation of `ENABLED` through the refinement mapping.

**The tree dump (`Tree`, `ValidateTree`).** `print_mdoc(ns, indent)` is
the recursion of `tree.c` over a node and its later siblings: the node's
line (`Line`: indent, name, kind from `KindName`, arguments), its children
one level deeper, the siblings at the same depth. `ValidateTree` adds the
variable `out` and the action `Output`, the front end calling `tree_mdoc`
once on a document whose walk ended in `accept`.

`print_man` is the same recursion over man(7) nodes. Its line (`ManLine`)
has no arguments. A TBL node, the only one with a span, prints its data
cells in place of name and kind. `OutputMan` (variables `man` and
`manout`) is the front end calling `tree_man` once on a man page from the
constant `ManDocs`. It is a step of its own: no order between the mdoc
file and the man file is assumed, since the front end is neither under
`src/` nor specified. The man parser is not under `src/`, so the man trees are
inputs: two pages, one with a title and NAME section, one with two tables
and a `TP` item nested in an `RS` block. The listing reference is shared:
`ListingBy(root, L)` takes the line operator, and `Listing` is
`ListingBy(root, Line)`.

**Fairness.** `Fairness == WF_vars(Pre \/ Post)`: the parser makes the pre
and post calls of every node of a document it reads to its end, so a
pending call is eventually made. `RePost`, `Output` and `OutputMan` get
none: the code need not make a repeated post, and the front end is not
modelled beyond its calls of the output functions. The walk ends after the ROOT call or at the
first failure, hence `CHECK_DEADLOCK FALSE`.

**Inputs.** Five families of documents:
- every prologue of up to three macros, one with `Os` after the first
  section, and two without `Os`, one of them opening with DESCRIPTION;
- every sequence of up to three sections over NAME, SYNOPSIS, DESCRIPTION
  and a custom name, with an empty head and with a nested `Sh`;
- seven NAME bodies;
- fifteen display and list blocks: nested displays, displays under a list
  item, lists without a type or with two, every item shape, and a
  `-column` list;
- about fifty shapes of the other macros (`Ss`, `D1`, `Dl`, `Bf`, `An`,
  `Ex`, `Rv`, `Er`, `Cd`, `St`, `Xr`, `At`, `Db`, `Sm`, `Pp`, `In`, `Pf`,
  `Rs`, `Fo` and the text macros), each well formed and in the forms its
  rules refuse or warn about, in manuals of section 1 and of section 2 so
  that every manual-section rule both passes and warns.

Documents with a custom section right after NAME are left out of the
passing run; they are the subject of a violation run.

| run | cfg | expect | shows |
|-----|-----|--------|-------|
| validate_documents | MCValidate.cfg | pass | About 11,600 states in 65 s. |
| validate_column_count | MCValidateColumn.cfg | violation of `ColumnItems` | In `-offset x -column a b`, an item of one cell passes. |
| validate_custom_after_name | MCValidateCustom.cfg | violation of `AcceptedSpec` | `NAME` then `LOCAL`, a title `mdoc_atosec` does not know, with a text line: the walk rejects a document the rules accept. |
| validate_stdarg_noarg | MCValidateNoArg.cfg | violation of `NoAbort` | `.Ex` with a child and no argument reaches the read of `argv[0]`. |

The properties of the passing run are:
- `TypeOK`.
- `SectionOrder`: while no warning has been accepted, named sections come
  in strictly increasing order.
- `NoAbort`: the `assert` of `post_it` never stops the program, because
  `pre_bl` refused every untyped list first. The `argv[0]` read of
  `check_stdarg` needs an `Ex` or `Rv` without an argument, which these
  documents leave to `validate_stdarg_noarg`.
- `TreeListing`: the dump of an accepted document lists every node once,
  in document order, at the depth of its position (`Listing`, a reference
  definition by ranking positions).
- `ManTreeListing`: the dump of the man page lists every node once, in
  document order, at its depth, with a TBL node as its cells.
- `AcceptedSpec` (temporal property): the walk refines `AcceptedDocs`.
  It subsumes the prologue-order and display-nesting properties of the
  previous version of this project. It also covers the NAME-first rule
  of `post_sh_head`. That rule is tested only when `lastnamed` is
  `SEC_BODY`, which the `Os` call sets. Spec section 4.1 makes the first
  BODY section NAME, and `AcceptedDocs` reads the body as beginning at
  `Os`. The documents without `Os` check that a first section other than
  NAME passes there as it does in the code. Repeated post calls on closed
  nodes are also covered: without the `VALID` test, a repeated section
  head would warn and the walk would reject a document the rules accept.

Their mutants are:
- CUSTOM sections counted in `lastnamed`;
- a repeated section let through;
- untyped lists accepted;
- siblings dumped one level deeper;
- a man node's children dumped before its own line;
- `post_nm` not checking for a known name.

## Findings

All findings are recorded in `PROJECT.json`.

1. **Stale page index** (`src/dbm.c:269`). `page_bytitle` tests only
   `ip == npages`. An `ip` left over from a larger file is returned as a
   page.
2. **Spanned last columns overflow the line** (`src/out.c:224`). Maximize
   counts `3*maxcol` gaps up to the last measured column. `term_tbl` lays
   out all `opts->cols` columns.
3. **The right frame moves past a LONG cell** (`src/tbl_term.c:273`).
   `tbl_literal` gives a LONG cell one unit of left padding that
   `tblcalc_literal` never measured. A LONG cell as wide as its column
   therefore ends one unit past the column and leaves `viscol` at the
   offset of the right frame column. There the frame advance is 1, not 0,
   so the `|` of that line stands one column right of the `+` that ends the
   rule and frame lines.
4. **Numbers misaligned** (`src/tbl_term.c:482`). `tbl_number` finds the
   point with `strrchr`, counts the point itself in `d`, and does not pad
   when `col->decimal <= d`. `tblcalc_number` measures the integer part
   before the point. As a result, 1.5 and 12.5 in one column are printed
   with their points one unit apart.
5. **`-column` count from the wrong argument** (`src/validate.c:862`).
   `post_it` compares the item's head cells with `argv->sz`, which is the
   value count of the list's first argument, not of `-column`. With
   `-offset indent -column a b`, an item of one cell passes and an item of
   two cells is refused.
6. **A custom section after NAME is checked as NAME** (`src/validate.c:960`).
   `post_sh_body` decides from `lastnamed == SEC_NAME` that a body is
   NAME's. Custom sections do not move `lastnamed`, so the body of a
   custom section right after NAME must be `Nm ... Nd` too, and an ordinary
   body is warned about as a bad NAME body.
7. **`check_stdarg` reads `argv[0]` first** (`src/validate.c:364`). `pre_ex`
   and `pre_rv` call it before any count rule; `.Ex` with text and no
   argument is a shape `post_ex` accepts, and for it the read is past an
   empty argument vector.

Three results of earlier versions are kept here, without a run of their
own:
- **EQUAL and WMAX** (`src/out.c:212`, `251`). Maximize overwrites the
  width that equalize gave a column flagged both. Equalize has already
  added that column's gain to `xwidth`, a total that never counted the
  column, so the WMAX columns share less than the line leaves.
  `MaximizedFitsLine` therefore requires an exact fill only when no column
  is both.
- **NULL dereference in `dbm_macro_next`** (`src/dbm.c:433`). Before any
  `dbm_macro_bypage`, `dbm_macro_next` reads through the NULL `pp`.
  `FaultOnlyWhenUnarmed` in the Dbm runs shows this is the only way such a
  fault happens.
- **Scenario 4 of the spec** (`src/out.c:253`). The code adds the
  decremented width to the running total, so the next column takes the
  unit back: the widths are 14,15,14,14,15, summing to 72, where the
  scenario says 14,15,14,14,14 and 71. Its own invariant in section 8
  agrees with the code, and `SharesSumToAvail` holds on this input in
  `tblcalc_solve`.

## Not modelled

- **`dbm_match`** is reduced to string equality. Regular-expression and
  substring matching change which pages match, not how the cursor walks.
- **Page records, file-name blocks and endianness** are not modelled. They
  are read only by `dbm_page_get`, which changes no state.
- **`a2roffsu`** parses a layout width string into a scale and a unit
  with `strtod`, once per layout cell. `tblcalc` turns the result into
  columns with `tbl->sulen`, which is `term_hspan` in `term.c`. That file is
  not under `src/`, and the spec does not give its unit factors, so the
  width a string yields cannot be derived here. The model gives layout
  widths as the numbers the conversion leaves in `dp->layout->width`.
- **The parser that builds mdoc trees** is outside `src/`. `Validate`
  models its calls from the spec. Whether it refuses a section before `Os`
  is not stated, so the documents include sections without `Os`.
- **Section heads of 64 bytes or more** are refused by the model as by
  `post_sh_head`, but no document reaches that bound (see above).
- **The `line:pos` suffix** of `print_mdoc` and `print_man` is left out:
  the modelled trees carry no source positions. The man(7) parser and
  validator are not under `src/`, so man trees are fixed inputs.
- **`apropos.c`** is a front-end driver, which spec section 1 puts out of
  scope. Its only decision is the exit status (spec section 6.5): success
  with no expression or when `apropos_search` succeeds, failure on a bad
  option, a bad expression or a database error. Those outcomes come from
  `getopt`, `exprcomp` or `termcomp` and `apropos_search`, none of them under
  `src/`. `list` sorts the results by title with `qsort` and prints them
  once. Nothing is interleaved, retried or kept between calls, so every
  path is one sequential run that a unit test reaches.
