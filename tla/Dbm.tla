-------------------------------- MODULE Dbm --------------------------------
(***************************************************************************)
(* The read-only mandoc search database reader of src/dbm.c.               *)
(*                                                                         *)
(* The reader keeps all of its state in file-scope and function-local     *)
(* statics: the page and macro counts copied by dbm_open, the kind of the *)
(* current page iteration, the cursor statics of page_bytitle,            *)
(* page_byarch and page_bymacro, and the cursor statics of macro_bypage.  *)
(* Each API function is one action.  The loops inside a function run to   *)
(* completion within its action, as they do in the single-threaded code. *)
(*                                                                         *)
(* A file is abstracted to the blocks the reader walks.  The name,        *)
(* section and description blocks of all pages lie one after another, as  *)
(* the cursor walk of page_bytitle requires, and are modelled as one      *)
(* sequence of tokens per kind: NUL, a quality byte, or a whole string.   *)
(* The page lists of the values of one macro are likewise one sequence of *)
(* page references, each list ended by NUL.                               *)
(*                                                                         *)
(* Pointer statics survive dbm_close.  A pointer static set before the    *)
(* last unmap is "dangling"; dereferencing it, or a NULL pointer, or      *)
(* reading past a block, is recorded in fault and ends the behaviour.    *)
(***************************************************************************)
EXTENDS Integers, Sequences, SequencesExt, FiniteSets

CONSTANTS
  Files,        \* the database files dbm_open may be given (FileType below)
  MACRO_MAX,    \* number of indexed macro classes
  Strs,         \* strings stored in the files and compared by dbm_match
  Quals,        \* quality bytes that precede names (all non-zero)
  MaxPages,     \* bound on the page cursor of page_bytitle
  MaxOpens,     \* bound on the number of dbm_open calls
  Matches,      \* the match specifications clients pass
  UnarmedNext,  \* may the client call a *_next function with nothing armed
                \* since its last dbm_open
  Calls,        \* the iteration families the client uses: "page" for the
                \* page iterations, "bypage" for dbm_macro_bypage
  NULL          \* the null pointer

ASSUME MACRO_MAX \in Nat \ {0}
ASSUME MaxPages \in Nat /\ MaxOpens \in Nat
ASSUME Matches \subseteq Strs
ASSUME UnarmedNext \in BOOLEAN
ASSUME Calls \subseteq {"page", "bypage"}
ASSUME \A q \in Quals : q \in Nat \ {0}

Macros == 0 .. MACRO_MAX - 1
Pages(f) == 0 .. f.npages - 1

(* Tokens of a block.  NUL ends a string; OUT is what a read past the      *)
(* end of a block finds.                                                   *)
NUL == 0
OUT == -1

(* The on-disk reference to page record p: a file offset, never 0.  The  *)
(* reader turns it back into an index by subtracting the page base.      *)
Addr(p) == p + 1
PageOf(a) == a - 1

(* What a file holds, as far as the reader looks at it.  macrosOk and    *)
(* macroOk say whether the offsets of the macros table and of its entries *)
(* resolve into the mapping (dbm_get returns non-NULL).                  *)
IsFile(f) ==
  /\ f.npages \in Int /\ f.macrosOk \in BOOLEAN /\ f.nmacros \in Int
  /\ f.macroOk \in [Macros -> BOOLEAN]
  /\ f.name \in [Pages(f) -> Seq([q: Quals, s: Strs])]
  /\ f.sect \in [Pages(f) -> Seq(Strs)]
  /\ f.arch \in [Pages(f) -> Seq(Strs)]
  /\ f.desc \in [Pages(f) -> Strs]
  /\ f.macros \in [Macros -> Seq([value: Strs, pages: Seq(Pages(f))])]

ASSUME \A f \in Files : IsFile(f)

ITER_NONE == "NONE"
ITER_NAME == "NAME"
ITER_SECT == "SECT"
ITER_ARCH == "ARCH"
ITER_DESC == "DESC"
ITER_MACRO == "MACRO"
TitleIters == {ITER_NAME, ITER_SECT, ITER_DESC}

Sentinel == [page |-> -1, bits |-> 0]

(* An invalid access: what it was, and in which of dbm_open, dbm_page_next *)
(* and dbm_macro_next.                                                    *)
Fault(what, call) == [what |-> what, call |-> call]
NoArm == [kind |-> ITER_NONE]

-----------------------------------------------------------------------------
(* The blocks as the reader sees them.                                     *)

(* A name block: (quality byte, name, NUL) pairs ended by an extra NUL.    *)
NameBlock(f, p) ==
  FlattenSeq([j \in 1 .. Len(f.name[p]) |->
                <<f.name[p][j].q, f.name[p][j].s, NUL>>]) \o <<NUL>>

(* A section block: NUL-terminated strings ended by an extra NUL.         *)
SectBlock(f, p) ==
  FlattenSeq([j \in 1 .. Len(f.sect[p]) |-> <<f.sect[p][j], NUL>>]) \o <<NUL>>

(* The blocks of one kind of all pages, one after the other.             *)
Region(f, it) ==
  FlattenSeq([i \in 1 .. f.npages |->
    CASE it = ITER_NAME -> NameBlock(f, i - 1)
      [] it = ITER_SECT -> SectBlock(f, i - 1)
      [] it = ITER_DESC -> <<f.desc[i - 1], NUL>>])

(* The page list of value iv (1-based) of macro im, ended by NUL.         *)
PageList(f, im, iv) ==
  [k \in 1 .. Len(f.macros[im][iv].pages) |-> Addr(f.macros[im][iv].pages[k])]
    \o <<NUL>>

PagesRegion(f, im) ==
  FlattenSeq([iv \in 1 .. Len(f.macros[im]) |-> PageList(f, im, iv)])

(* Position of the page list of the value with 0-based index iv.         *)
ListStart(f, im, iv) ==
  1 + Len(FlattenSeq([v \in 1 .. iv |-> PageList(f, im, v)]))

Byte(r, i) == IF i \in 1 .. Len(r) THEN r[i] ELSE OUT

(* strchr(cp, '\0') + 1, or OUT when the block has no NUL from cp on.     *)
AfterNul(r, cp) ==
  LET e == IF cp \in 1 .. Len(r)
           THEN SelectInSubSeq(r, cp, Len(r), LAMBDA b : b = NUL) ELSE 0
  IN IF e = 0 THEN OUT ELSE e + 1

-----------------------------------------------------------------------------
VARIABLES
  map,        \* the file mapped by dbm_map, or NULL
  npages,     \* static npages
  nvals,      \* static nvals[MACRO_MAX]
  iteration,  \* static iteration
  tmatch,     \* page_bytitle: static match
  tcp,        \* page_bytitle: static cp, a position in Region(map, iteration)
  tip,        \* page_bytitle: static ip
  amatch,     \* page_byarch: static match
  aip,        \* page_byarch: static ip
  pp,         \* page_bymacro: static pp, [im, at] in PagesRegion(map, im)
  mim,        \* macro_bypage: static im
  mip,        \* macro_bypage: static ip, a page reference
  miv,        \* macro_bypage: static iv
  mpp,        \* macro_bypage: static pp, a position in PagesRegion(map, mim)
  dangling,   \* pointer statics set before the last unmap
  fault,      \* the first invalid access and the call making it, if any
  parg,       \* client: the page iteration armed since dbm_open, or NoArm
  yielded,    \* client: the results of dbm_page_next since the last arm or
              \* dbm_open
  ended,      \* client: dbm_page_next returned the sentinel since then
  marg,       \* client: the dbm_macro_bypage arguments since dbm_open
  myielded,   \* client: the values returned by dbm_macro_next since then
  mended,     \* client: dbm_macro_next returned NULL since then
  opens       \* client: the number of dbm_open calls so far

statics == <<npages, nvals, iteration, tmatch, tcp, tip, amatch, aip, pp,
             mim, mip, miv, mpp>>
client == <<parg, yielded, ended, marg, myielded, mended, opens>>
vars == <<map, statics, dangling, fault, client>>

Init ==
  /\ map = NULL
  /\ npages = 0
  /\ nvals = [im \in Macros |-> 0]
  /\ iteration = ITER_NONE
  /\ tmatch = NULL /\ tcp = NULL /\ tip = 0
  /\ amatch = NULL /\ aip = 0
  /\ pp = NULL
  /\ mim = 0 /\ mip = 0 /\ miv = 0 /\ mpp = NULL
  /\ dangling = {}
  /\ fault = Fault("none", "none")
  /\ parg = NoArm /\ yielded = <<>> /\ ended = FALSE
  /\ marg = NoArm /\ myielded = <<>> /\ mended = FALSE
  /\ opens = 0

(* Record what dbm_page_next returned.                                     *)
Yield(r) ==
  IF r.page = -1 THEN ended' = (parg # NoArm) /\ UNCHANGED yielded
  ELSE yielded' = Append(yielded, r) /\ UNCHANGED ended

MYield(v) ==
  IF marg = NoArm THEN UNCHANGED <<myielded, mended>>
  ELSE IF v = NULL THEN mended' = TRUE /\ UNCHANGED myielded
  ELSE myielded' = Append(myielded, v) /\ UNCHANGED mended


-----------------------------------------------------------------------------
(* The loops of the iteration functions.                                   *)

(* The search loop of page_bytitle, from page ip and position cp: stops  *)
(* at the first string of a page >= ip that dbm_match accepts, or when ip *)
(* reaches np.  ok is FALSE if the walk read past the block.             *)
RECURSIVE TitleScan(_, _, _, _, _, _)
TitleScan(r, it, m, ip, cp, np) ==
  IF ~(ip < np) THEN [ip |-> ip, cp |-> cp, ok |-> TRUE]
  ELSE LET c == IF it = ITER_NAME THEN cp + 1 ELSE cp
           e == AfterNul(r, c)
       IN IF Byte(r, c) = OUT THEN [ip |-> ip, cp |-> c, ok |-> FALSE]
          ELSE IF Byte(r, c) = m THEN [ip |-> ip, cp |-> c, ok |-> TRUE]
          ELSE IF it = ITER_DESC THEN TitleScan(r, it, m, ip + 1, e, np)
          ELSE IF Byte(r, e) = NUL THEN TitleScan(r, it, m, ip + 1, e + 1, np)
          ELSE TitleScan(r, it, m, ip, e, np)

(* "Skip the remaining names of this page": do cp++ while (cp[-1] != '\0' *)
(* || (iteration != ITER_DESC && cp[-2] != '\0')).  OUT past the block.   *)
RECURSIVE SkipRest(_, _, _)
SkipRest(r, it, cp) ==
  LET c == cp + 1 IN
  IF Byte(r, c - 1) = OUT THEN OUT
  ELSE IF Byte(r, c - 1) # NUL \/ (it # ITER_DESC /\ Byte(r, c - 2) # NUL)
       THEN SkipRest(r, it, c)
       ELSE c

(* The search loop of macro_bypage over the page lists of n values.       *)
RECURSIVE MacroScan(_, _, _, _, _)
MacroScan(r, n, a, iv, cp) ==
  IF ~(iv < n) THEN [iv |-> iv, pp |-> cp, ok |-> TRUE]
  ELSE IF Byte(r, cp) = OUT THEN [iv |-> iv, pp |-> cp, ok |-> FALSE]
  ELSE IF r[cp] = a THEN [iv |-> iv, pp |-> cp, ok |-> TRUE]
  ELSE MacroScan(r, n, a, IF r[cp] = NUL THEN iv + 1 ELSE iv, cp + 1)

(* "Found a match; skip the remaining pages of this entry": unless the    *)
(* value was the last one, the cursor moves past the NUL of its page list. *)
(* MacroSkipNone leaves the cursor on the entry found.                    *)
MacroSkipNone(r, n, iv, cp) == cp
MacroSkip(r, n, iv, cp) == IF iv + 1 < n THEN AfterNul(r, cp) ELSE cp

-----------------------------------------------------------------------------
(* Opening and closing.                                                    *)

(* The header checks of dbm_open, in their order; the first macro whose   *)
(* entry offset does not resolve, MACRO_MAX if there is none.             *)
FirstBadMacro(f) ==
  LET bad == {im \in Macros : ~f.macroOk[im]}
  IN IF bad = {} THEN MACRO_MAX ELSE Min(bad)

(* HeaderValidNoEntries omits the check of the entry offsets.             *)
HeaderValidNoEntries(f) ==
  /\ f.npages >= 0
  /\ f.macrosOk
  /\ f.nmacros = MACRO_MAX

HeaderValid(f) ==
  /\ f.npages >= 0
  /\ f.macrosOk
  /\ f.nmacros = MACRO_MAX
  /\ FirstBadMacro(f) = MACRO_MAX

(* dbm_open: map the file, copy npages, check the macros table, copy      *)
(* nvals[] entry by entry.  On a failed check, unmap and return -1 with   *)
(* the statics assigned so far left in place.  A success with an entry    *)
(* offset that does not resolve would read nvals[im] through NULL.        *)
dbm_open(f) ==
  /\ fault.what = "none"
  /\ map = NULL
  /\ opens < MaxOpens
  /\ opens' = opens + 1
  /\ npages' = f.npages
  /\ nvals' =
       IF f.npages >= 0 /\ f.macrosOk /\ f.nmacros = MACRO_MAX
       THEN [im \in Macros |->
               IF im < FirstBadMacro(f) THEN Len(f.macros[im]) ELSE nvals[im]]
       ELSE nvals
  /\ map' = IF HeaderValid(f) THEN f ELSE NULL
  /\ fault' = IF HeaderValid(f) /\ FirstBadMacro(f) < MACRO_MAX
              THEN Fault("null", "open") ELSE fault
  /\ UNCHANGED <<iteration, tmatch, tcp, tip, amatch, aip, pp,
                 mim, mip, miv, mpp, dangling, parg, yielded, ended,
                 marg, myielded, mended>>

(* dbm_close: unmap.  The pointer statics keep pointing into the mapping. *)
dbm_close ==
  /\ fault.what = "none"
  /\ map # NULL
  /\ map' = NULL
  /\ dangling' = dangling \cup
       {v \in {"cp", "pp", "mpp"} :
          CASE v = "cp" -> tcp # NULL [] v = "pp" -> pp # NULL
            [] v = "mpp" -> mpp # NULL}
  /\ parg' = NoArm /\ yielded' = <<>> /\ ended' = FALSE
  /\ marg' = NoArm /\ myielded' = <<>> /\ mended' = FALSE
  /\ UNCHANGED <<statics, fault, opens>>

-----------------------------------------------------------------------------
(* Arming page iterations.                                                 *)

Arm(kind, m, im) ==
  /\ parg' = [kind |-> kind, m |-> m, im |-> im]
  /\ yielded' = <<>> /\ ended' = FALSE

(* page_bytitle_arm_cp0 starts the cursor one byte before the block.     *)
page_bytitle_arm_cp0(it, m) ==
  /\ fault.what = "none" /\ map # NULL
  /\ iteration' = it
  /\ tmatch' = m
  /\ tcp' = 0
  /\ tip' = 0
  /\ dangling' = dangling \ {"cp"}
  /\ Arm(it, m, 0)
  /\ UNCHANGED <<map, npages, nvals, amatch, aip, pp, mim, mip, miv, mpp,
                 fault, marg, myielded, mended, opens>>

(* dbm_page_byname, dbm_page_bysect, dbm_page_bydesc: page_bytitle with a *)
(* match starts at the block of page 0.  With no pages, pages[0] lies     *)
(* past the page array and the offset read there is whatever follows it:  *)
(* a cursor outside the block, which only the ip < npages test keeps the *)
(* scan from dereferencing.                                               *)
page_bytitle_arm(it, m) ==
  /\ fault.what = "none" /\ map # NULL
  /\ iteration' = it
  /\ tmatch' = m
  /\ tcp' = IF npages = 0 THEN OUT ELSE 1
  /\ tip' = 0
  /\ dangling' = dangling \ {"cp"}
  /\ Arm(it, m, 0)
  /\ UNCHANGED <<map, npages, nvals, amatch, aip, pp, mim, mip, miv, mpp,
                 fault, marg, myielded, mended, opens>>

(* dbm_page_byarch. *)
page_byarch_arm(m) ==
  /\ fault.what = "none" /\ map # NULL
  /\ iteration' = ITER_ARCH
  /\ amatch' = m
  /\ aip' = 0
  /\ Arm(ITER_ARCH, m, 0)
  /\ UNCHANGED <<map, npages, nvals, tmatch, tcp, tip, pp, mim, mip, miv, mpp,
                 dangling, fault, marg, myielded, mended, opens>>

(* dbm_page_bymacro: find the first value of macro im that matches and    *)
(* point pp at its page list, or set pp to NULL.                          *)
page_bymacro_arm(im, m) ==
  /\ fault.what = "none" /\ map # NULL
  /\ iteration' = ITER_MACRO
  /\ LET iv == SelectInSubSeq(map.macros[im], 1, nvals[im],
                              LAMBDA e : e.value = m)
     IN pp' = IF iv = 0 THEN NULL
              ELSE [im |-> im, at |-> ListStart(map, im, iv - 1)]
  /\ dangling' = dangling \ {"pp"}
  /\ Arm(ITER_MACRO, m, im)
  /\ UNCHANGED <<map, npages, nvals, tmatch, tcp, tip, amatch, aip,
                 mim, mip, miv, mpp, fault, marg, myielded, mended, opens>>

-----------------------------------------------------------------------------
(* dbm_page_next, dispatched on the static iteration.                      *)

PageNextAllowed ==
  /\ fault.what = "none" /\ map # NULL
  /\ UnarmedNext \/ parg # NoArm

page_next_none ==
  /\ PageNextAllowed
  /\ iteration = ITER_NONE
  /\ Yield(Sentinel)
  /\ UNCHANGED <<map, statics, dangling, fault, parg, marg, myielded, mended,
                 opens>>

(* page_bytitle without a match.  The scan dereferences cp when ip <      *)
(* npages, and the quality byte cp[-1] is read for every name hit.        *)
page_bytitle_next ==
  /\ PageNextAllowed
  /\ iteration \in TitleIters
  /\ tip <= MaxPages
  /\ LET r == Region(map, iteration)
         s == TitleScan(r, iteration, tmatch, tip, tcp, npages)
         stale == "cp" \in dangling /\
                    (tip < npages \/ (tip /= npages /\ iteration = ITER_NAME))
         nip == s.ip + 1
         ncp == IF nip < npages THEN SkipRest(r, iteration, s.cp) ELSE s.cp
     IN \/ /\ stale \/ ~s.ok
           /\ fault' = Fault(IF stale THEN "dangling" ELSE "overrun", "page")
           /\ UNCHANGED <<statics, yielded, ended>>
        \/ /\ ~stale /\ s.ok /\ s.ip = npages
           /\ iteration' = ITER_NONE /\ tmatch' = NULL /\ tcp' = NULL
           /\ tip' = s.ip
           /\ Yield(Sentinel)
           /\ UNCHANGED <<npages, nvals, amatch, aip, pp, mim, mip, miv, mpp,
                          fault>>
        \/ /\ ~stale /\ s.ok /\ s.ip /= npages
           /\ fault' = IF ncp = OUT THEN Fault("overrun", "page") ELSE fault
           /\ tip' = nip
           /\ tcp' = ncp
           /\ Yield([page |-> s.ip,
                     bits |-> IF iteration = ITER_NAME
                              THEN Byte(r, s.cp - 1) ELSE 0])
           /\ UNCHANGED <<npages, nvals, iteration, tmatch, amatch, aip, pp,
                          mim, mip, miv, mpp>>
  /\ UNCHANGED <<map, dangling, parg, marg, myielded, mended, opens>>

(* "res.page = ip++": the cursor resumes after the page returned.          *)
(* ArchResumeNoInc drops the increment.                                     *)
ArchResumeNoInc(p) == p
ArchResume(p) == p + 1

(* page_byarch without a match: the next page from ip on that has an      *)
(* architecture block with a string dbm_match accepts.                    *)
page_byarch_next ==
  /\ PageNextAllowed
  /\ iteration = ITER_ARCH
  /\ LET hits == {p \in aip .. npages - 1 :
                    \E k \in 1 .. Len(map.arch[p]) : map.arch[p][k] = amatch}
     IN \/ /\ hits = {}
           /\ aip' = IF aip < npages THEN npages ELSE aip
           /\ iteration' = ITER_NONE /\ amatch' = NULL
           /\ Yield(Sentinel)
        \/ /\ hits /= {}
           /\ aip' = ArchResume(Min(hits))
           /\ Yield([page |-> Min(hits), bits |-> 0])
           /\ UNCHANGED <<iteration, amatch>>
  /\ UNCHANGED <<map, npages, nvals, tmatch, tcp, tip, pp, mim, mip, miv, mpp,
                 dangling, fault, parg, marg, myielded, mended, opens>>

(* page_bymacro without a match: the next entry of the page list.        *)
page_bymacro_next ==
  /\ PageNextAllowed
  /\ iteration = ITER_MACRO
  /\ \/ /\ pp = NULL
        /\ iteration' = ITER_NONE
        /\ Yield(Sentinel)
        /\ UNCHANGED <<pp, fault>>
     \/ /\ pp /= NULL
        /\ "pp" \in dangling \/ Byte(PagesRegion(map, pp.im), pp.at) = OUT
        /\ fault' = Fault(IF "pp" \in dangling THEN "dangling" ELSE "overrun",
                          "page")
        /\ UNCHANGED <<iteration, pp, yielded, ended>>
     \/ /\ pp /= NULL /\ "pp" \notin dangling
        /\ LET a == Byte(PagesRegion(map, pp.im), pp.at) IN
           \/ /\ a = NUL
              /\ iteration' = ITER_NONE /\ pp' = NULL
              /\ Yield(Sentinel)
              /\ UNCHANGED fault
           \/ /\ a \notin {NUL, OUT}
              /\ pp' = [pp EXCEPT !.at = @ + 1]
              /\ Yield([page |-> PageOf(a), bits |-> 0])
              /\ UNCHANGED <<iteration, fault>>
  /\ UNCHANGED <<map, npages, nvals, tmatch, tcp, tip, amatch, aip,
                 mim, mip, miv, mpp, dangling, parg, marg, myielded, mended, opens>>

dbm_page_next ==
  \/ page_next_none
  \/ page_bytitle_next
  \/ page_byarch_next
  \/ page_bymacro_next

-----------------------------------------------------------------------------
(* Iteration over the values of one macro that reference one page.         *)

(* dbm_macro_bypage_keepiv leaves iv as the last iteration left it.      *)
dbm_macro_bypage_keepiv(im, p) ==
  /\ fault.what = "none" /\ map # NULL
  /\ mim' = im
  /\ mip' = Addr(p)
  /\ mpp' = 1
  /\ dangling' = dangling \ {"mpp"}
  /\ marg' = [im |-> im, page |-> p]
  /\ myielded' = <<>> /\ mended' = FALSE
  /\ UNCHANGED <<map, npages, nvals, iteration, tmatch, tcp, tip, amatch, aip,
                 pp, miv, fault, parg, yielded, ended, opens>>

(* dbm_macro_bypage(im, ip), where ip is the reference of page p that    *)
(* the client took from dbm_page_get.  The cursor starts at the page list *)
(* of value 0.                                                            *)
dbm_macro_bypage(im, p) ==
  /\ fault.what = "none" /\ map # NULL
  /\ mim' = im
  /\ mip' = Addr(p)
  /\ mpp' = 1
  /\ miv' = 0
  /\ dangling' = dangling \ {"mpp"}
  /\ marg' = [im |-> im, page |-> p]
  /\ myielded' = <<>> /\ mended' = FALSE
  /\ UNCHANGED <<map, npages, nvals, iteration, tmatch, tcp, tip, amatch, aip,
                 pp, fault, parg, yielded, ended, opens>>

(* dbm_macro_next: macro_bypage(MACRO_MAX, 0).  While im < MACRO_MAX the *)
(* scan dereferences pp as long as iv < nvals[im], whether or not pp was *)
(* ever set.                                                              *)
dbm_macro_next ==
  /\ fault.what = "none" /\ map # NULL
  /\ UnarmedNext \/ marg # NoArm
  /\ \/ /\ mim >= MACRO_MAX
        /\ MYield(NULL)
        /\ UNCHANGED <<mim, mip, miv, mpp, fault>>
     \/ /\ mim < MACRO_MAX /\ miv < nvals[mim]
        /\ mpp = NULL \/ "mpp" \in dangling
        /\ fault' = Fault(IF mpp = NULL THEN "null" ELSE "dangling", "macro")
        /\ UNCHANGED <<mim, mip, miv, mpp, myielded, mended>>
     \/ /\ mim < MACRO_MAX
        /\ ~(miv < nvals[mim] /\ (mpp = NULL \/ "mpp" \in dangling))
        /\ LET r == PagesRegion(map, mim)
               s == MacroScan(r, nvals[mim], mip, miv, mpp)
           IN \* A read past the page lists, or iv left beyond nvals[im] by
              \* an iteration over another file: macros[im][iv - 1].value
              \* then lies past the values of the macro.
              \/ /\ ~s.ok \/ s.iv > nvals[mim]
                 /\ fault' = Fault("overrun", "macro")
                 /\ UNCHANGED <<mim, mip, miv, mpp, myielded, mended>>
              \/ /\ s.ok /\ s.iv = nvals[mim]
                 /\ mim' = MACRO_MAX /\ mip' = 0 /\ mpp' = NULL /\ miv' = s.iv
                 /\ MYield(NULL)
                 /\ UNCHANGED fault
              \/ /\ s.ok /\ s.iv < nvals[mim]
                 /\ miv' = s.iv + 1
                 /\ mpp' = MacroSkip(r, nvals[mim], s.iv, s.pp)
                 /\ fault' = IF mpp' = OUT THEN Fault("overrun", "macro")
                             ELSE fault
                 /\ MYield(map.macros[mim][s.iv + 1].value)
                 /\ UNCHANGED <<mim, mip>>

  /\ UNCHANGED <<map, npages, nvals, iteration, tmatch, tcp, tip, amatch, aip,
                 pp, dangling, parg, yielded, ended, marg, opens>>

-----------------------------------------------------------------------------
(* The page iterations and macro_bypage share no static, so a client that *)
(* uses only one family explores all the states of that family.          *)
PageCalls ==
  /\ "page" \in Calls
  /\ \/ \E it \in TitleIters, m \in Matches : page_bytitle_arm(it, m)
     \/ \E m \in Matches : page_byarch_arm(m)
     \/ \E im \in Macros, m \in Matches : page_bymacro_arm(im, m)
     \/ dbm_page_next

ByPageCalls ==
  /\ "bypage" \in Calls
  /\ \/ \E im \in Macros, p \in 0 .. npages - 1 :
          map # NULL /\ dbm_macro_bypage(im, p)
     \/ dbm_macro_next

Next ==
  \/ \E f \in Files : dbm_open(f)
  \/ dbm_close
  \/ PageCalls
  \/ ByPageCalls

Spec == Init /\ [][Next]_vars

-----------------------------------------------------------------------------
(* What an iteration promises.                                             *)

(* Whether page p of f has an entry of the armed kind that the match      *)
(* accepts, and the quality byte of its first such name.                  *)
Hit(f, a, p) ==
  CASE a.kind = ITER_NAME -> \E j \in 1 .. Len(f.name[p]) : f.name[p][j].s = a.m
    [] a.kind = ITER_SECT -> \E j \in 1 .. Len(f.sect[p]) : f.sect[p][j] = a.m
    [] a.kind = ITER_ARCH -> \E j \in 1 .. Len(f.arch[p]) : f.arch[p][j] = a.m
    [] a.kind = ITER_DESC -> f.desc[p] = a.m

Quality(f, a, p) ==
  IF a.kind = ITER_NAME
  THEN f.name[p][SelectInSeq(f.name[p], LAMBDA e : e.s = a.m)].q
  ELSE 0

(* The results an armed page iteration should return, in order: every   *)
(* page with a hit once, in page order; for a macro, the page list of the *)
(* first value the match accepts.                                         *)
Expected(f, a) ==
  IF a.kind = ITER_MACRO
  THEN LET iv == SelectInSeq(f.macros[a.im], LAMBDA e : e.value = a.m)
           pl == IF iv = 0 THEN <<>> ELSE f.macros[a.im][iv].pages
       IN [k \in 1 .. Len(pl) |-> [page |-> pl[k], bits |-> 0]]
  ELSE LET hits == SelectSeq([i \in 1 .. f.npages |-> i - 1],
                             LAMBDA p : Hit(f, a, p))
       IN [k \in 1 .. Len(hits) |->
             [page |-> hits[k], bits |-> Quality(f, a, hits[k])]]

(* The values of macro im whose page list holds page p, in order.        *)
ExpectedValues(f, a) ==
  LET vs == SelectSeq(f.macros[a.im],
                      LAMBDA e : \E k \in 1 .. Len(e.pages) : e.pages[k] = a.page)
  IN [k \in 1 .. Len(vs) |-> vs[k].value]

-----------------------------------------------------------------------------
(* Properties.                                                             *)

TypeOK ==
  /\ map \in Files \cup {NULL}
  /\ npages \in Int /\ nvals \in [Macros -> Nat]
  /\ iteration \in TitleIters \cup {ITER_NONE, ITER_ARCH, ITER_MACRO}
  /\ tmatch \in Strs \cup {NULL} /\ amatch \in Strs \cup {NULL}
  /\ tcp \in (Nat \ {0}) \cup {OUT, NULL} /\ tip \in Nat /\ aip \in Nat
  /\ pp \in [im: Macros, at: Nat \ {0}] \cup {NULL}
  /\ mim \in 0 .. MACRO_MAX /\ miv \in Nat /\ mpp \in Nat \cup {NULL}
  /\ dangling \subseteq {"cp", "pp", "mpp"}
  /\ fault \in {Fault("none", "none")} \cup
               [what: {"null", "dangling", "overrun"},
                call: {"open", "page", "macro"}]

(* dbm_page_next walks the name, section and description blocks of all   *)
(* pages as one byte stream (page_bytitle), skips the rest of a page      *)
(* after a hit, and reads page lists entry by entry (page_bymacro): each *)
(* armed iteration returns, in order, exactly the pages whose entries the *)
(* match accepts, each once, with the quality byte of the first matching  *)
(* name, and then the sentinel.                                           *)
IterationFollowsFilter ==
  parg # NoArm =>
    /\ IsPrefix(yielded, Expected(map, parg))
    /\ ended => yielded = Expected(map, parg)

(* dbm_macro_next walks the page lists of all values of a macro as one   *)
(* stream, counting the NULs that end them (macro_bypage): it returns     *)
(* exactly the values whose list holds the page, in order, and then NULL. *)
MacroByPageFollows ==
  marg # NoArm =>
    /\ IsPrefix(myielded, ExpectedValues(map, marg))
    /\ mended => myielded = ExpectedValues(map, marg)

(* Every invalid access is made by dbm_page_next or dbm_macro_next called *)
(* with nothing of its kind armed since the last dbm_open: the cursor     *)
(* statics they then read were left by an iteration over an earlier      *)
(* mapping (page_bytitle's cp, page_bymacro's pp, macro_bypage's pp and    *)
(* iv) or never set (macro_bypage's pp is NULL until the first            *)
(* dbm_macro_bypage).                                                     *)
FaultOnlyWhenUnarmed ==
  fault.what # "none" =>
    \/ fault.call = "page" /\ parg = NoArm
    \/ fault.call = "macro" /\ marg = NoArm

(* Spec section 8: every page index dbm_page_next returns is a page of    *)
(* the open file.                                                         *)
PageInRange == \A i \in 1 .. Len(yielded) : yielded[i].page \in 0 .. npages - 1

====
