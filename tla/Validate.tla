------------------------------ MODULE Validate ------------------------------
(***************************************************************************)
(* The semantic validator of validate.c.  The parser (not part of this    *)
(* source) builds the macro tree node by node and calls mdoc_valid_pre    *)
(* when a node is appended and mdoc_valid_post when its scope closes.     *)
(* A document is a tree from the constant Docs; Walk flattens it into the *)
(* order of those calls, and each step of the specification is one call:  *)
(* the rule list of the node's macro (mdoc_valids) run in order, each     *)
(* rule producing the diagnostics it emits.  A WARN diagnostic is passed  *)
(* to the caller's opaque policy, modelled as a free choice: accepted     *)
(* (the walk goes on) or refused (the rule returns 0 and the walk stops). *)
(* ERR stops the walk; an assert() stops the program.                     *)
(*                                                                        *)
(* TEXT nodes and the pre calls of HEAD and BODY nodes are left out: for  *)
(* every modelled macro mdoc_valid_pre returns 1 on them and              *)
(* mdoc_valid_post only sets their VALID flag.                            *)
(***************************************************************************)
EXTENDS Integers, Sequences, SequencesExt, FiniteSets

\* Secs: the section names mdoc_atosec knows, in their enum order.
CONSTANTS Docs, Secs

ASSUME Secs # <<>> /\ Secs[1] = "NAME"

----------------------------------------------------------------------------
(* The tree (mdoc_node).  args are the block or element arguments, each  *)
(* [arg, sz] with sz the number of values; head and body the children of *)
(* a BLOCK's HEAD and BODY, body the children of an ELEM; str the string  *)
(* of a TEXT node.                                                        *)

Node(type, tok, args, head, body, str) ==
  [type |-> type, tok |-> tok, args |-> args, head |-> head, body |-> body, str |-> str]
Text(s) == Node("TEXT", "", <<>>, <<>>, <<>>, s)
Elem(tok, kids) == Node("ELEM", tok, <<>>, <<>>, kids, "")
ElemA(tok, args, kids) == Node("ELEM", tok, args, <<>>, kids, "")
Block(tok, args, head, body) == Node("BLOCK", tok, args, head, body, "")
Arg(a, sz) == [arg |-> a, sz |-> sz]

\* An ancestor as the rules see it through the parent pointers.
Ctx(type, n) == [type |-> type, tok |-> n.tok, args |-> n.args]
RootCtx == [type |-> "ROOT", tok |-> "", args |-> <<>>]

\* One call: ev is "pre" or "post", kids the children of the node it is
\* about (mdoc->last->child), blk the BLOCK or ELEM record, up its
\* ancestors from the parent outwards.
Ev(ev, type, n, kids, up) ==
  [ev |-> ev, type |-> type, tok |-> n.tok, args |-> n.args, kids |-> kids,
   blk |-> n, up |-> up]

RECURSIVE Walk(_, _), WalkSeq(_, _)
WalkSeq(ns, up) == IF ns = <<>> THEN <<>> ELSE Walk(Head(ns), up) \o WalkSeq(Tail(ns), up)
Walk(n, up) ==
  LET b == <<Ctx("BLOCK", n)>> \o up IN
  CASE n.type = "TEXT" -> <<>>
    [] n.type = "ELEM" -> <<Ev("pre", "ELEM", n, n.body, up), Ev("post", "ELEM", n, n.body, up)>>
    [] OTHER ->
         <<Ev("pre", "BLOCK", n, <<>>, up)>>
         \o WalkSeq(n.head, <<Ctx("HEAD", n)>> \o b)
         \o <<Ev("post", "HEAD", n, n.head, b)>>
         \o WalkSeq(n.body, <<Ctx("BODY", n)>> \o b)
         \o <<Ev("post", "BODY", n, n.body, b), Ev("post", "BLOCK", n, <<"head", "body">>, up)>>

\* The calls for a whole document, ending with the post call of ROOT.  The
\* prologue macros are children of ROOT when appended, and are taken out
\* of the tree once their meta is recorded: post_root finds the others.
IsPrologue(n) == n.type = "ELEM" /\ n.tok \in {"Dd", "Dt", "Os"}
Events(doc) ==
  LET body == SelectSeq(doc, LAMBDA n : ~IsPrologue(n)) IN
  WalkSeq(doc, <<RootCtx>>)
  \o <<Ev("post", "ROOT", Node("ROOT", "", <<>>, <<>>, body, ""), body, <<>>)>>

----------------------------------------------------------------------------
(* Sections (enum mdoc_sec): PROLOGUE, BODY, the named sections of Secs  *)
(* in order, CUSTOM for any other name.                                   *)

SEC_PROLOGUE == 0
SEC_BODY == 1
SEC_NAME == 2
SEC_CUSTOM == Len(Secs) + 2
mdoc_atosec(s) == IF \E i \in DOMAIN Secs : Secs[i] = s
                  THEN 1 + CHOOSE i \in DOMAIN Secs : Secs[i] = s
                  ELSE SEC_CUSTOM

\* Manual sections as mdoc_atomsec reads them, MSEC_DEFAULT for any other
\* string; AT&T versions as mdoc_atoatt reads them (a sample), ATT_DEFAULT
\* for any other.
MSEC_DEFAULT == "default"
mdoc_atomsec(s) == IF s \in {"1", "2", "3", "4", "5", "6", "7", "8", "9"} THEN s ELSE MSEC_DEFAULT
ATT_DEFAULT == "default"
mdoc_atoatt(s) == IF s \in {"v7", "32v", "V.4"} THEN s ELSE ATT_DEFAULT

\* Diagnostics a rule emits, in order: any number of "warn", then at most
\* one "err" (mdoc_err, mdoc_nerr, mdoc_perr), "assert", or "fault" (a
\* read through a pointer the parser left NULL).
OK == <<>>
Err == <<"err">>
Warn == <<"warn">>
ErrUnless(c) == IF c THEN OK ELSE Err
WarnUnless(c) == IF c THEN OK ELSE Warn

----------------------------------------------------------------------------
(* State: the document and its calls, the next call pc, the VALID flags  *)
(* (valid, the post calls already made), the document meta (title, date, *)
(* os and name, TRUE once set) with lastnamed, the walk's status, and     *)
(* whether a warning was emitted and accepted.                            *)

VARIABLES doc, evs, pc, valid, meta, lastnamed, status, warned

vars == <<doc, evs, pc, valid, meta, lastnamed, status, warned>>

----------------------------------------------------------------------------
(* Pre-child rules.                                                      *)

\* Prologue order: which of (date, title) may be set when the macro comes.
Ordered(tok) ==
  CASE tok = "Os" -> meta.title /\ meta.date
    [] tok = "Dt" -> ~meta.title /\ meta.date
    [] tok = "Dd" -> ~meta.title /\ ~meta.date
Repeated(tok) ==
  CASE tok = "Os" -> meta.os
    [] tok = "Dd" -> meta.date
    [] tok = "Dt" -> meta.title
pre_prologue(e) ==
  ErrUnless(lastnamed = SEC_PROLOGUE /\ Ordered(e.tok) /\ ~Repeated(e.tok))

\* A display block may not have a Bd block among its ancestors.
pre_display(e) ==
  ErrUnless(e.type # "BLOCK"
            \/ ~\E i \in DOMAIN e.up : e.up[i].type = "BLOCK" /\ e.up[i].tok = "Bd")

ListTypes == {"Bullet", "Dash", "Enum", "Hyphen", "Item", "Tag", "Diag",
              "Hang", "Ohang", "Inset", "Column"}
DisplayTypes == {"Ragged", "Unfilled", "Filled", "Literal", "File"}
NTypes(args, T) == Cardinality({i \in DOMAIN args : args[i].arg \in T})

\* Exactly one list type; the mutant lets a list without a type through.
pre_bl_untyped(e) == ErrUnless(e.type # "BLOCK" \/ NTypes(e.args, ListTypes) <= 1)
pre_bl(e) == ErrUnless(e.type # "BLOCK" \/ NTypes(e.args, ListTypes) = 1)
pre_bd(e) == ErrUnless(e.type # "BLOCK" \/ NTypes(e.args, DisplayTypes) = 1)

\* check_parent: the node is appended under a node of the given kind and
\* macro.
check_parent(e, tok, type) ==
  ErrUnless(e.up[1].type = type /\ (tok = "" \/ e.up[1].tok = tok))
pre_sh(e) == IF e.type # "BLOCK" THEN OK ELSE check_parent(e, "", "ROOT")
pre_it(e) == IF e.type # "BLOCK" THEN OK ELSE check_parent(e, "Bl", "BODY")
pre_ss(e) == IF e.type # "BLOCK" THEN OK ELSE check_parent(e, "Sh", "BODY")

\* check_msec: the manual section Dt recorded is one the macro belongs to.
check_msec(e, msecs) == WarnUnless(meta.msec \in msecs)

\* check_stdarg reads argv[0] before it tests argc.  With no argument the
\* parser leaves argv NULL (rd = "crash"), or, read through whatever it
\* holds, the test still fails on argc (rd = "garbage").
ArgvRead == {"crash", "garbage"}
check_stdarg(e, rd) ==
  IF e.args = <<>> THEN (IF rd = "crash" THEN <<"fault">> ELSE Warn)
  ELSE WarnUnless(e.args[1].arg = "Std" /\ Len(e.args) = 1)

pre_st(e) == ErrUnless(Len(e.args) = 1)
pre_an(e) == ErrUnless(Len(e.args) <= 1)
pre_rv(e, rd) == check_msec(e, {"2", "3"}) \o check_stdarg(e, rd)
pre_ex(e, rd) == check_msec(e, {"1", "6", "8"}) \o check_stdarg(e, rd)
pre_er(e) == check_msec(e, {"2"})
pre_cd(e) == check_msec(e, {"4"})

----------------------------------------------------------------------------
(* Post-child rules.  kids are mdoc->last's children.                    *)

\* count_child: the number of children of mdoc->last.
count_child(e) == Len(e.kids)

herr_ge1(e) == IF e.type # "HEAD" THEN OK ELSE ErrUnless(count_child(e) > 0)
herr_eq0(e) == IF e.type # "HEAD" THEN OK ELSE ErrUnless(count_child(e) = 0)
bwarn_ge1(e) == IF e.type # "BODY" THEN OK ELSE WarnUnless(count_child(e) > 0)
herr_le1(e) == IF e.type # "HEAD" THEN OK ELSE ErrUnless(count_child(e) < 2)
eerr_ge1(e) == ErrUnless(count_child(e) > 0)
eerr_eq0(e) == ErrUnless(count_child(e) = 0)
eerr_eq1(e) == ErrUnless(count_child(e) = 1)
eerr_le1(e) == ErrUnless(count_child(e) < 2)
eerr_le2(e) == ErrUnless(count_child(e) < 3)
ewarn_ge1(e) == WarnUnless(count_child(e) > 0)
ewarn_eq0(e) == WarnUnless(count_child(e) = 0)
ewarn_eq1(e) == WarnUnless(count_child(e) = 1)

\* Every child of Db or Sm is the text "on" or "off".
ebool(e) == ErrUnless(\A j \in DOMAIN e.kids : e.kids[j].type = "TEXT" /\ e.kids[j].str \in {"on", "off"})

\* xstrlcats: the strings of the head's children joined by single spaces.
RECURSIVE xstrlcats(_)
xstrlcats(ns) ==
  CASE ns = <<>> -> ""
    [] Len(ns) = 1 -> ns[1].str
    [] OTHER -> ns[1].str \o " " \o xstrlcats(Tail(ns))

\* The head does not fit post_sh_head's 64-byte buffer with its NUL.
TooLong(e) == Len(xstrlcats(e.kids)) >= 64

\* The section a Sh head names (xstrlcats, then mdoc_atosec).
SecOf(e) == mdoc_atosec(xstrlcats(e.kids))

\* Section order.  The first mutant lets a repeated section through, the
\* second drops the rule that NAME comes first.
post_sh_head_norepeat(e) ==
  LET sec == SecOf(e) IN
  CASE TooLong(e) -> Err
    [] lastnamed = SEC_BODY /\ sec # SEC_NAME -> Err
    [] sec = SEC_CUSTOM -> OK
    [] OTHER -> WarnUnless(sec >= lastnamed)
post_sh_head_nofirst(e) ==
  LET sec == SecOf(e) IN
  CASE TooLong(e) -> Err
    [] sec = SEC_CUSTOM -> OK
    [] OTHER -> WarnUnless(sec > lastnamed)
post_sh_head(e) ==
  LET sec == SecOf(e) IN
  CASE TooLong(e) -> Err
    [] lastnamed = SEC_BODY /\ sec # SEC_NAME -> Err
    [] sec = SEC_CUSTOM -> OK
    [] OTHER -> WarnUnless(sec > lastnamed)

\* The NAME section's body: Nm elements or text, then a last Nd.
NameChild(n) == (n.type = "ELEM" /\ n.tok = "Nm") \/ n.type = "TEXT"
post_sh_body(e) ==
  IF lastnamed # SEC_NAME THEN OK
  ELSE IF e.kids = <<>> THEN Warn
  ELSE WarnUnless(\A j \in 1..Len(e.kids) - 1 : NameChild(e.kids[j]))
       \o WarnUnless(Last(e.kids).type = "ELEM" /\ Last(e.kids).tok = "Nd")

post_sh(e) ==
  CASE e.type = "HEAD" -> post_sh_head(e)
    [] e.type = "BODY" -> post_sh_body(e)
    [] OTHER -> OK

post_bl(e) ==
  IF e.type # "BODY" THEN OK
  ELSE ErrUnless(\A j \in DOMAIN e.kids : e.kids[j].type = "BLOCK" /\ e.kids[j].tok = "It")

\* The item shape a list type asks for (TYPE_HEAD, TYPE_BODY, TYPE_OHEAD).
ItemType(a) ==
  CASE a \in {"Tag", "Diag", "Hang", "Ohang", "Inset"} -> "HEAD"
    [] a \in {"Bullet", "Dash", "Enum", "Hyphen", "Item"} -> "BODY"
    [] a = "Column" -> "OHEAD"
    [] OTHER -> "NONE"

\* post_it: the list is the item's grandparent (Bl BLOCK); the first typed
\* argument decides the shape; a -column item needs as many head cells as
\* the list's first argument has values.
post_it(e) ==
  IF e.type # "BLOCK" THEN OK ELSE
  LET args == e.up[2].args
      typed == {i \in DOMAIN args : ItemType(args[i].arg) # "NONE"}
      head == e.blk.head
      body == e.blk.body
  IN IF typed = {} THEN <<"assert">> ELSE
  LET sv == args[Min(typed)].arg IN
  (CASE ItemType(sv) = "HEAD" -> WarnUnless(head # <<>>) \o WarnUnless(body # <<>>)
     [] ItemType(sv) = "BODY" -> WarnUnless(head = <<>>) \o WarnUnless(body # <<>>)
     [] OTHER -> WarnUnless(head # <<>>) \o WarnUnless(body = <<>>))
  \o (IF sv # "Column" THEN OK ELSE ErrUnless(Len(head) = args[1].sz))

\* The mutant forgets a name recorded by an earlier Nm.
post_nm_nometa(e) == ErrUnless(e.kids # <<>>)
post_nm(e) == ErrUnless(e.kids # <<>> \/ meta.name)

\* Bf: a font word in the head, or one argument and an empty head.
post_bf(e) ==
  IF e.type # "BLOCK" THEN OK
  ELSE IF e.args = <<>>
       THEN IF e.blk.head = <<>> THEN Err ELSE ErrUnless(e.blk.head[1].str \in {"Em", "Li", "Sm"})
       ELSE IF e.blk.head # <<>> THEN Err ELSE ErrUnless(Len(e.args) = 1)

\* Xr: a second child is a manual section.
post_xr(e) == IF Len(e.kids) < 2 THEN OK ELSE ErrUnless(mdoc_atomsec(e.kids[2].str) # MSEC_DEFAULT)

\* At: a child is an AT&T version.
post_at(e) == IF e.kids = <<>> THEN OK ELSE ErrUnless(mdoc_atoatt(e.kids[1].str) # ATT_DEFAULT)

\* An: an argument or children, not both.
post_an(e) == IF e.args # <<>> THEN ErrUnless(e.kids = <<>>) ELSE ErrUnless(e.kids # <<>>)

\* Ex: children and no argument, or the single argument -std.
post_ex(e) ==
  IF e.args = <<>> THEN ErrUnless(e.kids # <<>>)
  ELSE ErrUnless(e.kids = <<>> /\ Len(e.args) = 1 /\ e.args[1].arg = "Std")

post_root(e) ==
  ErrUnless(/\ e.kids # <<>>
            /\ lastnamed # SEC_PROLOGUE
            /\ e.kids[1].type = "BLOCK" /\ e.kids[1].tok = "Sh")

\* The macros sharing a rule collection (posts_text, posts_wtext,
\* posts_notext, posts_wline, posts_bool, posts_bd = posts_rs = posts_bk).
PostsText == {"Dd", "Ad", "Cd", "Er", "Sx"}
PostsWText == {"Nd", "Fd"}
PostsNoText == {"Rv", "St", "Ns"}
PostsWLine == {"D1", "Dl", "Op"}
PostsBool == {"Db", "Sm"}
PostsBd == {"Bd", "Rs", "Bk"}

\* The post rules of the call (mdoc_valids[].post, post_root for ROOT).
PostRules(e) ==
  CASE e.type = "ROOT" -> <<post_root(e)>>
    [] e.tok \in PostsText -> <<eerr_ge1(e)>>
    [] e.tok \in PostsWText -> <<ewarn_ge1(e)>>
    [] e.tok \in PostsNoText -> <<eerr_eq0(e)>>
    [] e.tok \in PostsWLine -> <<bwarn_ge1(e), herr_eq0(e)>>
    [] e.tok \in PostsBool -> <<eerr_eq1(e), ebool(e)>>
    [] e.tok \in PostsBd -> <<herr_eq0(e), bwarn_ge1(e)>>
    [] e.tok = "Sh" -> <<herr_ge1(e), bwarn_ge1(e), post_sh(e)>>
    [] e.tok = "Ss" -> <<herr_ge1(e)>>
    [] e.tok = "Bl" -> <<herr_eq0(e), bwarn_ge1(e), post_bl(e)>>
    [] e.tok = "It" -> <<post_it(e)>>
    [] e.tok = "Pp" -> <<ewarn_eq0(e)>>
    [] e.tok = "In" -> <<ewarn_eq1(e)>>
    [] e.tok = "Pf" -> <<eerr_eq1(e)>>
    [] e.tok = "Ex" -> <<eerr_le1(e), post_ex(e)>>
    [] e.tok = "An" -> <<post_an(e)>>
    [] e.tok = "At" -> <<post_at(e)>>
    [] e.tok = "Xr" -> <<eerr_ge1(e), eerr_le2(e), post_xr(e)>>
    [] e.tok = "Nm" -> <<post_nm(e)>>
    [] e.tok = "Bf" -> <<herr_le1(e), post_bf(e)>>
    [] e.tok = "Fo" -> <<bwarn_ge1(e)>>
    [] OTHER -> <<>>

\* A rule list runs until a rule ends in ERR, an assertion or a fault.
Stops(d) == d # <<>> /\ Last(d) \in {"err", "assert", "fault"}
RECURSIVE Chain(_)
Chain(rs) ==
  IF rs = <<>> THEN <<>>
  ELSE IF Stops(Head(rs)) THEN Head(rs) ELSE Head(rs) \o Chain(Tail(rs))

\* mdoc_valid_pre: the pre rules of the macro (mdoc_valids[].pre), in
\* order, the first that fails ending the call.
PreRules(e, rd) ==
  CASE e.tok \in {"Dd", "Dt", "Os"} -> <<pre_prologue(e)>>
    [] e.tok = "Sh" -> <<pre_sh(e)>>
    [] e.tok = "Ss" -> <<pre_ss(e)>>
    [] e.tok \in {"D1", "Dl"} -> <<pre_display(e)>>
    [] e.tok = "Bd" -> <<pre_display(e), pre_bd(e)>>
    [] e.tok = "Bl" -> <<pre_bl(e)>>
    [] e.tok = "It" -> <<pre_it(e)>>
    [] e.tok = "Cd" -> <<pre_cd(e)>>
    [] e.tok = "Er" -> <<pre_er(e)>>
    [] e.tok = "Ex" -> <<pre_ex(e, rd)>>
    [] e.tok = "Rv" -> <<pre_rv(e, rd)>>
    [] e.tok = "An" -> <<pre_an(e)>>
    [] e.tok = "St" -> <<pre_st(e)>>
    [] OTHER -> <<>>
mdoc_valid_pre(e, rd) == Chain(PreRules(e, rd))

\* The results a call can have: any warning may be refused by the policy;
\* with every warning accepted the last diagnostic decides.
Outcomes(ds) ==
  (IF "warn" \in Range(ds) THEN {"err"} ELSE {})
  \cup {IF Stops(ds) THEN Last(ds) ELSE "ok"}

----------------------------------------------------------------------------
(* The meta a successful post call records: Dd the date, Dt the title,   *)
(* Os the os and the end of the prologue (lastnamed becomes SEC_BODY), a *)
(* named Nm the name, a Sh head its section, lastnamed keeping the       *)
(* highest named section seen.  The mutant lets CUSTOM sections count.   *)

Meta(m, l) == [meta |-> m, lastnamed |-> l]
Max2(a, b) == IF a >= b THEN a ELSE b

DtMsec(kids) == IF Len(kids) >= 2 THEN mdoc_atomsec(kids[2].str) ELSE MSEC_DEFAULT
MetaAfterCustom(e) ==
  CASE e.type = "ELEM" /\ e.tok = "Dd" -> Meta([meta EXCEPT !.date = TRUE], lastnamed)
    [] e.type = "ELEM" /\ e.tok = "Dt" ->
         Meta([meta EXCEPT !.title = TRUE, !.msec = DtMsec(e.kids)], lastnamed)
    [] e.type = "ELEM" /\ e.tok = "Os" -> Meta([meta EXCEPT !.os = TRUE], SEC_BODY)
    [] e.type = "ELEM" /\ e.tok = "Nm" /\ e.kids # <<>> -> Meta([meta EXCEPT !.name = TRUE], lastnamed)
    [] e.type = "HEAD" /\ e.tok = "Sh" -> Meta(meta, Max2(lastnamed, SecOf(e)))
    [] OTHER -> Meta(meta, lastnamed)
MetaAfter(e) ==
  CASE e.type = "ELEM" /\ e.tok = "Dd" -> Meta([meta EXCEPT !.date = TRUE], lastnamed)
    [] e.type = "ELEM" /\ e.tok = "Dt" ->
         Meta([meta EXCEPT !.title = TRUE, !.msec = DtMsec(e.kids)], lastnamed)
    [] e.type = "ELEM" /\ e.tok = "Os" -> Meta([meta EXCEPT !.os = TRUE], SEC_BODY)
    [] e.type = "ELEM" /\ e.tok = "Nm" /\ e.kids # <<>> -> Meta([meta EXCEPT !.name = TRUE], lastnamed)
    [] e.type = "HEAD" /\ e.tok = "Sh" /\ SecOf(e) # SEC_CUSTOM ->
         Meta(meta, Max2(lastnamed, SecOf(e)))
    [] OTHER -> Meta(meta, lastnamed)

\* A call ends with result r: "ok" goes on (recording m), "err" (an ERR or a
\* refused warning) and "assert" stop the walk.
Outcome(ds, r, m) ==
  /\ status' = CASE r = "ok" -> "run" [] r \in {"assert", "fault"} -> r [] OTHER -> "fail"
  /\ warned' = (warned \/ (r = "ok" /\ "warn" \in Range(ds)))
  /\ IF r = "ok" THEN meta' = m.meta /\ lastnamed' = m.lastnamed
                 ELSE UNCHANGED <<meta, lastnamed>>

----------------------------------------------------------------------------
(* The calls.                                                            *)

Init ==
  /\ doc \in Docs
  /\ evs = Events(doc)
  /\ pc = 1
  /\ valid = {}
  /\ meta = [title |-> FALSE, date |-> FALSE, os |-> FALSE, name |-> FALSE, msec |-> MSEC_DEFAULT]
  /\ lastnamed = SEC_PROLOGUE
  /\ status = "run"
  /\ warned = FALSE

Walking == status = "run" /\ pc <= Len(evs)

\* mdoc_valid_pre on the next appended node.
Pre ==
  /\ Walking
  /\ evs[pc].ev = "pre"
  /\ \E rd \in ArgvRead :
       LET ds == mdoc_valid_pre(evs[pc], rd) IN
       \E r \in Outcomes(ds) : Outcome(ds, r, Meta(meta, lastnamed))
  /\ pc' = pc + 1
  /\ UNCHANGED <<doc, evs, valid>>

\* mdoc_valid_post on the node of call i: the VALID flag is set first, and
\* a node that has it passes at once.  The mutant has no flag test.
mdoc_valid_post_novalid(i) ==
  /\ valid' = valid \cup {i}
  /\ LET ds == Chain(PostRules(evs[i])) IN
       \E r \in Outcomes(ds) : Outcome(ds, r, MetaAfter(evs[i]))
mdoc_valid_post(i) ==
  /\ valid' = valid \cup {i}
  /\ IF i \in valid THEN UNCHANGED <<meta, lastnamed, status, warned>>
     ELSE LET ds == Chain(PostRules(evs[i])) IN
            \E r \in Outcomes(ds) : Outcome(ds, r, MetaAfter(evs[i]))

\* A scope closes: the post call of the next node in the walk.
Post ==
  /\ Walking
  /\ evs[pc].ev = "post"
  /\ mdoc_valid_post(pc)
  /\ pc' = pc + 1
  /\ UNCHANGED <<doc, evs>>

\* The parser calls post again on a node already closed.
RePost ==
  /\ Walking
  /\ \E i \in 1..pc - 1 : evs[i].ev = "post" /\ mdoc_valid_post(i)
  /\ UNCHANGED <<doc, evs, pc>>

Next == Pre \/ Post \/ RePost

\* The parser makes the pre and post calls of every node of a document it
\* reads to its end: Pre and Post are weakly fair.  A repeated post call
\* is not something the parser must make, and has no fairness.
Fairness == WF_vars(Pre \/ Post)

Spec == Init /\ [][Next]_vars /\ Fairness

----------------------------------------------------------------------------
(* Properties.  Call i has been made and passed when i < pc and the walk *)
(* is still running.                                                     *)

Passed == IF status = "run" THEN 1..pc - 1 ELSE {}
PostedHeads == {i \in Passed : evs[i].ev = "post" /\ evs[i].type = "HEAD" /\ evs[i].tok = "Sh"}
PrologueToks ==
  LET ps == SelectSeq(SubSeq(evs, 1, pc - 1),
                      LAMBDA e : e.ev = "post" /\ e.tok \in {"Dd", "Dt", "Os"})
  IN [k \in DOMAIN ps |-> ps[k].tok]

TypeOK ==
  /\ doc \in Docs
  /\ pc \in 1..Len(evs) + 1
  /\ valid \subseteq {i \in 1..pc - 1 : evs[i].ev = "post"}
  /\ meta \in [title : BOOLEAN, date : BOOLEAN, os : BOOLEAN, name : BOOLEAN,
               msec : {mdoc_atomsec(s) : s \in {"1", "2", "3", "4", "5", "6", "7", "8", "9", ""}}]
  /\ lastnamed \in SEC_PROLOGUE..SEC_CUSTOM - 1
  /\ status \in {"run", "fail", "assert", "fault"}
  /\ warned \in BOOLEAN

\* post_sh_head with lastnamed: while no warning has been accepted, the
\* named (non-CUSTOM) sections passed come in strictly increasing order.
SectionOrder ==
  ~warned =>
    \A i, j \in PostedHeads :
      i < j /\ SecOf(evs[i]) # SEC_CUSTOM /\ SecOf(evs[j]) # SEC_CUSTOM
        => SecOf(evs[i]) < SecOf(evs[j])

\* The walk never stops the program: post_it's assert(TYPE_NONE != type)
\* never fires, pre_bl having refused every list without a type before any
\* of its items closes.  (check_stdarg's read of argv[0] is reached only
\* by an Ex or Rv without an argument, which MCValidateNoArg.cfg checks.)
NoAbort == status \notin {"assert", "fault"}

\* post_it: an item of a -column list passes only when its head has one
\* cell per value of the list's -column argument.
IsColumnItem(e) ==
  e.ev = "post" /\ e.type = "BLOCK" /\ e.tok = "It"
  /\ \E k \in DOMAIN e.up[2].args : e.up[2].args[k].arg = "Column"
ColumnSz(args) == args[CHOOSE k \in DOMAIN args : args[k].arg = "Column"].sz
ColumnItems ==
  \A i \in Passed : IsColumnItem(evs[i]) => Len(evs[i].blk.head) = ColumnSz(evs[i].up[2].args)

\* The verdict of the walk as the caller sees it: mdoc_valid_post on ROOT
\* returned 1 (accept), a call returned 0 (reject), or an assert fired.
Verdict ==
  CASE status \in {"assert", "fault"} -> "abort"
    [] status = "fail" -> "reject"
    [] pc > Len(evs) -> "accept"
    [] OTHER -> "pending"

Accepted == INSTANCE AcceptedDocs WITH verdict <- Verdict

\* The walk of pre and post calls, with the meta, lastnamed and the VALID
\* flags, implements the rule list read over the whole tree: every
\* document gets a verdict (Pre and Post being fair), an accepted document
\* breaks no ERR rule, and a rejected one broke an ERR rule or a WARN
\* rule the policy refused.
AcceptedSpec == Accepted!SafeSpec /\ Accepted!Decides
============================================================================
