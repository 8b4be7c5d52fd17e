---------------------------- MODULE AcceptedDocs ----------------------------
(***************************************************************************)
(* What the validator promises, without its walk: a document is judged   *)
(* once, and the verdict is the one its rules allow.  The rules are the  *)
(* spec's rule list (section 4.1) read as statements about the whole     *)
(* tree, with the counting rules the rule table binds to each macro.     *)
(* A document breaking an ERR rule must be rejected; one breaking only   *)
(* WARN rules may be accepted or rejected, as the caller's warning policy *)
(* decides; any other must be accepted.                                  *)
(***************************************************************************)
EXTENDS Integers, Sequences, SequencesExt, FiniteSets

CONSTANTS Docs, Secs

VARIABLES doc, verdict

----------------------------------------------------------------------------
(* Every BLOCK and ELEM of the tree in document order, with its           *)
(* ancestors (kind, macro, arguments) from the parent outwards.           *)

Anc(type, n) == [type |-> type, tok |-> n.tok, args |-> n.args]
RECURSIVE Placed(_, _)
Placed(ns, up) ==
  IF ns = <<>> THEN <<>>
  ELSE LET n == Head(ns)
           b == <<Anc("BLOCK", n)>> \o up
       IN <<[n |-> n, up |-> up]>>
          \o (IF n.type = "BLOCK"
              THEN Placed(n.head, <<Anc("HEAD", n)>> \o b)
                   \o Placed(n.body, <<Anc("BODY", n)>> \o b)
              ELSE <<>>)
          \o Placed(Tail(ns), up)

Nodes(d) == Placed(d, <<[type |-> "ROOT", tok |-> "", args |-> <<>>]>>)
Is(n, type, tok) == n.type = type /\ n.tok = tok
Somewhere(d, P(_)) == \E k \in DOMAIN Nodes(d) : P(Nodes(d)[k])
Below(p, type, tok) == \E k \in DOMAIN p.up : p.up[k].type = type /\ p.up[k].tok = tok

IsPrologue(n) == n.type = "ELEM" /\ n.tok \in {"Dd", "Dt", "Os"}
IsSh(n) == Is(n, "BLOCK", "Sh")
\* The name a section head gives: its words joined by single spaces.
Words(ns) ==
  IF ns = <<>> THEN ""
  ELSE FoldLeft(LAMBDA w, n : w \o " " \o n.str, Head(ns).str, Tail(ns))
Title(n) == Words(n.head)
Named(n) == \E i \in DOMAIN Secs : Secs[i] = Title(n)
Rank(n) == CHOOSE i \in DOMAIN Secs : Secs[i] = Title(n)
Sections(d) == SelectSeq(d, IsSh)
NamedSections(d) == SelectSeq(Sections(d), Named)
Body(d) == SelectSeq(d, LAMBDA n : ~IsPrologue(n))

Types(args, T) == Cardinality({i \in DOMAIN args : args[i].arg \in T})
ListTypes == {"Bullet", "Dash", "Enum", "Hyphen", "Item", "Tag", "Diag",
              "Hang", "Ohang", "Inset", "Column"}
DisplayTypes == {"Ragged", "Unfilled", "Filled", "Literal", "File"}

\* The manual section the prologue's Dt names ("default" without one).
SectionNumbers == {"1", "2", "3", "4", "5", "6", "7", "8", "9"}
Msec(d) ==
  LET dts == SelectSeq(d, LAMBDA n : Is(n, "ELEM", "Dt")) IN
  IF dts # <<>> /\ Len(dts[1].body) >= 2 /\ dts[1].body[2].str \in SectionNumbers
  THEN dts[1].body[2].str ELSE "default"
StdArg(n) == Len(n.args) = 1 /\ n.args[1].arg = "Std"

\* The counting rules the rule table binds to macros: the children of the
\* element, or of a block's head or body, number lo to hi (Many: no bound).
Many == 1000
Count(toks, part, sev, lo, hi) ==
  {[tok |-> t, part |-> part, sev |-> sev, lo |-> lo, hi |-> hi] : t \in toks}
Counts ==
  Count({"Dd", "Ad", "Cd", "Er", "Sx", "Xr"}, "ELEM", "ERR", 1, Many)
  \cup Count({"Nd", "Fd"}, "ELEM", "WARN", 1, Many)
  \cup Count({"Rv", "St", "Ns"}, "ELEM", "ERR", 0, 0)
  \cup Count({"Db", "Sm", "Pf"}, "ELEM", "ERR", 1, 1)
  \cup Count({"Pp"}, "ELEM", "WARN", 0, 0) \cup Count({"In"}, "ELEM", "WARN", 1, 1)
  \cup Count({"Ex"}, "ELEM", "ERR", 0, 1) \cup Count({"Xr"}, "ELEM", "ERR", 0, 2)
  \cup Count({"Sh", "Ss"}, "HEAD", "ERR", 1, Many)
  \cup Count({"D1", "Dl", "Op", "Bd", "Rs", "Bk", "Bl"}, "HEAD", "ERR", 0, 0)
  \cup Count({"Bf"}, "HEAD", "ERR", 0, 1)
  \cup Count({"D1", "Dl", "Op", "Bd", "Rs", "Bk", "Bl", "Sh", "Fo"}, "BODY", "WARN", 1, Many)
Part(n, part) == IF part = "HEAD" THEN n.head ELSE n.body
CountBroken(d, sev) ==
  Somewhere(d, LAMBDA p : \E r \in Counts :
    /\ r.tok = p.n.tok /\ r.sev = sev
    /\ (r.part = "ELEM") = (p.n.type = "ELEM")
    /\ Len(Part(p.n, r.part)) \notin r.lo..r.hi)

----------------------------------------------------------------------------
(* ERR rules.                                                            *)

\* Prologue: Dd, Dt, Os in that order, each once, none after a named
\* section; Dd carries its date.
PrologueBroken(d) ==
  LET ps == SelectSeq(d, IsPrologue) IN
  \/ ~IsPrefix([k \in DOMAIN ps |-> ps[k].tok], <<"Dd", "Dt", "Os">>)
  \/ \E i, j \in DOMAIN d : i < j /\ IsSh(d[i]) /\ Named(d[i]) /\ IsPrologue(d[j])

\* Root: a first child that is a section, and the prologue or a named
\* section seen (lastnamed past SEC_PROLOGUE).
RootBroken(d) ==
  \/ Body(d) = <<>>
  \/ ~IsSh(Body(d)[1])
  \/ ~(\E i \in DOMAIN d : Is(d[i], "ELEM", "Os")) /\ NamedSections(d) = <<>>

\* Sections: the first BODY section is NAME.  The body begins at Os, the
\* last prologue macro; a document without Os has no body sections.
BodySections(d) ==
  LET os == {i \in DOMAIN d : Is(d[i], "ELEM", "Os")} IN
  IF os = {} THEN <<>> ELSE SelectSeq(SubSeq(d, Min(os) + 1, Len(d)), IsSh)
SectionsBroken(d) == BodySections(d) # <<>> /\ Title(BodySections(d)[1]) # "NAME"

\* Parents: Sh under ROOT, Ss in a section's body, It in a list's body.
In(p, type, tok) == p.up[1].type = type /\ (tok = "" \/ p.up[1].tok = tok)
ParentsBroken(d) ==
  Somewhere(d, LAMBDA p :
    \/ Is(p.n, "BLOCK", "Sh") /\ ~In(p, "ROOT", "")
    \/ Is(p.n, "BLOCK", "Ss") /\ ~In(p, "BODY", "Sh")
    \/ Is(p.n, "BLOCK", "It") /\ ~In(p, "BODY", "Bl"))

\* Displays (Bd, D1, Dl) do not nest in a Bd; a display and a list have
\* exactly one type; a list's body holds items only.
BlocksBroken(d) ==
  Somewhere(d, LAMBDA p :
    \/ p.n.type = "BLOCK" /\ p.n.tok \in {"Bd", "D1", "Dl"} /\ Below(p, "BLOCK", "Bd")
    \/ Is(p.n, "BLOCK", "Bd") /\ Types(p.n.args, DisplayTypes) # 1
    \/ Is(p.n, "BLOCK", "Bl") /\ Types(p.n.args, ListTypes) # 1
    \/ Is(p.n, "BLOCK", "Bl") /\ \E j \in DOMAIN p.n.body : ~Is(p.n.body[j], "BLOCK", "It"))

\* Element shapes: Db and Sm say on or off; St has one argument; An an
\* argument or children, at most one argument; Ex children without an
\* argument or the single argument -std; Xr's second child a manual
\* section; At's child an AT&T version; Bf a font word in its head, or one
\* argument and no head.
Fonts == {"Em", "Li", "Sm"}
AttVersions == {"v7", "32v", "V.4"}
MacrosBroken(d) ==
  Somewhere(d, LAMBDA p :
    LET n == p.n IN
    \/ n.tok \in {"Db", "Sm"} /\ \E j \in DOMAIN n.body : ~(n.body[j].type = "TEXT" /\ n.body[j].str \in {"on", "off"})
    \/ n.tok = "St" /\ Len(n.args) # 1
    \/ n.tok = "An" /\ (Len(n.args) > 1 \/ (n.args = <<>>) = (n.body = <<>>))
    \/ n.tok = "Ex" /\ IF n.args = <<>> THEN n.body = <<>> ELSE (n.body # <<>> \/ ~StdArg(n))
    \/ n.tok = "Xr" /\ Len(n.body) >= 2 /\ n.body[2].str \notin SectionNumbers
    \/ n.tok = "At" /\ n.body # <<>> /\ n.body[1].str \notin AttVersions
    \/ Is(n, "BLOCK", "Bf") /\
         IF n.args = <<>> THEN (n.head = <<>> \/ n.head[1].str \notin Fonts)
         ELSE (n.head # <<>> \/ Len(n.args) # 1))

\* An item of a -column list has one head cell per column value.
ColumnArg(args) == CHOOSE k \in DOMAIN args : args[k].arg = "Column"
ColumnsBroken(d) ==
  Somewhere(d, LAMBDA p :
    /\ Is(p.n, "BLOCK", "It") /\ p.up[2].type = "BLOCK"
    /\ \E k \in DOMAIN p.up[2].args : p.up[2].args[k].arg = "Column"
    /\ Len(p.n.head) # p.up[2].args[ColumnArg(p.up[2].args)].sz)

\* An Nm without a name comes after an Nm that gave one.
NameBroken(d) ==
  LET ns == Nodes(d) IN
  \E i \in DOMAIN ns :
    Is(ns[i].n, "ELEM", "Nm") /\ ns[i].n.body = <<>>
    /\ ~\E j \in 1..i - 1 : Is(ns[j].n, "ELEM", "Nm") /\ ns[j].n.body # <<>>

Broken(d) ==
  PrologueBroken(d) \/ RootBroken(d) \/ SectionsBroken(d) \/ ParentsBroken(d) \/ BlocksBroken(d)
  \/ ColumnsBroken(d) \/ NameBroken(d) \/ MacrosBroken(d) \/ CountBroken(d, "ERR")

----------------------------------------------------------------------------
(* WARN rules.                                                           *)

\* Named sections in strictly increasing conventional order.
OrderWarned(d) ==
  \E i, j \in DOMAIN NamedSections(d) : i < j /\ Rank(NamedSections(d)[i]) >= Rank(NamedSections(d)[j])

\* NAME holds names (Nm) or text and ends with one Nd.
NameBodyWarned(n) ==
  \/ n.body = <<>>
  \/ \E j \in 1..Len(n.body) - 1 : ~(Is(n.body[j], "ELEM", "Nm") \/ n.body[j].type = "TEXT")
  \/ ~Is(Last(n.body), "ELEM", "Nd")

\* The shape of an item: head and body as its list type asks.
ItemType(a) ==
  CASE a \in {"Tag", "Diag", "Hang", "Ohang", "Inset"} -> "HEAD"
    [] a \in {"Bullet", "Dash", "Enum", "Hyphen", "Item"} -> "BODY"
    [] OTHER -> "OHEAD"
ItemWarned(n, args) ==
  LET t == ItemType(args[CHOOSE k \in DOMAIN args : args[k].arg \in ListTypes].arg) IN
  CASE t = "HEAD" -> n.head = <<>> \/ n.body = <<>>
    [] t = "BODY" -> n.head # <<>> \/ n.body = <<>>
    [] OTHER -> n.head = <<>> \/ n.body # <<>>

\* Section membership: Er, Cd, Rv and Ex in the manual sections they
\* belong to.
MsecOf == [Er |-> {"2"}, Cd |-> {"4"}, Rv |-> {"2", "3"}, Ex |-> {"1", "6", "8"}]

Warned(d) ==
  \/ OrderWarned(d)
  \/ CountBroken(d, "WARN")
  \/ Somewhere(d, LAMBDA p :
       \/ Is(p.n, "BLOCK", "Sh") /\ Title(p.n) = "NAME" /\ NameBodyWarned(p.n)
       \/ p.n.tok \in DOMAIN MsecOf /\ Msec(d) \notin MsecOf[p.n.tok]
       \/ p.n.tok \in {"Rv", "Ex"} /\ ~StdArg(p.n)
       \/ Is(p.n, "BLOCK", "It") /\ Types(p.up[2].args, ListTypes) > 0
          /\ ItemWarned(p.n, p.up[2].args))

----------------------------------------------------------------------------

\* The verdicts the rules allow a document.
Allowed(d) ==
  IF Broken(d) THEN {"reject"} ELSE IF Warned(d) THEN {"accept", "reject"} ELSE {"accept"}

Verdicts == [d \in Docs |-> Allowed(d)]

Init == doc \in Docs /\ verdict = "pending"

Judge == verdict = "pending" /\ verdict' \in {"accept", "reject"} /\ verdict' \in Verdicts[doc] /\ UNCHANGED doc

Spec == Init /\ [][Judge]_<<doc, verdict>> /\ WF_<<doc, verdict>>(Judge)

\* Allowed is never empty, so Judge is enabled in every pending state and
\* the fairness of Spec amounts to a verdict coming: Spec is SafeSpec with
\* Decides.
SafeSpec == Init /\ [][Judge]_<<doc, verdict>>
Decides == <>(verdict # "pending")
============================================================================
