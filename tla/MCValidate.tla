----------------------------- MODULE MCValidate -----------------------------
(***************************************************************************)
(* Documents for the validator.  Each family varies one part of a        *)
(* document and keeps the rest well formed: the prologue macros and their *)
(* order, the sequence of sections, the NAME section's body, and the     *)
(* display and list blocks of a DESCRIPTION section.                     *)
(***************************************************************************)
EXTENDS ValidateTree

MCSecs == <<"NAME", "SYNOPSIS", "DESCRIPTION">>

X == Text("x")
P(t) == Elem(t, <<X>>)
Dt(msec) == Elem("Dt", <<Text("TITLE"), Text(msec)>>)
PrologueOf(msec) == <<P("Dd"), Dt(msec), P("Os")>>
Prologue == PrologueOf("1")
Nm == Elem("Nm", <<X>>)
Nd == Elem("Nd", <<X>>)
Sh(name, body) == Block("Sh", <<>>, <<Text(name)>>, body)
NameSh == Sh("NAME", <<Nm, Nd>>)
Bd(args, body) == Block("Bd", args, <<>>, body)
Bl(args, items) == Block("Bl", args, <<>>, items)
It(head, body) == Block("It", <<>>, head, body)
A(a) == Arg(a, 0)

\* Sequences of length at most n over S.
Upto(S, n) == UNION {[1..k -> S] : k \in 0..n}

\* Every prologue of at most three macros, then a NAME section; and the
\* prologue with Os after the first section; and two without Os, one whose
\* first section is not NAME.
PrologueDocs ==
  {p \o <<NameSh>> : p \in Upto({P("Dd"), Dt("1"), P("Os")}, 3)}
  \cup {<<P("Dd"), Dt("1"), NameSh, P("Os")>>}
  \cup {<<P("Dd"), Dt("1"), Sh("DESCRIPTION", <<X>>)>>,
        <<P("Dd"), Dt("1"), Sh("DESCRIPTION", <<X>>), NameSh>>}

\* Every sequence of at most three sections over the known names and one
\* custom name; a section with an empty head; Sh inside a section; heads
\* of two words, first and second; no sections at all.
ShOf(name) == IF name = "NAME" THEN NameSh ELSE Sh(name, <<X>>)
SectionDocs ==
  {Prologue \o [k \in DOMAIN s |-> ShOf(s[k])] :
     s \in Upto({"NAME", "SYNOPSIS", "DESCRIPTION", "LOCAL"}, 3)}
  \cup {Prologue \o <<NameSh, Block("Sh", <<>>, <<>>, <<X>>)>>,
        Prologue \o <<Sh("NAME", <<Nm, Nd, Sh("SYNOPSIS", <<X>>)>>)>>,
        Prologue \o <<Block("Sh", <<>>, <<Text("NAME"), X>>, <<Nm, Nd>>)>>,
        Prologue \o <<NameSh, Block("Sh", <<>>, <<Text("DESCRIPTION"), X>>, <<X>>)>>,
        <<>>}

\* NAME bodies: empty, out of order, text first, no Nd, an Nm without a
\* name before any name is known, and after one.
NameDocs ==
  {Prologue \o <<Sh("NAME", b)>> :
     b \in {<<>>, <<Nd, Nm>>, <<X, Nm, Nd>>, <<Nm>>, <<Elem("Nm", <<>>), Nd>>, <<Nm, Elem("Nm", <<>>), Nd>>, <<Nm, Elem("Nd", <<>>)>>}}

\* Display and list blocks inside a DESCRIPTION section.
Blocks ==
  { Bd(<<A("Ragged")>>, <<X>>),
    Bd(<<A("Offset")>>, <<X>>),
    Bd(<<A("Ragged"), A("Literal")>>, <<X>>),
    Bd(<<A("Ragged")>>, <<>>),
    Bd(<<A("Ragged")>>, <<X, Bd(<<A("Literal")>>, <<X>>)>>),
    Bd(<<A("Ragged")>>, <<Bl(<<A("Bullet")>>, <<It(<<>>, <<Bd(<<A("Literal")>>, <<X>>)>>)>>)>>),
    Bl(<<A("Bullet")>>, <<It(<<>>, <<X>>), It(<<X>>, <<>>)>>),
    Bl(<<A("Tag")>>, <<It(<<X>>, <<X>>), It(<<>>, <<>>)>>),
    Bl(<<A("Compact"), A("Dash")>>, <<It(<<>>, <<X>>)>>),
    Bl(<<Arg("Column", 2)>>, <<It(<<X, X>>, <<>>), It(<<X>>, <<X>>)>>),
    Bl(<<>>, <<It(<<>>, <<X>>)>>),
    Bl(<<A("Bullet"), A("Dash")>>, <<It(<<>>, <<X>>)>>),
    Bl(<<A("Bullet")>>, <<X>>),
    Bl(<<A("Bullet")>>, <<>>),
    It(<<>>, <<X>>) }
BlockDocs == {Prologue \o <<NameSh, Sh("DESCRIPTION", <<b>>)>> : b \in Blocks}

\* A CUSTOM section right after NAME: post_sh_body still finds lastnamed at
\* SEC_NAME and checks its body as NAME's.
IsCustomSh(n) == n.type = "BLOCK" /\ n.tok = "Sh" /\ SecOf([kids |-> n.head]) = SEC_CUSTOM
CustomAfterName(d) ==
  \E i \in 1..Len(d) - 1 : d[i] = NameSh /\ IsCustomSh(d[i + 1])
CustomDocs == {Prologue \o <<NameSh, Sh("LOCAL", <<X>>)>>}

\* The other macros of the rule table, each alone in the DESCRIPTION
\* section of a manual of section 1 or 2: a well-formed use and the
\* shapes their rules refuse or warn about.
T(s) == Text(s)
E(tok, args, kids) == ElemA(tok, args, kids)
B(tok, args, head, body) == Block(tok, args, head, body)
Macros ==
  { B("Ss", <<>>, <<X>>, <<X>>), B("Ss", <<>>, <<>>, <<X>>),
    B("D1", <<>>, <<>>, <<X>>), B("Dl", <<>>, <<>>, <<>>),
    B("D1", <<>>, <<>>, <<B("Ss", <<>>, <<X>>, <<X>>)>>),
    Bd(<<A("Ragged")>>, <<B("Dl", <<>>, <<>>, <<X>>)>>),
    B("Op", <<>>, <<>>, <<X>>), B("Bk", <<>>, <<X>>, <<X>>), B("Rs", <<>>, <<>>, <<>>),
    B("Fo", <<>>, <<X>>, <<>>),
    E("Pp", <<>>, <<>>), E("Pp", <<>>, <<X>>),
    E("An", <<A("Split")>>, <<>>), E("An", <<>>, <<X>>), E("An", <<>>, <<>>),
    E("An", <<A("Split")>>, <<X>>), E("An", <<A("Split"), A("Split")>>, <<>>),
    E("Cd", <<>>, <<X>>), E("Er", <<>>, <<X>>), E("Er", <<>>, <<>>),
    E("Ex", <<A("Std")>>, <<>>), E("Ex", <<A("Std")>>, <<X>>), E("Ex", <<A("Std"), A("Std")>>, <<>>),
    E("Ex", <<A("Split")>>, <<>>),
    E("Rv", <<A("Std")>>, <<>>), E("Rv", <<A("Std")>>, <<X>>),
    E("St", <<A("p1003.1")>>, <<>>), E("St", <<>>, <<>>),
    E("Xr", <<>>, <<T("ls"), T("1")>>), E("Xr", <<>>, <<T("ls"), T("x")>>), E("Xr", <<>>, <<>>),
    E("Xr", <<>>, <<T("ls"), T("1"), X>>),
    E("At", <<>>, <<>>), E("At", <<>>, <<T("v7")>>), E("At", <<>>, <<T("x")>>),
    B("Bf", <<>>, <<T("Em")>>, <<X>>), B("Bf", <<>>, <<T("Xx")>>, <<X>>), B("Bf", <<>>, <<>>, <<X>>),
    B("Bf", <<A("Emphasis")>>, <<>>, <<X>>), B("Bf", <<A("Emphasis")>>, <<T("Em")>>, <<X>>),
    B("Bf", <<A("Emphasis"), A("Literal")>>, <<>>, <<X>>), B("Bf", <<>>, <<T("Em"), T("Li")>>, <<X>>),
    E("Db", <<>>, <<T("on")>>), E("Sm", <<>>, <<T("maybe")>>), E("Db", <<>>, <<T("on"), T("off")>>),
    E("In", <<>>, <<X>>), E("In", <<>>, <<>>), E("Pf", <<>>, <<X>>), E("Pf", <<>>, <<>>),
    E("Ad", <<>>, <<>>), E("Fd", <<>>, <<>>), E("Ns", <<>>, <<X>>) }
MacroDocs ==
  {PrologueOf(msec) \o <<NameSh, Sh("DESCRIPTION", <<m>>)>> : msec \in {"1", "2"}, m \in Macros}

MCDocs ==
  {d \in PrologueDocs \cup SectionDocs \cup NameDocs \cup BlockDocs \cup MacroDocs :
     ~CustomAfterName(d)}

\* Man(7) pages for the file read after the mdoc one: a title and a NAME
\* section; and one whose DESCRIPTION holds a table and, in an RS block,
\* a TP item with a bold word.  A TBL node carries its data cells.
Tbl(cells) == [Text("") EXCEPT !.type = "TBL"] @@ [span |-> cells]
ManRoot(kids) == Node("ROOT", "", <<>>, <<>>, kids, "")
ManTH == Elem("TH", <<Text("TITLE"), Text("1")>>)
ManSH(name, body) == Block("SH", <<>>, <<Text(name)>>, body)
MCManDocs ==
  {ManRoot(<<ManTH, ManSH("NAME", <<X>>)>>),
   ManRoot(<<ManTH, ManSH("DESCRIPTION",
     <<Tbl(<<"a", "b">>), Tbl(<<"c">>),
       Block("RS", <<>>, <<>>, <<Block("TP", <<>>, <<Elem("B", <<X>>)>>, <<X>>)>>)>>)>>)}

\* Ex and Rv without an argument: check_stdarg reads argv[0].
NoArgDocs == {Prologue \o <<NameSh, Sh("DESCRIPTION", <<E("Ex", <<>>, <<X>>)>>)>>}

\* A -column list whose first argument is -offset with one value.
ColumnDocs ==
  {Prologue \o <<NameSh, Sh("DESCRIPTION",
     <<Bl(<<Arg("Offset", 1), Arg("Column", 2)>>, <<It(<<X>>, <<>>)>>)>>)>>}
============================================================================
