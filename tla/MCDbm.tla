------------------------------- MODULE MCDbm -------------------------------
(***************************************************************************)
(* Files for checking the database reader.  Strings are the model values *)
(* a, b and c of the configuration.                                       *)
(***************************************************************************)
EXTENDS Dbm

CONSTANTS a, b, c

NoMacros == [im \in Macros |-> <<>>]
AllOk == [im \in Macros |-> TRUE]

(* Three pages.  The names are those of spec section 8, scenario 6, with  *)
(* a second name on page 2 that matches where the first does not.  Page 0 *)
(* has no architecture; the page lists of macro 0 share page 2; macro 1   *)
(* has no values.                                                          *)
Big ==
  [npages |-> 3, macrosOk |-> TRUE, nmacros |-> MACRO_MAX, macroOk |-> AllOk,
   name |-> (0 :> <<[q |-> 1, s |-> a]>>) @@
            (1 :> <<[q |-> 2, s |-> a], [q |-> 1, s |-> b]>>) @@
            (2 :> <<[q |-> 1, s |-> c], [q |-> 2, s |-> b]>>),
   sect |-> (0 :> <<a>>) @@ (1 :> <<b, a>>) @@ (2 :> <<c>>),
   arch |-> (0 :> <<>>) @@ (1 :> <<a>>) @@ (2 :> <<b, a>>),
   desc |-> (0 :> a) @@ (1 :> b) @@ (2 :> a),
   macros |-> (0 :> <<[value |-> a, pages |-> <<0, 2>>],
                      [value |-> b, pages |-> <<2, 1>>]>>) @@
              (1 :> <<>>)]

(* One page, so that a cursor of Big points past its end.                *)
Small ==
  [npages |-> 1, macrosOk |-> TRUE, nmacros |-> MACRO_MAX, macroOk |-> AllOk,
   name |-> (0 :> <<[q |-> 2, s |-> b], [q |-> 1, s |-> a]>>),
   sect |-> (0 :> <<a>>),
   arch |-> (0 :> <<a>>),
   desc |-> (0 :> c),
   macros |-> (0 :> <<[value |-> c, pages |-> <<0>>]>>) @@
              (1 :> <<[value |-> a, pages |-> <<0>>]>>)]

Empty ==
  [npages |-> 0, macrosOk |-> TRUE, nmacros |-> MACRO_MAX, macroOk |-> AllOk,
   name |-> <<>>, sect |-> <<>>, arch |-> <<>>, desc |-> <<>>,
   macros |-> NoMacros]

(* Files dbm_open must reject: a negative page count, which the check     *)
(* leaves in npages; a bad macros table offset (the check of the         *)
(* table length fails alike); a bad offset of the last macro entry, found *)
(* after nvals[] of the others was copied.                                *)
Broken(np, tabOk, nm, entOk) ==
  [npages |-> np, macrosOk |-> tabOk, nmacros |-> nm, macroOk |-> entOk,
   name |-> <<>>, sect |-> <<>>, arch |-> <<>>, desc |-> <<>>,
   macros |-> NoMacros]

MCFiles ==
  {Big, Small, Empty,
   Broken(-1, TRUE, MACRO_MAX, AllOk),
   Broken(0, FALSE, MACRO_MAX, AllOk),
   Broken(0, TRUE, MACRO_MAX, [AllOk EXCEPT ![MACRO_MAX - 1] = FALSE])}

MCMaxPages == 3
====
