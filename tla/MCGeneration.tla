---------------------------- MODULE MCGeneration ----------------------------
(***************************************************************************)
(* A small instance of GenerationPublication: two connections, a directory *)
(* whose package is upgraded, extended, broken and rolled back while       *)
(* statements run, and a second one whose function has the SQL name that   *)
(* the first one's extension also takes.                                   *)
(***************************************************************************)
EXTENDS GenerationPublication, TLC

CONSTANTS x1, x2, r1, r2

MCConnections == {x1, x2}

MCRoots == {r1, r2}

MCConnectors == {"a", "a_b"}

Package(connector, version, relations) ==
  [connector |-> connector, version |-> version, policy |-> 1, relations |-> relations]

MCContents ==
  (r1 :> {Package("a", <<1, 0, 0>>, <<"x">>),
          Package("a", <<1, 0, 1>>, <<"x">>),
          Package("a", <<1, 1, 0>>, <<"x", "b_y">>),
          Package("a", <<1, 2, 0>>, <<"b_y">>),
          Package("a", <<2, 0, 0>>, <<"x">>)}) @@
  (r2 :> {Package("a_b", <<1, 0, 0>>, <<"y">>)})

MCFewContents ==
  r1 :> {Package("a", <<1, 0, 0>>, <<"x">>), Package("a", <<1, 0, 1>>, <<"x">>)}

MCSqlName ==
  (<<"a", "x">> :> "a_x") @@ (<<"a", "b_y">> :> "a_b_y") @@ (<<"a_b", "y">> :> "a_b_y")

MCForeignNames == {"a_b_y"}

MCSymmetry == Permutations(MCConnections)

MCNames == {"a_x", "a_b_y"}
=============================================================================
