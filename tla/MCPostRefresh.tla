--------------------------- MODULE MCPostRefresh ---------------------------
(***************************************************************************)
(* Instances of PostRefresh: comments come and go, a listing is shown      *)
(* twice, once or not at all.                                              *)
(***************************************************************************)
EXTENDS PostRefresh

CONSTANTS a, b, image1

MCLisp == {[tags |-> {a}, comments |-> <<1>>], [tags |-> {b}, comments |-> <<2, 1>>]}

MCTex == {[tags |-> {b}, image |-> image1, listings |-> <<1, 1>>],
          [tags |-> {}, image |-> NoImage, listings |-> <<1>>],
          [tags |-> {a}, image |-> NoImage, listings |-> <<>>]}
=============================================================================
