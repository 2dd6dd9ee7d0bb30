---------------------------- MODULE PostCatalog ----------------------------
(***************************************************************************)
(* What post_index.c promises: a catalogue of posts.  A post enters it     *)
(* once, under its id, with the publication time and the tags it has at    *)
(* that moment, and stays until the whole catalogue is dropped.  The trees *)
(* and lists of PostIndex implement it.                                    *)
(***************************************************************************)
CONSTANTS Posts, Times, Tags

VARIABLE cat    \* the catalogue: a set of [id, time, tags]

Records == [id : Posts, time : Times, tags : SUBSET Tags]

Init == cat = {}

Add(r) ==
  /\ \A c \in cat : c.id # r.id
  /\ cat' = cat \cup {r}

Drop == cat' = {}

Next == (\E r \in Records : Add(r)) \/ Drop

Spec == Init /\ [][Next]_cat
=============================================================================
