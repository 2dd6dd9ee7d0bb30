--------------------------- MODULE MCCommentSave ---------------------------
(***************************************************************************)
(* Instances of CommentSave.  Word is 8 instead of 2^64: what matters is   *)
(* that more than the largest think time has passed since 1970, and less   *)
(* than Word.                                                              *)
(***************************************************************************)
EXTENDS CommentSave, TLC

CONSTANTS w1, w2

Sym == Permutations({w1, w2})

F(empty, sent, captcha, email, comment, url) ==
  [request |-> "none", empty |-> empty, date |-> sent, captcha |-> captcha, email |-> email,
   author |-> "filled", comment |-> comment, url |-> url]

\* a good form, and one for each thing that can be wrong
MCForms == {F("blank", 2, 5, "filled", "filled", "filled"),
            F("blank", 2, 5, "filled", "filled", "blank"),
            F("filled", 2, 5, "filled", "filled", "blank"),
            F("blank", 4, 5, "filled", "filled", "blank"),
            F("blank", 7, 5, "filled", "filled", "blank"),
            F("blank", 2, 4, "filled", "filled", "blank"),
            F("blank", 2, 5, "absent", "filled", "blank"),
            F("blank", Absent, 5, "filled", "filled", "blank"),
            F("blank", 2, 5, "filled", "blank", "blank"),
            [F("blank", 2, 5, "filled", "filled", "blank") EXCEPT !.request = "internal"]}

\* good forms only
GoodForms == {F("blank", 2, 5, "filled", "filled", "filled")}
=============================================================================
