----------------------------- MODULE MCRequest -----------------------------
(***************************************************************************)
(* Two threads; the first is asked for every page with one or two more     *)
(* parameters, the second for listings.  Readers follow links.             *)
(***************************************************************************)
EXTENDS Request, TLC

CONSTANTS w1, w2

MCThreads == {w1, w2}

P(id, tags, month) == [id |-> id, tags |-> tags, month |-> month]

MCCharacters == {"a", "A", "b", "c", "comment", "p", " ", "+", "%2B", "&", "#", "quot"}
MCLower == [ch \in MCCharacters |-> IF ch = "A" THEN "a" ELSE ch]

a == <<"a">>
cplus == <<"c", "+">>
candcomment == <<"c", "&", "comment">>
candp == <<"b", "&", "p">>

\* tags whose pagers' links ask for something else
UrlTags == {cplus, candcomment, candp, <<"c", "#">>}

\* December's archive goes on in January
MCListed == <<P(5, {a, cplus}, 200101), P(4, {<<"A">>, <<"b">>}, 200012),
              P(3, {a, cplus, candp}, 200012), P(2, {<<"b">>, candcomment, candp}, 200011),
              P(1, {a, candcomment}, 200011)>>

Param(k, v) == k :> v

\* each parameter with values that are right, wrong, too large and no numbers
PageParams ==
  {Param("comment", "1"), Param("admin", "1")}
  \cup {Param("tag", g) : g \in {a, <<"c">>}} \cup {Param("cat", c) : c \in {"old", "older"}}
  \cup {Param("m", m) : m \in {200012, 200013, NotInt}}
  \cup {Param("p", p) : p \in {2, 7, 9, NotInt}}

FeedParams == {Param("feed", f) : f \in {"atom", "rss2", "html"}}

OtherParams == {Param("paged", n) : n \in {1, INT_MAX, INT_MAX + 1}}
               \cup {Param("preview", n) : n \in {PREVIEW_SECRET, 1}}

Uri(u) == Param("uri", u)

AnyQuery ==
  {Uri("root") @@ x @@ y : x \in FeedParams \cup OtherParams, y \in FeedParams \cup OtherParams}
  \cup {Uri("root") @@ x @@ y @@ z : x \in PageParams, y \in FeedParams, z \in OtherParams}
  \cup {Uri("root") @@ x @@ y : x \in PageParams, y \in PageParams \cup FeedParams \cup OtherParams}
  \cup {Uri(u) @@ x : u \in {"style", "bug", "favicon", "nosuch"}, x \in FeedParams \cup {Param("p", 2)}}
  \cup {Uri(u) : u \in {"root", "style", "bug", "favicon", "nosuch"}}
  \cup {Uri("root") @@ Param("tag", g) : g \in UrlTags \cup {<<"A">>}}

FewQueries == {Uri("root"), Uri("root") @@ Param("tag", a), Uri("root") @@ Param("m", 200012)}

MCQueries == [t \in MCThreads |-> IF t = w1 THEN AnyQuery ELSE FewQueries]

\* the pagers of tags alone
MCTagQueries == [t \in MCThreads |-> {Uri("root") @@ Param("tag", g) : g \in {a, cplus}}]

MCWebDir == [style |-> 3, bug |-> 0]
MCCategories == "old" :> a
=============================================================================
