----------------------------- MODULE PostReads -----------------------------
(***************************************************************************)
(* What get_post and load_posts promise a request, as if there were no     *)
(* cache: it is shown the posts it asked for, each once, and each put      *)
(* together from the post's files as they were at some time since the      *)
(* request began.  While a post is copied onto the page nothing changes    *)
(* it.  The threads, locks, counts and the index of PostCache implement    *)
(* this.                                                                   *)
(***************************************************************************)
EXTENDS Naturals

CONSTANTS Threads, PostIds

Files == {"lisp", "tex"}

\* what a post is put together from: a preview has no post.lisp
Parts(kind) == IF kind = "preview" THEN {"tex"} ELSE Files

Kinds == {"story", "preview", "listing"}

VARIABLES
  rev,     \* rev[p][f]: the current revision of file f of post p
  asked,   \* asked[t]: what thread t was asked for: the kind of the request,
           \* the posts left to show, and the revisions when it began
  page     \* page[t]: the post that is being copied onto t's page

vars == <<rev, asked, page>>

NoRequest == [kind |-> "none"]
NoPage == [post |-> "none"]

Init ==
  /\ rev = [p \in PostIds |-> [f \in Files |-> 1]]
  /\ asked = [t \in Threads |-> NoRequest]
  /\ page = [t \in Threads |-> NoPage]

Edit(p, f) ==
  /\ rev' = [rev EXCEPT ![p][f] = @ + 1]
  /\ UNCHANGED <<asked, page>>

\* (Ask and Show first say that something changes: it spares a model checker
\* the choices below.)
Ask(t) ==
  /\ asked[t] = NoRequest /\ asked'[t] # NoRequest
  /\ \E kind \in Kinds, left \in SUBSET PostIds :
       /\ kind # "listing" => \E p \in PostIds : left = {p}
       /\ asked' = [asked EXCEPT ![t] = [kind |-> kind, left |-> left, since |-> rev]]
  /\ UNCHANGED <<rev, page>>

\* the post's data is that of revisions since the request began
Show(t) ==
  /\ asked[t] # NoRequest
  /\ page[t] = NoPage /\ page'[t] # NoPage
  /\ \E p \in asked[t].left :
       \E data \in [Parts(asked[t].kind) ->
                      UNION {asked[t].since[p][f]..rev[p][f] : f \in Parts(asked[t].kind)}] :
         /\ \A f \in Parts(asked[t].kind) : data[f] \in asked[t].since[p][f]..rev[p][f]
         /\ page' = [page EXCEPT ![t] = [post |-> p, data |-> data]]
  /\ UNCHANGED <<rev, asked>>

Shown(t) ==
  /\ page[t] # NoPage
  /\ page' = [page EXCEPT ![t] = NoPage]
  /\ asked' = [asked EXCEPT ![t].left = @ \ {page[t].post}]
  /\ UNCHANGED rev

\* one post may not be found; a list is shown whole
Leave(t) ==
  /\ asked[t] # NoRequest
  /\ page[t] = NoPage
  /\ asked[t].kind = "listing" => asked[t].left = {}
  /\ asked' = [asked EXCEPT ![t] = NoRequest]
  /\ UNCHANGED <<rev, page>>

Next ==
  \/ \E p \in PostIds, f \in Files : Edit(p, f)
  \/ \E t \in Threads : Ask(t) \/ Show(t) \/ Shown(t) \/ Leave(t)

Spec == Init /\ [][Next]_vars
=============================================================================
