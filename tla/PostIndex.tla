----------------------------- MODULE PostIndex -----------------------------
(***************************************************************************)
(* The indices of post_index.c: index_global (by id), index_by_time,       *)
(* index_by_tag with one subindex per tag, and the by_tag list that ties a *)
(* global entry to its entries in the tag subindices.                      *)
(*                                                                         *)
(* Every operation runs under index_lock, so each is one step.  A node of  *)
(* a by-time or by-tag tree holds no key of its own: post_index_cmp reads  *)
(* ->global->time and ->global->id.  A tree is therefore the set of the    *)
(* posts whose nodes are in it, and its order is that of gtime.  Tags that *)
(* strcasecmp equal are one value here: both the tags of a post and the    *)
(* subindices are keyed by strcasecmp.                                     *)
(***************************************************************************)
EXTENDS Naturals

CONSTANTS
  Posts,         \* post ids
  Times,         \* publication times
  Tags,          \* tag names, up to case
  Versions,      \* what a post's file may say: what post_refresh may load
  AllocMayFail   \* whether mem_cache_alloc may fail within an insertion

Fields == [time : Times, tags : SUBSET Tags, listed : BOOLEAN]

ASSUME PostIndexAssumption ==
  /\ Posts \subseteq Nat /\ Times \subseteq Nat
  /\ Versions \subseteq Fields
  /\ AllocMayFail \in BOOLEAN

VARIABLES
  post,    \* post[p]: the fields of struct post that the indices look at
  global,  \* the posts with an entry in index_global
  gtime,   \* gtime[p]: ->time of that entry, copied when it was made
  xref,    \* xref[p]: its by_tag list, as the tags of the listed nodes
  byTime,  \* the posts with a node in index_by_time
  byTag,   \* byTag[g]: the posts with a node in the subindex of tag g
  freed,   \* the posts whose global entry has been given back to the allocator
  phase,   \* "up", the stages of free_all_posts, "down"
  abort    \* "none", or the assertion that failed

vars == <<post, global, gtime, xref, byTime, byTag, freed, phase, abort>>

indexVars == <<global, gtime, xref, byTime, byTag, freed>>

Init ==
  /\ post \in [Posts -> Versions]
  /\ global = {}
  /\ gtime = [p \in Posts |-> 0]
  /\ xref = [p \in Posts |-> {}]
  /\ byTime = {}
  /\ byTag = [g \in Tags |-> {}]
  /\ freed = {}
  /\ phase = "up"
  /\ abort = "none"

Up == phase = "up" /\ abort = "none"

\* rb_insert of a node for p fails if the tree has a node with p's key.
HasKey(tree, time, p) == \E q \in tree : q = p /\ gtime[q] = time

\* (mutant) global->time is not set
InsertNoTime(p) ==
  /\ Up /\ p \notin global
  /\ global' = global \cup {p}
  /\ xref' = [xref EXCEPT ![p] = post[p].tags]
  /\ byTime' = byTime \cup {p}
  /\ byTag' = [g \in Tags |-> IF g \in post[p].tags THEN byTag[g] \cup {p} ELSE byTag[g]]
  /\ freed' = freed \ {p}
  /\ UNCHANGED <<post, gtime, phase, abort>>

\* (mutant) __insert_post_tags forgets list_insert_tail(xreflist, ..)
InsertNoXref(p) ==
  /\ Up /\ p \notin global
  /\ global' = global \cup {p}
  /\ gtime' = [gtime EXCEPT ![p] = post[p].time]
  /\ byTime' = byTime \cup {p}
  /\ byTag' = [g \in Tags |-> IF g \in post[p].tags THEN byTag[g] \cup {p} ELSE byTag[g]]
  /\ freed' = freed \ {p}
  /\ UNCHANGED <<post, xref, phase, abort>>

\* index_insert_post, all allocations succeeding.  The post enters every
\* index with its time and tags of this moment.
Insert(p) ==
  /\ Up
  /\ p \notin global
  /\ global' = global \cup {p}
  /\ gtime' = [gtime EXCEPT ![p] = post[p].time]
  /\ xref' = [xref EXCEPT ![p] = post[p].tags]
  /\ byTime' = byTime \cup {p}
  /\ byTag' = [g \in Tags |-> IF g \in post[p].tags THEN byTag[g] \cup {p} ELSE byTag[g]]
  /\ abort' = IF \/ HasKey(byTime, post[p].time, p)
                 \/ \E g \in post[p].tags : HasKey(byTag[g], post[p].time, p)
              THEN "rb_insert" ELSE "none"
  /\ freed' = freed \ {p}
  /\ UNCHANGED <<post, phase>>

\* index_insert_post of a post that is there: -EEXIST, and no trace left;
\* load_post's ASSERT0 ends the process
InsertExists(p) ==
  /\ Up
  /\ p \in global
  /\ abort' = "eexist"
  /\ UNCHANGED <<post, indexVars, phase>>

\* an allocation fails in __insert_post_tags, after the nodes of the tags in
\* done were added: err_free_tags takes the by-time node out and frees the
\* global entry, which stays in index_global; load_post's ASSERT0 follows
InsertFails(p) ==
  /\ Up /\ AllocMayFail
  /\ p \notin global
  /\ \E done \in SUBSET post[p].tags :
       /\ done # post[p].tags
       /\ byTag' = [g \in Tags |-> IF g \in done THEN byTag[g] \cup {p} ELSE byTag[g]]
       /\ xref' = [xref EXCEPT ![p] = done]
  /\ global' = global \cup {p}
  /\ gtime' = [gtime EXCEPT ![p] = post[p].time]
  /\ freed' = freed \cup {p}
  /\ abort' = "enomem"
  /\ UNCHANGED <<post, byTime, phase>>

\* the allocation of the global or of the by-time entry fails: nothing was
\* inserted yet
InsertNoMemory(p) ==
  /\ Up /\ AllocMayFail
  /\ abort' = "enomem"
  /\ UNCHANGED <<post, indexVars, phase>>

\* (mutant) the refresh enters the post under its new tags, and leaves it
\* under the old ones
RefreshAddsTags(p) ==
  /\ Up
  /\ \E v \in Versions :
       /\ post' = [post EXCEPT ![p] = v]
       /\ byTag' = [g \in Tags |-> IF p \in global /\ g \in v.tags
                                   THEN byTag[g] \cup {p} ELSE byTag[g]]
       /\ xref' = [xref EXCEPT ![p] = IF p \in global THEN @ \cup v.tags ELSE @]
  /\ UNCHANGED <<global, gtime, byTime, freed, phase, abort>>

\* post_refresh: the post's own fields change, under post->lock and not
\* under index_lock; the indices are not told
Refresh(p) ==
  /\ Up
  /\ \E v \in Versions : post' = [post EXCEPT ![p] = v]
  /\ UNCHANGED <<indexVars, phase, abort>>

\* (mutant) the nodes are freed without list_remove from their by_tag list
FreeTagIndexOnly ==
  /\ Up
  /\ phase' = "freed tags"
  /\ byTag' = [g \in Tags |-> {}]
  /\ UNCHANGED <<post, global, gtime, xref, byTime, freed, abort>>

\* free_all_posts: __free_tag_index.  Each node leaves its global entry's
\* by_tag list.
FreeTagIndex ==
  /\ Up
  /\ phase' = "freed tags"
  /\ xref' = [p \in Posts |-> {g \in xref[p] : p \notin byTag[g]}]
  /\ byTag' = [g \in Tags |-> {}]
  /\ UNCHANGED <<post, global, gtime, byTime, freed, abort>>

\* free_all_posts: __free_index of the by-time tree
FreeTimeIndex ==
  /\ abort = "none" /\ phase = "freed tags"
  /\ phase' = "freed times"
  /\ byTime' = {}
  /\ UNCHANGED <<post, global, gtime, xref, byTag, freed, abort>>

\* (mutant) the global index goes before the by-time index
FreeGlobalFirst ==
  /\ abort = "none" /\ phase = "freed tags"
  /\ phase' = "down"
  /\ global' = {}
  /\ freed' = freed \cup global
  /\ UNCHANGED <<post, gtime, xref, byTime, byTag, abort>>

\* free_all_posts: __free_global_index; list_destroy of a list that is not
\* empty fails its assertion
FreeGlobalIndex ==
  /\ abort = "none" /\ phase = "freed times"
  /\ phase' = "down"
  /\ global' = {}
  /\ freed' = freed \cup global
  /\ abort' = IF \E p \in global : xref[p] # {} THEN "list_destroy" ELSE "none"
  /\ UNCHANGED <<post, gtime, xref, byTime, byTag>>

Ended ==
  /\ abort # "none" \/ phase = "down"
  /\ UNCHANGED vars

Next ==
  \/ \E p \in Posts : Insert(p) \/ InsertExists(p) \/ InsertFails(p)
                    \/ InsertNoMemory(p) \/ Refresh(p)
  \/ FreeTagIndex \/ FreeTimeIndex \/ FreeGlobalIndex
  \/ Ended

Spec == Init /\ [][Next]_vars

-----------------------------------------------------------------------------
(* What must hold *)

\* Type invariant; a global entry carries the publication time of a post.
TypeOK ==
  /\ post \in [Posts -> Versions]
  /\ global \subseteq Posts
  /\ gtime \in [Posts -> Nat]
  /\ \A p \in global : gtime[p] \in Times
  /\ xref \in [Posts -> SUBSET Tags]
  /\ byTime \subseteq Posts
  /\ byTag \in [Tags -> SUBSET Posts]
  /\ freed \subseteq Posts
  /\ phase \in {"up", "freed tags", "freed times", "down"}
  /\ abort \in {"none", "rb_insert", "eexist", "enomem", "list_destroy"}

\* Between operations the by-time tree has exactly the posts of the global
\* tree, and the by_tag list of a global entry names exactly the subindices
\* the post is in: what the picture above enum entry_type shows.
IndicesAgree ==
  Up => /\ byTime = global
        /\ \A p \in Posts : \A g \in Tags : p \in byTag[g] <=> (p \in global /\ g \in xref[p])

\* index_insert_post's ASSERT3Ps and __free_global_index's list_destroy never
\* fail: a post is never put twice into a tree, and no list is destroyed
\* while a tag's node is still on it.
AssertsHold == abort \notin {"rb_insert", "list_destroy"}

\* No node refers to a global entry that was freed (post_index_cmp and
\* index_get_posts follow ->global), as long as no allocation failed: see
\* InsertFails for what a failed one leaves.
NoDangling ==
  abort # "enomem" =>
    \A p \in freed : p \notin global \cup byTime /\ \A g \in Tags : p \notin byTag[g]

\* The key of a node never changes while the node is in a tree: refreshing a
\* post does not disorder the red-black trees.
KeysFixed ==
  [][\A p \in Posts :
       (p \in byTime \/ \E g \in Tags : p \in byTag[g]) => gtime'[p] = gtime[p]]_vars

\* The catalogue the secondary indices spell out
Catalogue ==
  IF phase = "up" /\ abort \in {"none", "eexist"}
  THEN {[id |-> p, time |-> gtime[p], tags |-> {g \in Tags : p \in byTag[g]}] : p \in byTime}
  ELSE {}

Abstract == INSTANCE PostCatalog WITH cat <- Catalogue

\* The trees implement the catalogue: what a listing by time or by tag can
\* find changes only by a whole post entering, or by everything being dropped.
ImplementsCatalog == Abstract!Spec
=============================================================================
