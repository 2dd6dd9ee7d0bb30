----------------------------- MODULE PostCache -----------------------------
(***************************************************************************)
(* The post cache of blahgd: the struct post objects, the global index     *)
(* that holds them by post id, and the threads that load, refresh, show    *)
(* and drop them (post.c, post_nv.c, the index's reference keeping in      *)
(* post_index.c, main_blahgd in daemon.c).                                 *)
(*                                                                         *)
(* A thread runs one request at a time:                                    *)
(*   "preload"  __tq_load_post: load_post, then drop the reference         *)
(*   "story"    get_post(.., preview = false)                              *)
(*   "preview"  get_post(.., preview = true)                               *)
(*   "listing"  index_get_posts, then load_posts                           *)
(*                                                                         *)
(* A step is what happens between two points where other threads or the    *)
(* editor of the files can be seen: one locked section of the index, one   *)
(* acquisition of a post's lock, one file read.  must_refresh compares     *)
(* one file after another; revisions only grow and it stops at the first   *)
(* newer one, so the whole comparison is equivalent to one made at an      *)
(* instant within it, and is one step.                                     *)
(*                                                                         *)
(* A post is built from two files here, post.lisp ("lisp", with the        *)
(* comment files it lists) and post.tex ("tex").  What depends on the      *)
(* individual comment files is in PostRefresh.                             *)
(***************************************************************************)
EXTENDS Naturals, FiniteSets

CONSTANTS
  Threads,       \* the worker threads (taskq's at startup, SCGI's later)
  PostIds,       \* the post ids that appear as directories under posts/
  Dirents,       \* the numeric directory entries of posts/
  DirId,         \* DirId[d] is what str2u32 makes of entry d
  Objs,          \* the memory struct posts are allocated from
  MetaStates,    \* the states in which an editor may leave post.lisp
  BodyStates,    \* the states in which an editor may leave post.tex
  MaxRev,        \* bound: revisions of one file
  MaxRequests,   \* bound: requests a thread serves
  NoThread, NoObj, NoPost

Files == {"lisp", "tex"}

\* "listed"/"unlisted": well formed, with that value of the listed property;
\* "malformed": sexpr_parse_str fails; "fatal": parses, but an ASSERT of the
\* refresh fails (fmt is not 3, a comment's meta.lisp does not exist, ...)
AllMetaStates == {"listed", "unlisted", "missing", "malformed", "fatal"}

\* "fatal": the fmt3 parser fails or asserts
AllBodyStates == {"text", "missing", "fatal"}

ASSUME ConstantsAssumption ==
  /\ DirId \in [Dirents -> PostIds]
  /\ MetaStates \subseteq AllMetaStates
  /\ BodyStates \subseteq AllBodyStates
  /\ MaxRev \in Nat \ {0}
  /\ MaxRequests \in Nat
  /\ NoThread \notin Threads
  /\ NoObj \notin Objs
  /\ NoPost \notin PostIds

ASSUME FiniteAssumption == IsFiniteSet(Threads)

VARIABLES
  \* the files under posts/, as file_cache_get sees them
  rev,        \* rev[p][f]: the current revision of file f of post p
  state,      \* state[p][f]: what is in it
  \* struct post
  refcnt,     \* 0: the memory is free
  lock,       \* the thread that holds post->lock
  postId, preview, listed,
  files,      \* files[o][f]: revision recorded in post->files, 0: no entry
  content,    \* content[o][f]: revision the post's data was taken from
  \* index_global
  index,      \* index[p]: the post in the index, or NoObj
  \* the threads
  pc, kind, want, ctx, cur, todo,
  start,      \* history: the revisions when the request began
  served,     \* the number of requests a thread has begun
  \* the process
  phase,      \* "load", "serve", "drain", "down"
  pending,    \* directory entries load_all_posts has not dispatched yet
  abort       \* the failed assertion that ended the process, or "none"

diskVars   == <<rev, state>>
postVars   == <<postId, preview, listed, files, content>>
threadVars == <<kind, want, ctx, start, served>>
procVars   == <<phase, pending>>
vars == <<rev, state, refcnt, lock, postId, preview, listed, files, content,
          index, pc, kind, want, ctx, cur, todo, start, served, phase,
          pending, abort>>

NoFiles == [f \in Files |-> 0]

Init ==
  /\ rev = [p \in PostIds |-> [f \in Files |-> 1]]
  /\ state \in [PostIds -> {s \in [Files -> MetaStates \cup BodyStates] :
                               s["lisp"] \in MetaStates /\ s["tex"] \in BodyStates}]
  /\ refcnt = [o \in Objs |-> 0]
  /\ lock = [o \in Objs |-> NoThread]
  /\ postId = [o \in Objs |-> NoPost]
  /\ preview = [o \in Objs |-> FALSE]
  /\ listed = [o \in Objs |-> FALSE]
  /\ files = [o \in Objs |-> NoFiles]
  /\ content = [o \in Objs |-> NoFiles]
  /\ index = [p \in PostIds |-> NoObj]
  /\ pc = [t \in Threads |-> "idle"]
  /\ kind = [t \in Threads |-> "none"]
  /\ want = [t \in Threads |-> NoPost]
  /\ ctx = [t \in Threads |-> "load"]
  /\ cur = [t \in Threads |-> NoObj]
  /\ todo = [t \in Threads |-> {}]
  /\ start = [t \in Threads |-> [p \in PostIds |-> NoFiles]]
  /\ served = [t \in Threads |-> 0]
  /\ phase = "load"
  /\ pending = Dirents
  /\ abort = "none"

-----------------------------------------------------------------------------
(* Requests *)

At(t, where) == abort = "none" /\ pc[t] = where

Begin(t, k, p, where) ==
  /\ kind' = [kind EXCEPT ![t] = k]
  /\ want' = [want EXCEPT ![t] = p]
  /\ start' = [start EXCEPT ![t] = rev]
  /\ pc' = [pc EXCEPT ![t] = where]

\* (mutant) the entry is handed out again and again
StartPreloadAgain(t) ==
  /\ At(t, "idle") /\ phase = "load"
  /\ \E d \in pending : pending' \in {pending, pending \ {d}} /\ Begin(t, "preload", DirId[d], "lookup")
  /\ UNCHANGED <<diskVars, refcnt, lock, postVars, index, ctx, cur, todo, served, phase, abort>>

\* load_all_posts hands one directory entry to the task queue
StartPreload(t) ==
  /\ At(t, "idle")
  /\ phase = "load"
  /\ \E d \in pending :
       /\ pending' = pending \ {d}
       /\ Begin(t, "preload", DirId[d], "lookup")
  /\ UNCHANGED <<diskVars, refcnt, lock, postVars, index, ctx, cur, todo,
                 served, phase, abort>>

\* (mutant) load_post looks for a preview in the index, too
StartGetPostLooksUp(t) ==
  /\ At(t, "idle") /\ phase = "serve" /\ served[t] < MaxRequests
  /\ served' = [served EXCEPT ![t] = @ + 1]
  /\ \E p \in PostIds, k \in {"story", "preview"} : Begin(t, k, p, "lookup")
  /\ UNCHANGED <<diskVars, refcnt, lock, postVars, index, ctx, cur, todo, procVars, abort>>

\* a request for one post: blahg_story, or blahg_admin's preview
StartGetPost(t) ==
  /\ At(t, "idle")
  /\ phase = "serve"
  /\ served[t] < MaxRequests
  /\ served' = [served EXCEPT ![t] = @ + 1]
  /\ \E p \in PostIds :
       \/ Begin(t, "story", p, "lookup")
       \/ Begin(t, "preview", p, "alloc")
  /\ UNCHANGED <<diskVars, refcnt, lock, postVars, index, ctx, cur, todo,
                 procVars, abort>>

Indexed(o) == \E p \in PostIds : index[p] = o

\* index_get_posts: a reference to every post it returns, under index_lock.
\* Which listed posts those are depends on the order of the index, the
\* predicate and the page (see PostIndex); here they are any of them.
StartListing(t) ==
  /\ At(t, "idle")
  /\ phase = "serve"
  /\ served[t] < MaxRequests
  /\ served' = [served EXCEPT ![t] = @ + 1]
  /\ \E S \in SUBSET {o \in Objs : Indexed(o) /\ listed[o]} :
       /\ S # {}
       /\ todo' = [todo EXCEPT ![t] = S]
       /\ refcnt' = [o \in Objs |-> IF o \in S THEN refcnt[o] + 1 ELSE refcnt[o]]
  /\ Begin(t, "listing", NoPost, "next")
  /\ UNCHANGED <<diskVars, lock, postVars, index, ctx, cur, procVars, abort>>

\* where a thread goes when load_post has returned a post
Loaded(t) == IF kind[t] = "preload" THEN "put" ELSE "lock"

\* (mutant) index_lookup_post without post_getref
LookupNoGetref(t) ==
  /\ At(t, "lookup")
  /\ cur' = [cur EXCEPT ![t] = index[want[t]]]
  /\ pc' = [pc EXCEPT ![t] = IF index[want[t]] # NoObj THEN Loaded(t) ELSE "alloc"]
  /\ UNCHANGED <<diskVars, refcnt, lock, postVars, index, threadVars, todo, procVars, abort>>

\* index_lookup_post
Lookup(t) ==
  /\ At(t, "lookup")
  /\ \/ /\ index[want[t]] # NoObj
        /\ cur' = [cur EXCEPT ![t] = index[want[t]]]
        /\ refcnt' = [refcnt EXCEPT ![index[want[t]]] = @ + 1]
        /\ pc' = [pc EXCEPT ![t] = Loaded(t)]
     \/ /\ index[want[t]] = NoObj
        /\ pc' = [pc EXCEPT ![t] = "alloc"]
        /\ UNCHANGED <<cur, refcnt>>
  /\ UNCHANGED <<diskVars, lock, postVars, index, threadVars, todo, procVars,
                 abort>>

\* a request is over: its thread waits for the next one
Finish(t) ==
  /\ pc' = [pc EXCEPT ![t] = "idle"]
  /\ kind' = [kind EXCEPT ![t] = "none"]
  /\ want' = [want EXCEPT ![t] = NoPost]
  /\ start' = [start EXCEPT ![t] = [p \in PostIds |-> NoFiles]]

\* load_post: allocate and initialise a new struct post
Alloc(t) ==
  /\ At(t, "alloc")
  /\ \E o \in Objs :
       /\ refcnt[o] = 0
       /\ refcnt' = [refcnt EXCEPT ![o] = 1]
       /\ postId' = [postId EXCEPT ![o] = want[t]]
       /\ preview' = [preview EXCEPT ![o] = (kind[t] = "preview")]
       /\ listed' = [listed EXCEPT ![o] = FALSE]
       /\ files' = [files EXCEPT ![o] = NoFiles]
       /\ content' = [content EXCEPT ![o] = NoFiles]
       /\ cur' = [cur EXCEPT ![t] = o]
  /\ ctx' = [ctx EXCEPT ![t] = "load"]
  /\ pc' = [pc EXCEPT ![t] = "check"]
  /\ UNCHANGED <<diskVars, lock, index, kind, want, start, served, todo,
                 procVars, abort>>

\* mem_cache_alloc, or nvl_alloc for post->files, fails: the post is not found
AllocFails(t) ==
  /\ At(t, "alloc")
  /\ Finish(t)
  /\ UNCHANGED <<diskVars, refcnt, lock, postVars, index, ctx, cur, todo,
                 served, procVars, abort>>

-----------------------------------------------------------------------------
(* post_refresh, called by load_post (ctx "load") on a post only its own    *)
(* thread knows, and by get_post and load_posts (ctx "serve") under         *)
(* post->lock                                                               *)

Newer(o) == \E f \in Files : files[o][f] # 0 /\ rev[postId[o]][f] > files[o][f]

\* (mutant) a cached post is never refreshed again
MustRefreshOnce(o) == preview[o] \/ files[o] = NoFiles

MustRefresh(o) == preview[o] \/ files[o] = NoFiles \/ Newer(o)

\* where post_refresh returns to
Refreshed(t) == IF ctx[t] = "load" THEN "insert" ELSE "store"

\* must_refresh and, if it says so, post_remove_all_filenames
CheckRefresh(t) ==
  /\ At(t, "check")
  /\ \/ /\ MustRefresh(cur[t])
        /\ files' = [files EXCEPT ![cur[t]] = NoFiles]
        /\ pc' = [pc EXCEPT ![t] = IF preview[cur[t]] THEN "tex" ELSE "lisp"]
     \/ /\ ~MustRefresh(cur[t])
        /\ pc' = [pc EXCEPT ![t] = Refreshed(t)]
        /\ UNCHANGED files
  /\ UNCHANGED <<diskVars, refcnt, lock, postId, preview, listed, content,
                 index, threadVars, cur, todo, procVars, abort>>

FileState(t, f) == state[postId[cur[t]]][f]

\* post_get_cached_file: the file's revision goes into post->files
Record(t, f) == files' = [files EXCEPT ![cur[t]][f] = rev[postId[cur[t]]][f]]

\* the caller's data is now that of the file's current revision
Take(t, f) == content' = [content EXCEPT ![cur[t]][f] = rev[postId[cur[t]]][f]]

\* __refresh_published returns 0
ReadLisp(t) ==
  /\ At(t, "lisp")
  /\ FileState(t, "lisp") \in {"listed", "unlisted"}
  /\ Record(t, "lisp")
  /\ Take(t, "lisp")
  /\ listed' = [listed EXCEPT ![cur[t]] = (FileState(t, "lisp") = "listed")]
  /\ pc' = [pc EXCEPT ![t] = "tex"]
  /\ UNCHANGED <<diskVars, refcnt, lock, postId, preview, index, threadVars,
                 cur, todo, procVars, abort>>

\* __load_post_body returns 0
ReadTex(t) ==
  /\ At(t, "tex")
  /\ FileState(t, "tex") = "text"
  /\ Record(t, "tex")
  /\ Take(t, "tex")
  /\ pc' = [pc EXCEPT ![t] = Refreshed(t)]
  /\ UNCHANGED <<diskVars, refcnt, lock, postId, preview, listed, index,
                 threadVars, cur, todo, procVars, abort>>

\* (mutant) get_post and load_posts go on with the post they have
RefreshFailsServed(t) ==
  /\ pc' = [pc EXCEPT ![t] = IF ctx[t] = "load" THEN "destroy" ELSE "store"]
  /\ UNCHANGED abort

\* (mutant) load_post ignores the result of post_refresh
RefreshFailsCached(t) ==
  /\ pc' = [pc EXCEPT ![t] = IF ctx[t] = "load" THEN "insert" ELSE pc[t]]
  /\ abort' = IF ctx[t] = "load" THEN abort ELSE "refresh"

\* what a failed post_refresh does to its caller: load_post gives the post
\* up, get_post and load_posts fail ASSERT0(post_refresh(post))
RefreshFails(t) ==
  \/ /\ ctx[t] = "load"
     /\ pc' = [pc EXCEPT ![t] = "destroy"]
     /\ UNCHANGED abort
  \/ /\ ctx[t] = "serve"
     /\ abort' = "refresh"
     /\ UNCHANGED pc

\* (mutant) a missing file is waited for
FileMissingRetries(t) ==
  /\ \E f \in Files : At(t, f)
  /\ pc' = [pc EXCEPT ![t] = "check"]
  /\ UNCHANGED <<diskVars, refcnt, lock, postVars, index, threadVars, cur, todo, procVars, abort>>

\* post_get_cached_file fails: file_cache_get finds no file, or nvl_set_int no
\* memory; nothing is recorded
FileMissing(t) ==
  /\ \E f \in Files : At(t, f)
  /\ RefreshFails(t)
  /\ UNCHANGED <<diskVars, refcnt, lock, postVars, index, threadVars, cur,
                 todo, procVars>>

\* sexpr_parse_str fails: the revision is recorded, the data is not taken
LispMalformed(t) ==
  /\ At(t, "lisp")
  /\ FileState(t, "lisp") = "malformed"
  /\ Record(t, "lisp")
  /\ RefreshFails(t)
  /\ UNCHANGED <<diskVars, refcnt, lock, postId, preview, listed, content,
                 index, threadVars, cur, todo, procVars>>

\* an assertion or the panic inside the refresh
RefreshAborts(t) ==
  /\ \E f \in Files : At(t, f) /\ FileState(t, f) = "fatal"
  /\ abort' = "content"
  /\ UNCHANGED <<diskVars, refcnt, lock, postVars, index, pc, threadVars, cur,
                 todo, procVars>>

-----------------------------------------------------------------------------
(* The rest of load_post, get_post and load_posts *)

\* (mutant) the index does not take a reference
InsertNoGetref(t) ==
  /\ At(t, "insert")
  /\ index' = IF preview[cur[t]] THEN index ELSE [index EXCEPT ![postId[cur[t]]] = cur[t]]
  /\ pc' = [pc EXCEPT ![t] = Loaded(t)]
  /\ UNCHANGED <<diskVars, refcnt, lock, postVars, threadVars, cur, todo, procVars, abort>>

\* (mutant) the later of two loads of a post replaces the earlier
InsertReplaces(t) ==
  /\ At(t, "insert")
  /\ index' = IF preview[cur[t]] THEN index ELSE [index EXCEPT ![postId[cur[t]]] = cur[t]]
  /\ refcnt' = [o \in Objs |-> IF preview[cur[t]] THEN refcnt[o]
                               ELSE refcnt[o] + (IF o = cur[t] THEN 1 ELSE 0)
                                              - (IF o = index[postId[cur[t]]] THEN 1 ELSE 0)]
  /\ pc' = [pc EXCEPT ![t] = Loaded(t)]
  /\ UNCHANGED <<diskVars, lock, postVars, threadVars, cur, todo, procVars, abort>>

\* (mutant) previews go into the index, too
InsertPreviews(t) ==
  /\ At(t, "insert")
  /\ index[postId[cur[t]]] = NoObj
  /\ index' = [index EXCEPT ![postId[cur[t]]] = cur[t]]
  /\ refcnt' = [refcnt EXCEPT ![cur[t]] = @ + 1]
  /\ pc' = [pc EXCEPT ![t] = Loaded(t)]
  /\ UNCHANGED <<diskVars, lock, postVars, threadVars, cur, todo, procVars, abort>>

\* index_insert_post, and the ASSERT0 around it; a preview is not indexed
Insert(t) ==
  /\ At(t, "insert")
  /\ LET o == cur[t]
         p == postId[o]
     IN \/ /\ preview[o]
           /\ pc' = [pc EXCEPT ![t] = Loaded(t)]
           /\ UNCHANGED <<index, refcnt, abort>>
        \/ /\ ~preview[o] /\ index[p] = NoObj
           /\ index' = [index EXCEPT ![p] = o]
           /\ refcnt' = [refcnt EXCEPT ![o] = @ + 1]
           /\ pc' = [pc EXCEPT ![t] = Loaded(t)]
           /\ UNCHANGED abort
        \/ /\ ~preview[o] /\ index[p] # NoObj
           /\ abort' = "eexist"
           /\ UNCHANGED <<index, refcnt, pc>>
  /\ UNCHANGED <<diskVars, lock, postVars, threadVars, cur, todo, procVars>>

\* index_insert_post returns -ENOMEM
InsertFails(t) ==
  /\ At(t, "insert")
  /\ ~preview[cur[t]]
  /\ abort' = "enomem"
  /\ UNCHANGED <<diskVars, refcnt, lock, postVars, index, pc, threadVars, cur,
                 todo, procVars>>

\* (mutant) load_post's error path returns without destroying the post
DestroyLeaks(t) ==
  /\ At(t, "destroy")
  /\ cur' = [cur EXCEPT ![t] = NoObj]
  /\ Finish(t)
  /\ UNCHANGED <<diskVars, refcnt, lock, postVars, index, ctx, todo, served, procVars, abort>>

\* load_post's err_free: post_destroy, whatever the reference count
Destroy(t) ==
  /\ At(t, "destroy")
  /\ refcnt' = [refcnt EXCEPT ![cur[t]] = 0]
  /\ cur' = [cur EXCEPT ![t] = NoObj]
  /\ Finish(t)
  /\ UNCHANGED <<diskVars, lock, postVars, index, ctx, todo, served, procVars,
                 abort>>

\* load_posts turns to the next post of its array
NextPost(t) ==
  /\ At(t, "next")
  /\ \E o \in todo[t] :
       /\ cur' = [cur EXCEPT ![t] = o]
       /\ todo' = [todo EXCEPT ![t] = @ \ {o}]
  /\ pc' = [pc EXCEPT ![t] = "lock"]
  /\ UNCHANGED <<diskVars, refcnt, lock, postVars, index, threadVars, procVars,
                 abort>>

\* (mutant) the refresh begins before the lock is had
LockPostLate(t) ==
  /\ At(t, "lock")
  /\ lock' = [lock EXCEPT ![cur[t]] = IF @ = NoThread THEN t ELSE @]
  /\ ctx' = [ctx EXCEPT ![t] = "serve"]
  /\ pc' = [pc EXCEPT ![t] = "check"]
  /\ UNCHANGED <<diskVars, refcnt, postVars, index, kind, want, start, served, cur, todo,
                 procVars, abort>>

\* post_lock; post_refresh is next
LockPost(t) ==
  /\ At(t, "lock")
  /\ lock[cur[t]] = NoThread
  /\ lock' = [lock EXCEPT ![cur[t]] = t]
  /\ ctx' = [ctx EXCEPT ![t] = "serve"]
  /\ pc' = [pc EXCEPT ![t] = "check"]
  /\ UNCHANGED <<diskVars, refcnt, postVars, index, kind, want, start, served,
                 cur, todo, procVars, abort>>

\* (mutant) a return without post_unlock
StoreVarsKeepsLock(t) ==
  /\ At(t, "store")
  /\ pc' = [pc EXCEPT ![t] = "put"]
  /\ UNCHANGED <<diskVars, refcnt, lock, postVars, index, threadVars, cur, todo, procVars, abort>>

\* __store_vars copies the post into the response, then post_unlock
StoreVars(t) ==
  /\ At(t, "store")
  /\ lock' = [lock EXCEPT ![cur[t]] = NoThread]
  /\ pc' = [pc EXCEPT ![t] = "put"]
  /\ UNCHANGED <<diskVars, refcnt, postVars, index, threadVars, cur, todo,
                 procVars, abort>>

\* post_putref; the last reference destroys the post
PutRef(t) ==
  /\ At(t, "put")
  /\ refcnt' = [refcnt EXCEPT ![cur[t]] = @ - 1]
  /\ cur' = [cur EXCEPT ![t] = NoObj]
  /\ \/ /\ todo[t] = {}
        /\ Finish(t)
     \/ /\ todo[t] # {}
        /\ pc' = [pc EXCEPT ![t] = "next"]
        /\ UNCHANGED <<kind, want, start>>
  /\ UNCHANGED <<diskVars, lock, postVars, index, ctx, todo, served, procVars,
                 abort>>

-----------------------------------------------------------------------------
(* The process: main_blahgd *)

AllIdle == \A t \in Threads : pc[t] = "idle"

\* load_all_posts' taskq_wait returns; scgisvc begins
EnterService ==
  /\ abort = "none" /\ phase = "load"
  /\ pending = {} /\ AllIdle
  /\ phase' = "serve"
  /\ UNCHANGED <<diskVars, refcnt, lock, postVars, index, pc, threadVars, cur,
                 todo, pending, abort>>

\* the daemon is told to stop; scgisvc takes no more requests
StopService ==
  /\ abort = "none" /\ phase = "serve"
  /\ phase' = "drain"
  /\ UNCHANGED <<diskVars, refcnt, lock, postVars, index, pc, threadVars, cur,
                 todo, pending, abort>>

\* (mutant) waits until nobody has a reference, the index's own included
FreeAllPostsUnused ==
  /\ abort = "none" /\ phase = "drain" /\ AllIdle
  /\ \A o \in Objs : refcnt[o] = 0
  /\ phase' = "down"
  /\ UNCHANGED <<diskVars, refcnt, lock, postVars, index, pc, threadVars, cur, todo, pending, abort>>

\* scgisvc returns when every worker has finished; free_all_posts drops
\* the index's reference to every post
FreeAllPosts ==
  /\ abort = "none" /\ phase = "drain"
  /\ AllIdle
  /\ phase' = "down"
  /\ refcnt' = [o \in Objs |-> IF Indexed(o) THEN refcnt[o] - 1 ELSE refcnt[o]]
  /\ index' = [p \in PostIds |-> NoObj]
  /\ UNCHANGED <<diskVars, lock, postVars, pc, threadVars, cur, todo, pending,
                 abort>>

\* somebody edits, adds or removes a file of a post
EditFile(p, f) ==
  /\ abort = "none" /\ phase # "down"
  /\ rev[p][f] < MaxRev
  /\ rev' = [rev EXCEPT ![p][f] = @ + 1]
  /\ \E s \in (IF f = "lisp" THEN MetaStates ELSE BodyStates) :
       state' = [state EXCEPT ![p][f] = s]
  /\ UNCHANGED <<refcnt, lock, postVars, index, pc, threadVars, cur, todo,
                 procVars, abort>>

\* the process has ended
Ended ==
  /\ abort # "none" \/ phase = "down"
  /\ UNCHANGED vars

\* one step of the request a thread is running
Run(t) ==
  \/ Lookup(t) \/ Alloc(t) \/ AllocFails(t)
  \/ CheckRefresh(t) \/ ReadLisp(t) \/ ReadTex(t)
  \/ FileMissing(t) \/ LispMalformed(t) \/ RefreshAborts(t)
  \/ Insert(t) \/ InsertFails(t) \/ Destroy(t)
  \/ NextPost(t) \/ LockPost(t) \/ StoreVars(t) \/ PutRef(t)

Next ==
  \/ \E t \in Threads : StartPreload(t) \/ StartGetPost(t) \/ StartListing(t) \/ Run(t)
  \/ EnterService \/ StopService \/ FreeAllPosts
  \/ \E p \in PostIds, f \in Files : EditFile(p, f)
  \/ Ended

Spec == Init /\ [][Next]_vars

\* The operating system runs every thread; the task queue takes every entry
\* it was given, and scgisvc returns once it has been told to.  Nothing makes
\* a client send a request or an author edit a file.
FairSpec ==
  /\ Spec
  /\ \A t \in Threads : WF_vars(Run(t)) /\ WF_vars(StartPreload(t))
  /\ WF_vars(EnterService)
  /\ WF_vars(FreeAllPosts)

-----------------------------------------------------------------------------
(* What must hold *)

Stages == {"idle", "lookup", "alloc", "check", "lisp", "tex", "insert",
           "destroy", "next", "lock", "store", "put"}

Revs == [Files -> 0..MaxRev]

\* Type invariant: every variable of the cache, the threads and the process
\* has a value the C program can give it.
TypeOK ==
  /\ rev \in [PostIds -> [Files -> 1..MaxRev]]
  /\ state \in [PostIds -> [Files -> MetaStates \cup BodyStates]]
  /\ refcnt \in [Objs -> Nat]
  /\ lock \in [Objs -> Threads \cup {NoThread}]
  /\ postId \in [Objs -> PostIds \cup {NoPost}]
  /\ preview \in [Objs -> BOOLEAN]
  /\ listed \in [Objs -> BOOLEAN]
  /\ files \in [Objs -> Revs]
  /\ content \in [Objs -> Revs]
  /\ index \in [PostIds -> Objs \cup {NoObj}]
  /\ pc \in [Threads -> Stages]
  /\ kind \in [Threads -> {"none", "preload", "story", "preview", "listing"}]
  /\ want \in [Threads -> PostIds \cup {NoPost}]
  /\ ctx \in [Threads -> {"load", "serve"}]
  /\ cur \in [Threads -> Objs \cup {NoObj}]
  /\ todo \in [Threads -> SUBSET Objs]
  /\ start \in [Threads -> [PostIds -> Revs]]
  /\ served \in [Threads -> 0..MaxRequests]
  /\ phase \in {"load", "serve", "drain", "down"}
  /\ pending \subseteq Dirents
  /\ abort \in {"none", "refresh", "content", "eexist", "enomem"}

\* The threads that own a reference to o, as local variable or array element
Holders(o) == {t \in Threads : cur[t] = o \/ o \in todo[t]}

\* post_getref and post_putref balance: at every instant a post's count is
\* the number of threads that hold it, and one more if it is in the index.
\* So no thread uses freed memory, and a post nobody can reach is freed.
RefcountExact ==
  \A o \in Objs : refcnt[o] = Cardinality(Holders(o)) + (IF Indexed(o) THEN 1 ELSE 0)

\* No use after free: a post that a thread works on, has in its array, or
\* could find in the index is allocated; and a post that is freed is unlocked
\* (post_destroy's MXDESTROY).
NoUseAfterFree ==
  \A o \in Objs :
    refcnt[o] = 0 => /\ Holders(o) = {}
                     /\ ~Indexed(o)
                     /\ lock[o] = NoThread

\* After free_all_posts no struct post is left, whatever the requests did.
NoLeakAtExit == phase = "down" => \A o \in Objs : refcnt[o] = 0

\* The threads that are inside post_refresh or __store_vars of o
Using(o) == {t \in Threads : cur[t] = o /\ pc[t] \in {"check", "lisp", "tex", "store"}}

\* At most one thread at a time refreshes a post or copies it into a
\* response, although load_post refreshes without taking post->lock.
ExclusiveUse == \A o \in Objs : \A t, u \in Using(o) : t = u

\* The files a post is made of
Sources(o) == IF preview[o] THEN {"tex"} ELSE Files

\* The post's data is that of the revisions recorded in post->files
Complete(o) == \A f \in Sources(o) : files[o][f] # 0 /\ content[o][f] = files[o][f]

\* A response is never built from a half-refreshed post: when __store_vars
\* runs, every file has been read and the data is that of the recorded
\* revisions.
ServeComplete == \A t \in Threads : pc[t] = "store" => Complete(cur[t])

\* An indexed post that nobody is refreshing is complete: a refresh that
\* fails or is cut short is never left behind for the next thread (the
\* daemon aborts instead, while it still holds the post's lock).
CachedComplete ==
  \A p \in PostIds : (index[p] # NoObj /\ lock[index[p]] = NoThread) => Complete(index[p])

\* No stale response: what a request shows is at least as new as the files
\* were when the request began, even if the post sat in the cache for long.
FreshServe ==
  \A t \in Threads : pc[t] = "store" =>
    \A f \in Sources(cur[t]) : content[cur[t]][f] >= start[t][postId[cur[t]]][f]

\* The index maps an id to a published post with that id; a preview is seen
\* by the one thread that asked for it.
IndexSound ==
  /\ \A p \in PostIds : index[p] # NoObj => postId[index[p]] = p /\ ~preview[index[p]]
  /\ \A o \in Objs : \A t, u \in Holders(o) : preview[o] => t = u

\* If the directory entries name different posts, load_all_posts never
\* inserts a post twice: index_insert_post's -EEXIST, which ends the daemon,
\* needs two requests for the same post.
StartupInsertsOnce ==
  (\A d, e \in Dirents : DirId[d] = DirId[e] => d = e)
    => ~(phase = "load" /\ abort = "eexist")

\* The index keeps a post until the daemon stops: no request evicts or
\* replaces a cached post.
IndexKeeps ==
  [][\A p \in PostIds : index[p] # NoObj => index'[p] = index[p] \/ phase' = "down"]_vars

\* Every request ends, or the daemon aborts on a failed assertion.
RequestsEnd ==
  \A t \in Threads : pc[t] # "idle" ~> (pc[t] = "idle" \/ abort # "none")

\* Startup ends: the daemon comes to serve, or aborts.
StartupEnds == <>(phase = "serve" \/ abort # "none")

\* Once told to stop, the daemon frees the cache and exits, or aborts.
ShutdownEnds == phase = "drain" ~> (phase = "down" \/ abort # "none")

\* load_post's ASSERT0(index_insert_post(post)): inserting never fails.
InsertNeverFails == abort \notin {"eexist"}

-----------------------------------------------------------------------------
(* What get_post and load_posts promise (PostReads) *)

\* the posts that a request has still to show
Left(t) ==
  IF kind[t] = "listing"
  THEN {postId[o] : o \in todo[t] \cup
          (IF pc[t] \in {"lock", "check", "lisp", "tex", "store"} THEN {cur[t]} ELSE {})}
  ELSE IF pc[t] = "put" THEN {} ELSE {want[t]}

\* the requests: loading a post at startup is not one
Asked ==
  [t \in Threads |-> IF kind[t] \in {"none", "preload"} THEN [kind |-> "none"]
                     ELSE [kind |-> kind[t], left |-> Left(t), since |-> start[t]]]

\* what __store_vars copies
Page ==
  [t \in Threads |-> IF pc[t] # "store" THEN [post |-> "none"]
                     ELSE [post |-> postId[cur[t]],
                           data |-> [f \in Sources(cur[t]) |-> content[cur[t]][f]]]]

Reads == INSTANCE PostReads WITH asked <- Asked, page <- Page

\* The cache cannot be told from reading the files anew for every request:
\* a request shows the posts it asked for, each once, from data that its
\* files had while it ran; a post does not change while it is copied; and
\* a listing shows every post it found in the index.
ImplementsReads == Reads!Spec

-----------------------------------------------------------------------------
(* The inductive invariant of PostCacheProofs *)

\* load_post works on a post of its own
Loading(t) == pc[t] \in {"insert", "destroy"}
              \/ (pc[t] \in {"check", "lisp", "tex"} /\ ctx[t] = "load")

\* the thread is between post_lock and post_unlock
Locking(t) == pc[t] = "store" \/ (pc[t] \in {"check", "lisp", "tex"} /\ ctx[t] = "serve")

\* what a thread's program counter says of its local variables
ControlInv ==
  \A t \in Threads :
    /\ pc[t] \in {"idle", "lookup", "alloc", "next"} <=> cur[t] = NoObj
    /\ pc[t] \in {"idle", "lookup", "alloc"} \/ Loading(t) => todo[t] = {}
    /\ pc[t] \in {"lookup", "alloc"} => want[t] \in PostIds
    /\ cur[t] \notin todo[t]

\* post->lock is held by the thread between post_lock and post_unlock
LockInv ==
  \A o \in Objs, t \in Threads : lock[o] = t <=> (Locking(t) /\ cur[t] = o)

\* a post is unknown to others until load_post has inserted it
PrivateInv ==
  \A t \in Threads : Loading(t) => Holders(cur[t]) = {t} /\ ~Indexed(cur[t])

\* an allocated post has an id
IdInv == \A o \in Objs : refcnt[o] > 0 => postId[o] \in PostIds

\* the post is being rebuilt, or has been given up
Partial(t) == pc[t] \in {"lisp", "tex", "destroy"} \/ (pc[t] = "check" /\ ctx[t] = "load")

\* a post that is not being rebuilt is complete, and one that is has what
\* the stage says
DataInv ==
  /\ \A o \in Objs :
       refcnt[o] > 0 => Complete(o) \/ \E t \in Threads : cur[t] = o /\ Partial(t)
  /\ \A t \in Threads :
       /\ pc[t] = "check" /\ ctx[t] = "load" => files[cur[t]] = NoFiles
       /\ pc[t] = "lisp" => ~preview[cur[t]]
       /\ pc[t] = "tex" /\ ~preview[cur[t]] =>
             files[cur[t]]["lisp"] # 0 /\ content[cur[t]]["lisp"] = files[cur[t]]["lisp"]

\* the revisions read so far are no older than the request
FreshInv ==
  /\ \A t \in Threads, p \in PostIds, f \in Files : start[t][p][f] <= rev[p][f]
  /\ \A t \in Threads :
       LET o == cur[t] IN
       /\ pc[t] = "tex" /\ ~preview[o] => content[o]["lisp"] >= start[t][postId[o]]["lisp"]
       /\ pc[t] = "store" => \A f \in Sources(o) : content[o][f] >= start[t][postId[o]][f]

IInv == TypeOK /\ ControlInv /\ LockInv /\ PrivateInv /\ IdInv /\ IndexSound
        /\ RefcountExact /\ DataInv /\ FreshInv
=============================================================================
