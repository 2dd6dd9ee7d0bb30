--------------------------- MODULE PostCacheProofs ---------------------------
(***************************************************************************)
(* The safety of the post cache for any number of threads, posts, entries  *)
(* and edits, from one inductive invariant IInv: exact reference counts,   *)
(* what each position of a thread says of the post it works on, who owns a *)
(* post before it is inserted, and which revision is in it.  The last      *)
(* section is about load_all_posts alone.                                  *)
(***************************************************************************)
EXTENDS PostCache, TLAPS, FiniteSetTheorems

-----------------------------------------------------------------------------
(* Counting references *)

\* The set of holders is finite, and a post is allocated while it is held
\* or indexed.
LEMMA Counting ==
  ASSUME TypeOK, RefcountExact, NEW o \in Objs
  PROVE  /\ IsFiniteSet(Holders(o))
         /\ Cardinality(Holders(o)) \in Nat
         /\ refcnt[o] \in Nat
         /\ Holders(o) # {} => refcnt[o] > 0
         /\ Indexed(o) => refcnt[o] > 0
         /\ refcnt[o] = 0 => Holders(o) = {} /\ ~Indexed(o)
<1>1. IsFiniteSet(Holders(o))
  BY FiniteAssumption, FS_Subset DEF Holders
<1>2. Cardinality(Holders(o)) \in Nat
  BY <1>1, FS_CardinalityType
<1>3. Holders(o) # {} => Cardinality(Holders(o)) # 0
  BY <1>1, FS_EmptySet
<1>4. refcnt[o] = Cardinality(Holders(o)) + (IF Indexed(o) THEN 1 ELSE 0)
  BY DEF RefcountExact
<1>5. QED
  BY <1>1, <1>2, <1>3, <1>4

\* A thread that works on a post holds a reference to an allocated post
\* that has an id.
LEMMA Held ==
  ASSUME IInv, NEW t \in Threads,
         pc[t] \in {"check", "lisp", "tex", "insert", "destroy", "lock", "store", "put"}
  PROVE  /\ cur[t] \in Objs
         /\ t \in Holders(cur[t])
         /\ refcnt[cur[t]] \in Nat
         /\ refcnt[cur[t]] > 0
         /\ postId[cur[t]] \in PostIds
<1>1. TypeOK /\ ControlInv /\ RefcountExact /\ IdInv
  BY DEF IInv
<1>2. cur[t] \in Objs
  BY <1>1 DEF TypeOK, ControlInv
<1>3. t \in Holders(cur[t])
  BY <1>2 DEF Holders
<1>4. refcnt[cur[t]] \in Nat /\ refcnt[cur[t]] > 0
  BY <1>1, <1>2, <1>3, Counting
<1>5. QED
  BY <1>1, <1>2, <1>3, <1>4 DEF IdInv

-----------------------------------------------------------------------------
(* Each part of the invariant is preserved *)

\* The zero record of revisions, and the revisions on disk, have their type.
LEMMA RevTypes ==
  ASSUME TypeOK
  PROVE  /\ NoFiles \in Revs
         /\ rev \in [PostIds -> Revs]
         /\ [p \in PostIds |-> NoFiles] \in [PostIds -> Revs]
         /\ \A p \in PostIds : rev[p] \in Revs
         /\ \A p \in PostIds, f \in Files : rev[p][f] \in 1..MaxRev
<1>1. NoFiles \in Revs
  BY ConstantsAssumption DEF NoFiles, Revs
<1>2. rev \in [PostIds -> [Files -> 1..MaxRev]]
  BY DEF TypeOK
<1>3. 1..MaxRev \subseteq 0..MaxRev
  BY ConstantsAssumption
<1>4. QED
  BY <1>1, <1>2, <1>3 DEF Revs

\* TypeOK is preserved.
LEMMA TypeStep == IInv /\ [Next]_vars => TypeOK'
<1> SUFFICES ASSUME IInv, [Next]_vars PROVE TypeOK'
  OBVIOUS
<1>1. TypeOK /\ ControlInv /\ RefcountExact
  BY DEF IInv
<1> USE ConstantsAssumption DEF TypeOK, Stages, diskVars, postVars,
     threadVars, procVars
<1>2. ASSUME NEW t \in Threads, StartPreload(t)
       PROVE  TypeOK'
  BY <1>1, <1>2, RevTypes DEF StartPreload, At, Begin
<1>3. ASSUME NEW t \in Threads, StartGetPost(t)
       PROVE  TypeOK'
<2>1. served' = [served EXCEPT ![t] = @ + 1] /\ served[t] + 1 \in 0..MaxRequests
  BY <1>1, <1>3 DEF StartGetPost
<2>2. start' = [start EXCEPT ![t] = rev]
  BY <1>3 DEF StartGetPost, Begin
<2>3. served' \in [Threads -> 0..MaxRequests] /\ start' \in [Threads -> [PostIds -> Revs]]
  BY <1>1, <2>1, <2>2, RevTypes
<2>4. PICK p \in PostIds : Begin(t, "story", p, "lookup") \/ Begin(t, "preview", p, "alloc")
  BY <1>3 DEF StartGetPost
<2>5. /\ pc' \in [Threads -> Stages]
      /\ kind' \in [Threads -> {"none", "preload", "story", "preview", "listing"}]
      /\ want' \in [Threads -> PostIds \cup {NoPost}]
  <3>1. CASE Begin(t, "story", p, "lookup")
    BY <1>1, <3>1 DEF Begin
  <3>2. CASE Begin(t, "preview", p, "alloc")
    BY <1>1, <3>2 DEF Begin
  <3>3. QED
    BY <2>4, <3>1, <3>2
<2>6. QED
  BY <1>1, <1>3, <2>3, <2>5 DEF StartGetPost
<1>4. ASSUME NEW t \in Threads, StartListing(t)
       PROVE  TypeOK'
  BY <1>1, <1>4, RevTypes DEF StartListing, At, Begin, Indexed
<1>5. ASSUME NEW t \in Threads, Lookup(t)
       PROVE  TypeOK'
<2>1. want[t] \in PostIds /\ index[want[t]] \in Objs \cup {NoObj}
  BY <1>1, <1>5 DEF Lookup, At, ControlInv
<2>2. pc' \in [Threads -> Stages]
  BY <1>1, <1>5 DEF Lookup, Loaded, Stages
<2>3. CASE index[want[t]] # NoObj
  <3>1. index[want[t]] \in Objs /\ refcnt[index[want[t]]] + 1 \in Nat
    BY <1>1, <2>1, <2>3
  <3>2. /\ cur' = [cur EXCEPT ![t] = index[want[t]]]
        /\ refcnt' = [refcnt EXCEPT ![index[want[t]]] = @ + 1]
    BY <1>5, <2>3 DEF Lookup
  <3>3. refcnt' \in [Objs -> Nat] /\ cur' \in [Threads -> Objs \cup {NoObj}]
    BY <1>1, <3>1, <3>2
  <3>4. QED
    BY <1>1, <1>5, <2>2, <3>3 DEF Lookup
<2>4. CASE index[want[t]] = NoObj
  BY <1>1, <1>5, <2>2, <2>4 DEF Lookup
<2>5. QED
  BY <2>3, <2>4
<1>6. ASSUME NEW t \in Threads, Alloc(t)
       PROVE  TypeOK'
  BY <1>1, <1>6, RevTypes DEF Alloc, At
<1>7. ASSUME NEW t \in Threads, AllocFails(t)
       PROVE  TypeOK'
  BY <1>1, <1>7, RevTypes DEF AllocFails, At, Finish
<1>8. ASSUME NEW t \in Threads, CheckRefresh(t)
       PROVE  TypeOK'
<2>1. files' \in [Objs -> Revs]
  BY <1>1, <1>8, RevTypes DEF CheckRefresh
<2>2. QED
  BY <1>1, <1>8, <2>1 DEF CheckRefresh, At, Refreshed
<1>9. ASSUME NEW t \in Threads, ReadLisp(t)
       PROVE  TypeOK'
<2> DEFINE o == cur[t]
<2>1. o \in Objs /\ "lisp" \in Files /\ rev[postId[o]]["lisp"] \in 0..MaxRev
  BY <1>1, <1>9, Held, RevTypes, ConstantsAssumption DEF ReadLisp, At, Files
<2>2. \A r \in Revs : [r EXCEPT !["lisp"] = rev[postId[o]]["lisp"]] \in Revs
  BY <2>1 DEF Revs
<2>3. files' = [files EXCEPT ![o] = [files[o] EXCEPT !["lisp"] = rev[postId[o]]["lisp"]]]
  BY <1>9 DEF ReadLisp, Record
<2>4. content' = [content EXCEPT ![o] = [content[o] EXCEPT !["lisp"] = rev[postId[o]]["lisp"]]]
  BY <1>9 DEF ReadLisp, Take
<2>5. files' \in [Objs -> Revs] /\ content' \in [Objs -> Revs]
  BY <1>1, <2>1, <2>2, <2>3, <2>4
<2>6. QED
  BY <1>1, <1>9, <2>5 DEF ReadLisp, At, FileState
<1>10. ASSUME NEW t \in Threads, ReadTex(t)
       PROVE  TypeOK'
<2> DEFINE o == cur[t]
<2>1. o \in Objs /\ "tex" \in Files /\ rev[postId[o]]["tex"] \in 0..MaxRev
  BY <1>1, <1>10, Held, RevTypes, ConstantsAssumption DEF ReadTex, At, Files
<2>2. \A r \in Revs : [r EXCEPT !["tex"] = rev[postId[o]]["tex"]] \in Revs
  BY <2>1 DEF Revs
<2>3. files' = [files EXCEPT ![o] = [files[o] EXCEPT !["tex"] = rev[postId[o]]["tex"]]]
  BY <1>10 DEF ReadTex, Record
<2>4. content' = [content EXCEPT ![o] = [content[o] EXCEPT !["tex"] = rev[postId[o]]["tex"]]]
  BY <1>10 DEF ReadTex, Take
<2>5. files' \in [Objs -> Revs] /\ content' \in [Objs -> Revs]
  BY <1>1, <2>1, <2>2, <2>3, <2>4
<2>6. QED
  BY <1>1, <1>10, <2>5 DEF ReadTex, At, Refreshed
<1>11. ASSUME NEW t \in Threads, FileMissing(t)
       PROVE  TypeOK'
  BY <1>1, <1>11, Held DEF FileMissing, At, RefreshFails, Files
<1>12. ASSUME NEW t \in Threads, LispMalformed(t)
       PROVE  TypeOK'
<2> DEFINE o == cur[t]
<2>1. o \in Objs /\ "lisp" \in Files /\ rev[postId[o]]["lisp"] \in 0..MaxRev
  BY <1>1, <1>12, Held, RevTypes, ConstantsAssumption DEF LispMalformed, At,
     Files
<2>2. \A r \in Revs : [r EXCEPT !["lisp"] = rev[postId[o]]["lisp"]] \in Revs
  BY <2>1 DEF Revs
<2>3. files' = [files EXCEPT ![o] = [files[o] EXCEPT !["lisp"] = rev[postId[o]]["lisp"]]]
  BY <1>12 DEF LispMalformed, Record
<2>4. content' = content
  BY <1>12 DEF LispMalformed
<2>5. files' \in [Objs -> Revs] /\ content' \in [Objs -> Revs]
  BY <1>1, <2>1, <2>2, <2>3, <2>4
<2>6. QED
  BY <1>1, <1>12, <2>5 DEF LispMalformed, At, RefreshFails
<1>13. ASSUME NEW t \in Threads, RefreshAborts(t)
       PROVE  TypeOK'
  BY <1>1, <1>13, Held DEF RefreshAborts, At, Files
<1>14. ASSUME NEW t \in Threads, Insert(t)
       PROVE  TypeOK'
<2>1. cur[t] \in Objs /\ postId[cur[t]] \in PostIds /\ refcnt[cur[t]] + 1 \in Nat
  BY <1>1, <1>14, Held DEF Insert, At
<2>2. /\ refcnt' = refcnt \/ refcnt' = [refcnt EXCEPT ![cur[t]] = @ + 1]
      /\ index' = index \/ index' = [index EXCEPT ![postId[cur[t]]] = cur[t]]
  BY <1>14 DEF Insert
<2>3. refcnt' \in [Objs -> Nat] /\ index' \in [PostIds -> Objs \cup {NoObj}]
  <3>1. refcnt' \in [Objs -> Nat]
    BY <1>1, <2>1, <2>2
  <3>2. index' \in [PostIds -> Objs \cup {NoObj}]
    BY <1>1, <2>1, <2>2
  <3>3. QED
    BY <3>1, <3>2
<2>4. pc' \in [Threads -> Stages]
  BY <1>1, <1>14 DEF Insert, Loaded, Stages
<2>5. QED
  BY <1>1, <1>14, <2>3, <2>4 DEF Insert
<1>15. ASSUME NEW t \in Threads, InsertFails(t)
       PROVE  TypeOK'
  BY <1>1, <1>15, Held DEF InsertFails, At
<1>16. ASSUME NEW t \in Threads, Destroy(t)
       PROVE  TypeOK'
  BY <1>1, <1>16, Held, RevTypes DEF Destroy, At, Finish
<1>17. ASSUME NEW t \in Threads, NextPost(t)
       PROVE  TypeOK'
  BY <1>1, <1>17 DEF NextPost, At
<1>18. ASSUME NEW t \in Threads, LockPost(t)
       PROVE  TypeOK'
  BY <1>1, <1>18, Held DEF LockPost, At
<1>19. ASSUME NEW t \in Threads, StoreVars(t)
       PROVE  TypeOK'
  BY <1>1, <1>19, Held DEF StoreVars, At
<1>20. ASSUME NEW t \in Threads, PutRef(t)
       PROVE  TypeOK'
<2>1. cur[t] \in Objs /\ refcnt[cur[t]] - 1 \in Nat
  BY <1>1, <1>20, Held DEF PutRef, At
<2>2. refcnt' \in [Objs -> Nat]
  BY <1>1, <1>20, <2>1 DEF PutRef
<2>3. start' = start \/ start' = [start EXCEPT ![t] = [p \in PostIds |-> NoFiles]]
  BY <1>20 DEF PutRef, Finish
<2>4. start' \in [Threads -> [PostIds -> Revs]]
  BY <1>1, <2>3, RevTypes
<2>5. QED
  BY <1>1, <1>20, <2>2, <2>4 DEF PutRef, Finish
<1>21. ASSUME EnterService
       PROVE  TypeOK'
  BY <1>1, <1>21 DEF EnterService
<1>22. ASSUME StopService
       PROVE  TypeOK'
  BY <1>1, <1>22 DEF StopService
<1>23. ASSUME FreeAllPosts
       PROVE  TypeOK'
<2>1. \A o \in Objs : Indexed(o) => refcnt[o] - 1 \in Nat
  BY <1>1, Counting
<2>2. QED
  BY <1>1, <1>23, <2>1 DEF FreeAllPosts
<1>24. ASSUME NEW p \in PostIds, NEW f \in Files, EditFile(p, f)
       PROVE  TypeOK'
<2>1. rev' \in [PostIds -> [Files -> 1..MaxRev]]
  BY <1>1, <1>24 DEF EditFile
<2>2. state' \in [PostIds -> [Files -> MetaStates \cup BodyStates]]
  BY <1>1, <1>24 DEF EditFile
<2>3. QED
  BY <1>1, <1>24, <2>1, <2>2 DEF EditFile
<1>25. CASE UNCHANGED vars
  BY <1>1, <1>25 DEF vars
<1>26. QED
  BY <1>2, <1>3, <1>4, <1>5, <1>6, <1>7, <1>8, <1>9, <1>10, <1>11, <1>12,
     <1>13, <1>14, <1>15, <1>16, <1>17, <1>18, <1>19, <1>20, <1>21, <1>22,
     <1>23, <1>24, <1>25 DEF Next, Run, Ended

\* Memory that is free is not held, and not in the index.
LEMMA FreeUnheld ==
  ASSUME IInv, NEW o \in Objs, refcnt[o] = 0
  PROVE  Holders(o) = {} /\ ~Indexed(o)
BY Counting DEF IInv

\* While a thread rebuilds a post or copies it, no other thread does, and
\* one that loads a post is its only holder.
LEMMA Alone ==
  ASSUME IInv, NEW t \in Threads, NEW u \in Threads, t # u, cur[t] = cur[u],
         Loading(t) \/ Locking(t)
  PROVE  ~Loading(t) /\ ~Loading(u) /\ ~Locking(u)
<1>1. TypeOK /\ ControlInv /\ LockInv /\ PrivateInv
  BY DEF IInv
<1>2. cur[t] \in Objs /\ t \in Holders(cur[t])
  BY Held DEF Loading, Locking
<1>3. t \in Holders(cur[u]) /\ u \in Holders(cur[t])
  BY <1>2 DEF Holders
<1>4. ~Loading(t) /\ ~Loading(u)
  BY <1>1, <1>3 DEF PrivateInv
<1>5. ~Locking(u)
  BY <1>1, <1>2, <1>4 DEF LockInv
<1>6. QED
  BY <1>4, <1>5

\* ControlInv is preserved.
LEMMA ControlStep == IInv /\ [Next]_vars => ControlInv'
<1> SUFFICES ASSUME IInv, [Next]_vars PROVE ControlInv'
  OBVIOUS
<1>1. TypeOK /\ ControlInv
  BY DEF IInv
<1> USE ConstantsAssumption DEF TypeOK, ControlInv, Loading, diskVars,
     postVars, threadVars, procVars
<1>2. ASSUME NEW t \in Threads, StartPreload(t)
       PROVE  ControlInv'
  BY <1>1, <1>2 DEF StartPreload, At, Begin
<1>3. ASSUME NEW t \in Threads, StartGetPost(t)
       PROVE  ControlInv'
<2>1. PICK p \in PostIds : Begin(t, "story", p, "lookup") \/ Begin(t, "preview", p, "alloc")
  BY <1>3 DEF StartGetPost
<2>2. pc[t] = "idle" /\ UNCHANGED <<cur, todo, ctx>>
  BY <1>3 DEF StartGetPost, At
<2>3. CASE Begin(t, "story", p, "lookup")
  BY <1>1, <2>2, <2>3 DEF Begin
<2>4. CASE Begin(t, "preview", p, "alloc")
  BY <1>1, <2>2, <2>4 DEF Begin
<2>5. QED
  BY <2>1, <2>3, <2>4
<1>4. ASSUME NEW t \in Threads, StartListing(t)
       PROVE  ControlInv'
  BY <1>1, <1>4 DEF StartListing, At, Begin, Indexed
<1>5. ASSUME NEW t \in Threads, Lookup(t)
       PROVE  ControlInv'
<2>1. pc[t] = "lookup" /\ want[t] \in PostIds /\ UNCHANGED <<want, todo, ctx>>
  BY <1>1, <1>5 DEF Lookup, At
<2>2. CASE index[want[t]] # NoObj
  <3>1. cur' = [cur EXCEPT ![t] = index[want[t]]] /\ pc' = [pc EXCEPT ![t] = Loaded(t)]
    BY <1>5, <2>2 DEF Lookup
  <3>2. index[want[t]] \in Objs /\ Loaded(t) \in {"put", "lock"}
    BY <1>1, <2>1, <2>2 DEF Loaded
  <3>3. QED
    BY <1>1, <2>1, <3>1, <3>2
<2>3. CASE index[want[t]] = NoObj
  <3>1. pc' = [pc EXCEPT ![t] = "alloc"] /\ cur' = cur
    BY <1>5, <2>3 DEF Lookup
  <3>2. QED
    BY <1>1, <2>1, <3>1
<2>4. QED
  BY <2>2, <2>3
<1>6. ASSUME NEW t \in Threads, Alloc(t)
       PROVE  ControlInv'
  BY <1>1, <1>6 DEF Alloc, At
<1>7. ASSUME NEW t \in Threads, AllocFails(t)
       PROVE  ControlInv'
  BY <1>1, <1>7 DEF AllocFails, At, Finish
<1>8. ASSUME NEW t \in Threads, CheckRefresh(t)
       PROVE  ControlInv'
<2>1. pc[t] = "check" /\ UNCHANGED <<cur, want, todo, ctx>> /\ cur[t] \in Objs
  BY <1>1, <1>8, Held DEF CheckRefresh, At
<2>2. PICK s \in {"tex", "lisp", "insert", "store"} :
        /\ pc' = [pc EXCEPT ![t] = s]
        /\ s = "insert" => ctx[t] = "load"
        /\ s = "store" => ctx[t] = "serve"
  BY <1>1, <1>8 DEF CheckRefresh, Refreshed
<2>3. QED
  BY <1>1, <2>1, <2>2
<1>9. ASSUME NEW t \in Threads, ReadLisp(t)
       PROVE  ControlInv'
  BY <1>1, <1>9, Held DEF ReadLisp, At, Record, Take, FileState
<1>10. ASSUME NEW t \in Threads, ReadTex(t)
       PROVE  ControlInv'
  BY <1>1, <1>10, Held DEF ReadTex, At, Record, Take, Refreshed
<1>11. ASSUME NEW t \in Threads, FileMissing(t)
       PROVE  ControlInv'
  BY <1>1, <1>11, Held DEF FileMissing, At, RefreshFails, Files
<1>12. ASSUME NEW t \in Threads, LispMalformed(t)
       PROVE  ControlInv'
  BY <1>1, <1>12, Held DEF LispMalformed, At, Record, RefreshFails
<1>13. ASSUME NEW t \in Threads, RefreshAborts(t)
       PROVE  ControlInv'
  BY <1>1, <1>13, Held DEF RefreshAborts, At, Files
<1>14. ASSUME NEW t \in Threads, Insert(t)
       PROVE  ControlInv'
  BY <1>1, <1>14, Held DEF Insert, At, Loaded
<1>15. ASSUME NEW t \in Threads, InsertFails(t)
       PROVE  ControlInv'
  BY <1>1, <1>15, Held DEF InsertFails, At
<1>16. ASSUME NEW t \in Threads, Destroy(t)
       PROVE  ControlInv'
  BY <1>1, <1>16, Held DEF Destroy, At, Finish
<1>17. ASSUME NEW t \in Threads, NextPost(t)
       PROVE  ControlInv'
  BY <1>1, <1>17 DEF NextPost, At
<1>18. ASSUME NEW t \in Threads, LockPost(t)
       PROVE  ControlInv'
  BY <1>1, <1>18, Held DEF LockPost, At
<1>19. ASSUME NEW t \in Threads, StoreVars(t)
       PROVE  ControlInv'
  BY <1>1, <1>19, Held DEF StoreVars, At
<1>20. ASSUME NEW t \in Threads, PutRef(t)
       PROVE  ControlInv'
  BY <1>1, <1>20, Held DEF PutRef, At, Finish
<1>21. ASSUME EnterService
       PROVE  ControlInv'
  BY <1>1, <1>21 DEF EnterService
<1>22. ASSUME StopService
       PROVE  ControlInv'
  BY <1>1, <1>22 DEF StopService
<1>23. ASSUME FreeAllPosts
       PROVE  ControlInv'
  BY <1>1, <1>23 DEF FreeAllPosts, Indexed
<1>24. ASSUME NEW p \in PostIds, NEW f \in Files, EditFile(p, f)
       PROVE  ControlInv'
  BY <1>1, <1>24 DEF EditFile
<1>25. CASE UNCHANGED vars
  BY <1>1, <1>25 DEF vars
<1>26. QED
  BY <1>2, <1>3, <1>4, <1>5, <1>6, <1>7, <1>8, <1>9, <1>10, <1>11, <1>12,
     <1>13, <1>14, <1>15, <1>16, <1>17, <1>18, <1>19, <1>20, <1>21, <1>22,
     <1>23, <1>24, <1>25 DEF Next, Run, Ended

\* LockInv is preserved.
LEMMA LockStep == IInv /\ [Next]_vars => LockInv'
<1> SUFFICES ASSUME IInv, [Next]_vars PROVE LockInv'
  OBVIOUS
<1>1. TypeOK /\ ControlInv /\ LockInv
  BY DEF IInv
<1> USE ConstantsAssumption DEF TypeOK, ControlInv, LockInv, Locking,
     diskVars, postVars, threadVars, procVars
<1>2. ASSUME NEW t \in Threads, StartPreload(t)
       PROVE  LockInv'
  BY <1>1, <1>2 DEF StartPreload, At, Begin
<1>3. ASSUME NEW t \in Threads, StartGetPost(t)
       PROVE  LockInv'
  BY <1>1, <1>3 DEF StartGetPost, At, Begin
<1>4. ASSUME NEW t \in Threads, StartListing(t)
       PROVE  LockInv'
  BY <1>1, <1>4 DEF StartListing, At, Begin, Indexed
<1>5. ASSUME NEW t \in Threads, Lookup(t)
       PROVE  LockInv'
  BY <1>1, <1>5 DEF Lookup, At, Loaded
<1>6. ASSUME NEW t \in Threads, Alloc(t)
       PROVE  LockInv'
  BY <1>1, <1>6, FreeUnheld DEF Alloc, At
<1>7. ASSUME NEW t \in Threads, AllocFails(t)
       PROVE  LockInv'
  BY <1>1, <1>7 DEF AllocFails, At, Finish
<1>8. ASSUME NEW t \in Threads, CheckRefresh(t)
       PROVE  LockInv'
  BY <1>1, <1>8, Held DEF CheckRefresh, At, Refreshed
<1>9. ASSUME NEW t \in Threads, ReadLisp(t)
       PROVE  LockInv'
  BY <1>1, <1>9, Held DEF ReadLisp, At, Record, Take, FileState
<1>10. ASSUME NEW t \in Threads, ReadTex(t)
       PROVE  LockInv'
  BY <1>1, <1>10, Held DEF ReadTex, At, Record, Take, Refreshed
<1>11. ASSUME NEW t \in Threads, FileMissing(t)
       PROVE  LockInv'
  BY <1>1, <1>11, Held DEF FileMissing, At, RefreshFails, Files
<1>12. ASSUME NEW t \in Threads, LispMalformed(t)
       PROVE  LockInv'
  BY <1>1, <1>12, Held DEF LispMalformed, At, Record, RefreshFails
<1>13. ASSUME NEW t \in Threads, RefreshAborts(t)
       PROVE  LockInv'
  BY <1>1, <1>13, Held DEF RefreshAborts, At, Files
<1>14. ASSUME NEW t \in Threads, Insert(t)
       PROVE  LockInv'
  BY <1>1, <1>14, Held DEF Insert, At, Loaded
<1>15. ASSUME NEW t \in Threads, InsertFails(t)
       PROVE  LockInv'
  BY <1>1, <1>15, Held DEF InsertFails, At
<1>16. ASSUME NEW t \in Threads, Destroy(t)
       PROVE  LockInv'
  BY <1>1, <1>16, Held DEF Destroy, At, Finish
<1>17. ASSUME NEW t \in Threads, NextPost(t)
       PROVE  LockInv'
  BY <1>1, <1>17 DEF NextPost, At
<1>18. ASSUME NEW t \in Threads, LockPost(t)
       PROVE  LockInv'
  BY <1>1, <1>18, Held DEF LockPost, At
<1>19. ASSUME NEW t \in Threads, StoreVars(t)
       PROVE  LockInv'
  BY <1>1, <1>19, Held DEF StoreVars, At
<1>20. ASSUME NEW t \in Threads, PutRef(t)
       PROVE  LockInv'
  BY <1>1, <1>20, Held DEF PutRef, At, Finish
<1>21. ASSUME EnterService
       PROVE  LockInv'
  BY <1>1, <1>21 DEF EnterService
<1>22. ASSUME StopService
       PROVE  LockInv'
  BY <1>1, <1>22 DEF StopService
<1>23. ASSUME FreeAllPosts
       PROVE  LockInv'
  BY <1>1, <1>23 DEF FreeAllPosts, Indexed
<1>24. ASSUME NEW p \in PostIds, NEW f \in Files, EditFile(p, f)
       PROVE  LockInv'
  BY <1>1, <1>24 DEF EditFile
<1>25. CASE UNCHANGED vars
  BY <1>1, <1>25 DEF vars
<1>26. QED
  BY <1>2, <1>3, <1>4, <1>5, <1>6, <1>7, <1>8, <1>9, <1>10, <1>11, <1>12,
     <1>13, <1>14, <1>15, <1>16, <1>17, <1>18, <1>19, <1>20, <1>21, <1>22,
     <1>23, <1>24, <1>25 DEF Next, Run, Ended

\* IdInv is preserved.
LEMMA IdStep == IInv /\ [Next]_vars => IdInv'
<1> SUFFICES ASSUME IInv, [Next]_vars PROVE IdInv'
  OBVIOUS
<1>1. TypeOK /\ ControlInv /\ IdInv /\ RefcountExact
  BY DEF IInv
<1> USE ConstantsAssumption DEF TypeOK, ControlInv, IdInv, diskVars,
     postVars, threadVars, procVars
<1>2. ASSUME NEW t \in Threads, StartPreload(t)
       PROVE  IdInv'
  BY <1>1, <1>2 DEF StartPreload, At, Begin
<1>3. ASSUME NEW t \in Threads, StartGetPost(t)
       PROVE  IdInv'
  BY <1>1, <1>3 DEF StartGetPost, At, Begin
<1>4. ASSUME NEW t \in Threads, StartListing(t)
       PROVE  IdInv'
  BY <1>1, <1>4, Counting DEF StartListing, At, Begin, Indexed
<1>5. ASSUME NEW t \in Threads, Lookup(t)
       PROVE  IdInv'
<2>1. want[t] \in PostIds /\ UNCHANGED postId
  BY <1>1, <1>5 DEF Lookup, At
<2>2. CASE index[want[t]] # NoObj
  <3>1. index[want[t]] \in Objs /\ Indexed(index[want[t]])
    BY <1>1, <2>1, <2>2 DEF Indexed
  <3>2. refcnt[index[want[t]]] > 0
    BY <1>1, <3>1, Counting
  <3>3. refcnt' = [refcnt EXCEPT ![index[want[t]]] = @ + 1]
    BY <1>5, <2>2 DEF Lookup
  <3>4. QED
    BY <1>1, <2>1, <3>1, <3>2, <3>3
<2>3. CASE index[want[t]] = NoObj
  BY <1>1, <1>5, <2>3 DEF Lookup
<2>4. QED
  BY <2>2, <2>3
<1>6. ASSUME NEW t \in Threads, Alloc(t)
       PROVE  IdInv'
  BY <1>1, <1>6 DEF Alloc, At
<1>7. ASSUME NEW t \in Threads, AllocFails(t)
       PROVE  IdInv'
  BY <1>1, <1>7 DEF AllocFails, At, Finish
<1>8. ASSUME NEW t \in Threads, CheckRefresh(t)
       PROVE  IdInv'
  BY <1>1, <1>8, Held DEF CheckRefresh, At, Refreshed
<1>9. ASSUME NEW t \in Threads, ReadLisp(t)
       PROVE  IdInv'
  BY <1>1, <1>9, Held DEF ReadLisp, At, Record, Take, FileState
<1>10. ASSUME NEW t \in Threads, ReadTex(t)
       PROVE  IdInv'
  BY <1>1, <1>10, Held DEF ReadTex, At, Record, Take, Refreshed
<1>11. ASSUME NEW t \in Threads, FileMissing(t)
       PROVE  IdInv'
  BY <1>1, <1>11, Held DEF FileMissing, At, RefreshFails, Files
<1>12. ASSUME NEW t \in Threads, LispMalformed(t)
       PROVE  IdInv'
  BY <1>1, <1>12, Held DEF LispMalformed, At, Record, RefreshFails
<1>13. ASSUME NEW t \in Threads, RefreshAborts(t)
       PROVE  IdInv'
  BY <1>1, <1>13, Held DEF RefreshAborts, At, Files
<1>14. ASSUME NEW t \in Threads, Insert(t)
       PROVE  IdInv'
  BY <1>1, <1>14, Held DEF Insert, At, Loaded
<1>15. ASSUME NEW t \in Threads, InsertFails(t)
       PROVE  IdInv'
  BY <1>1, <1>15, Held DEF InsertFails, At
<1>16. ASSUME NEW t \in Threads, Destroy(t)
       PROVE  IdInv'
  BY <1>1, <1>16, Held DEF Destroy, At, Finish
<1>17. ASSUME NEW t \in Threads, NextPost(t)
       PROVE  IdInv'
  BY <1>1, <1>17 DEF NextPost, At
<1>18. ASSUME NEW t \in Threads, LockPost(t)
       PROVE  IdInv'
  BY <1>1, <1>18, Held DEF LockPost, At
<1>19. ASSUME NEW t \in Threads, StoreVars(t)
       PROVE  IdInv'
  BY <1>1, <1>19, Held DEF StoreVars, At
<1>20. ASSUME NEW t \in Threads, PutRef(t)
       PROVE  IdInv'
  BY <1>1, <1>20, Held DEF PutRef, At, Finish
<1>21. ASSUME EnterService
       PROVE  IdInv'
  BY <1>1, <1>21 DEF EnterService
<1>22. ASSUME StopService
       PROVE  IdInv'
  BY <1>1, <1>22 DEF StopService
<1>23. ASSUME FreeAllPosts
       PROVE  IdInv'
  BY <1>1, <1>23, Counting DEF FreeAllPosts, Indexed
<1>24. ASSUME NEW p \in PostIds, NEW f \in Files, EditFile(p, f)
       PROVE  IdInv'
  BY <1>1, <1>24 DEF EditFile
<1>25. CASE UNCHANGED vars
  BY <1>1, <1>25 DEF vars
<1>26. QED
  BY <1>2, <1>3, <1>4, <1>5, <1>6, <1>7, <1>8, <1>9, <1>10, <1>11, <1>12,
     <1>13, <1>14, <1>15, <1>16, <1>17, <1>18, <1>19, <1>20, <1>21, <1>22,
     <1>23, <1>24, <1>25 DEF Next, Run, Ended

\* PrivateInv is preserved.
LEMMA PrivateStep == IInv /\ [Next]_vars => PrivateInv'
<1> SUFFICES ASSUME IInv, [Next]_vars PROVE PrivateInv'
  OBVIOUS
<1>1. TypeOK /\ ControlInv /\ PrivateInv /\ IndexSound
  BY DEF IInv
<1> USE ConstantsAssumption DEF TypeOK, ControlInv, PrivateInv, Loading,
     Holders, Indexed, diskVars, postVars, threadVars, procVars
<1>2. ASSUME NEW t \in Threads, StartPreload(t)
       PROVE  PrivateInv'
  BY <1>1, <1>2 DEF StartPreload, At, Begin
<1>3. ASSUME NEW t \in Threads, StartGetPost(t)
       PROVE  PrivateInv'
  BY <1>1, <1>3 DEF StartGetPost, At, Begin
<1>4. ASSUME NEW t \in Threads, StartListing(t)
       PROVE  PrivateInv'
  BY <1>1, <1>4 DEF StartListing, At, Begin
<1>5. ASSUME NEW t \in Threads, Lookup(t)
       PROVE  PrivateInv'
  BY <1>1, <1>5 DEF Lookup, At, Loaded
<1>6. ASSUME NEW t \in Threads, Alloc(t)
       PROVE  PrivateInv'
  BY <1>1, <1>6, FreeUnheld DEF Alloc, At
<1>7. ASSUME NEW t \in Threads, AllocFails(t)
       PROVE  PrivateInv'
  BY <1>1, <1>7 DEF AllocFails, At, Finish
<1>8. ASSUME NEW t \in Threads, CheckRefresh(t)
       PROVE  PrivateInv'
<2>1. pc[t] = "check" /\ UNCHANGED <<cur, todo, ctx, index>> /\ cur[t] \in Objs
  BY <1>1, <1>8, Held DEF CheckRefresh, At
<2>2. PICK s \in {"tex", "lisp", "insert", "store"} :
        pc' = [pc EXCEPT ![t] = s] /\ (s = "insert" => ctx[t] = "load")
  BY <1>1, <1>8 DEF CheckRefresh, Refreshed
<2>3. QED
  BY <1>1, <2>1, <2>2
<1>9. ASSUME NEW t \in Threads, ReadLisp(t)
       PROVE  PrivateInv'
  BY <1>1, <1>9, Held DEF ReadLisp, At, Record, Take, FileState
<1>10. ASSUME NEW t \in Threads, ReadTex(t)
       PROVE  PrivateInv'
  BY <1>1, <1>10, Held DEF ReadTex, At, Record, Take, Refreshed
<1>11. ASSUME NEW t \in Threads, FileMissing(t)
       PROVE  PrivateInv'
  BY <1>1, <1>11, Held DEF FileMissing, At, RefreshFails, Files
<1>12. ASSUME NEW t \in Threads, LispMalformed(t)
       PROVE  PrivateInv'
  BY <1>1, <1>12, Held DEF LispMalformed, At, Record, RefreshFails
<1>13. ASSUME NEW t \in Threads, RefreshAborts(t)
       PROVE  PrivateInv'
  BY <1>1, <1>13, Held DEF RefreshAborts, At, Files
<1>14. ASSUME NEW t \in Threads, Insert(t)
       PROVE  PrivateInv'
<2>1. pc[t] = "insert" /\ UNCHANGED <<cur, todo, ctx>> /\ cur[t] \in Objs
  BY <1>1, <1>14, Held DEF Insert, At
<2>2. CASE UNCHANGED <<index, pc>>
  BY <1>1, <2>1, <2>2
<2>3. CASE /\ pc' = [pc EXCEPT ![t] = Loaded(t)]
           /\ index' = index \/ index' = [index EXCEPT ![postId[cur[t]]] = cur[t]]
  <3>1. Loaded(t) \in {"put", "lock"}
    BY DEF Loaded
  <3>2. \A u \in Threads : u # t /\ Loading(u) => cur[u] # cur[t]
    BY <1>1, <2>1
  <3>3. \A u \in Threads : Loading(u)' => u # t /\ Loading(u)
    BY <1>1, <2>1, <2>3, <3>1
  <3>4. \A u \in Threads : u # t /\ Loading(u) => ~Indexed(cur[u])'
    BY <1>1, <2>1, <2>3, <3>2
  <3>5. \A o : Holders(o)' = Holders(o)
    BY <2>1
  <3>6. QED
    BY <1>1, <2>1, <3>3, <3>4, <3>5
<2>4. QED
  BY <1>14, <2>2, <2>3 DEF Insert
<1>15. ASSUME NEW t \in Threads, InsertFails(t)
       PROVE  PrivateInv'
  BY <1>1, <1>15, Held DEF InsertFails, At
<1>16. ASSUME NEW t \in Threads, Destroy(t)
       PROVE  PrivateInv'
  BY <1>1, <1>16, Held DEF Destroy, At, Finish
<1>17. ASSUME NEW t \in Threads, NextPost(t)
       PROVE  PrivateInv'
  BY <1>1, <1>17 DEF NextPost, At
<1>18. ASSUME NEW t \in Threads, LockPost(t)
       PROVE  PrivateInv'
  BY <1>1, <1>18, Held DEF LockPost, At
<1>19. ASSUME NEW t \in Threads, StoreVars(t)
       PROVE  PrivateInv'
  BY <1>1, <1>19, Held DEF StoreVars, At
<1>20. ASSUME NEW t \in Threads, PutRef(t)
       PROVE  PrivateInv'
  BY <1>1, <1>20, Held DEF PutRef, At, Finish
<1>21. ASSUME EnterService
       PROVE  PrivateInv'
  BY <1>1, <1>21 DEF EnterService
<1>22. ASSUME StopService
       PROVE  PrivateInv'
  BY <1>1, <1>22 DEF StopService
<1>23. ASSUME FreeAllPosts
       PROVE  PrivateInv'
  BY <1>1, <1>23 DEF FreeAllPosts
<1>24. ASSUME NEW p \in PostIds, NEW f \in Files, EditFile(p, f)
       PROVE  PrivateInv'
  BY <1>1, <1>24 DEF EditFile
<1>25. CASE UNCHANGED vars
  BY <1>1, <1>25 DEF vars
<1>26. QED
  BY <1>2, <1>3, <1>4, <1>5, <1>6, <1>7, <1>8, <1>9, <1>10, <1>11, <1>12,
     <1>13, <1>14, <1>15, <1>16, <1>17, <1>18, <1>19, <1>20, <1>21, <1>22,
     <1>23, <1>24, <1>25 DEF Next, Run, Ended

\* IndexSound is preserved.
LEMMA IndexStep == IInv /\ [Next]_vars => IndexSound'
<1> SUFFICES ASSUME IInv, [Next]_vars PROVE IndexSound'
  OBVIOUS
<1>1. TypeOK /\ ControlInv /\ PrivateInv /\ IndexSound
  BY DEF IInv
<1> USE ConstantsAssumption DEF TypeOK, ControlInv, IndexSound, Holders,
     Indexed, diskVars, postVars, threadVars, procVars
<1>2. ASSUME NEW t \in Threads, StartPreload(t)
       PROVE  IndexSound'
  BY <1>1, <1>2 DEF StartPreload, At, Begin
<1>3. ASSUME NEW t \in Threads, StartGetPost(t)
       PROVE  IndexSound'
  BY <1>1, <1>3 DEF StartGetPost, At, Begin
<1>4. ASSUME NEW t \in Threads, StartListing(t)
       PROVE  IndexSound'
  BY <1>1, <1>4 DEF StartListing, At, Begin
<1>5. ASSUME NEW t \in Threads, Lookup(t)
       PROVE  IndexSound'
  BY <1>1, <1>5 DEF Lookup, At, Loaded
<1>6. ASSUME NEW t \in Threads, Alloc(t)
       PROVE  IndexSound'
  BY <1>1, <1>6, FreeUnheld DEF Alloc, At
<1>7. ASSUME NEW t \in Threads, AllocFails(t)
       PROVE  IndexSound'
  BY <1>1, <1>7 DEF AllocFails, At, Finish
<1>8. ASSUME NEW t \in Threads, CheckRefresh(t)
       PROVE  IndexSound'
  BY <1>1, <1>8, Held DEF CheckRefresh, At, Refreshed
<1>9. ASSUME NEW t \in Threads, ReadLisp(t)
       PROVE  IndexSound'
  BY <1>1, <1>9, Held DEF ReadLisp, At, Record, Take, FileState
<1>10. ASSUME NEW t \in Threads, ReadTex(t)
       PROVE  IndexSound'
  BY <1>1, <1>10, Held DEF ReadTex, At, Record, Take, Refreshed
<1>11. ASSUME NEW t \in Threads, FileMissing(t)
       PROVE  IndexSound'
  BY <1>1, <1>11, Held DEF FileMissing, At, RefreshFails, Files
<1>12. ASSUME NEW t \in Threads, LispMalformed(t)
       PROVE  IndexSound'
  BY <1>1, <1>12, Held DEF LispMalformed, At, Record, RefreshFails
<1>13. ASSUME NEW t \in Threads, RefreshAborts(t)
       PROVE  IndexSound'
  BY <1>1, <1>13, Held DEF RefreshAborts, At, Files
<1>14. ASSUME NEW t \in Threads, Insert(t)
       PROVE  IndexSound'
  BY <1>1, <1>14, Held DEF Insert, At, Loaded, PrivateInv, Loading
<1>15. ASSUME NEW t \in Threads, InsertFails(t)
       PROVE  IndexSound'
  BY <1>1, <1>15, Held DEF InsertFails, At
<1>16. ASSUME NEW t \in Threads, Destroy(t)
       PROVE  IndexSound'
  BY <1>1, <1>16, Held DEF Destroy, At, Finish
<1>17. ASSUME NEW t \in Threads, NextPost(t)
       PROVE  IndexSound'
  BY <1>1, <1>17 DEF NextPost, At
<1>18. ASSUME NEW t \in Threads, LockPost(t)
       PROVE  IndexSound'
  BY <1>1, <1>18, Held DEF LockPost, At
<1>19. ASSUME NEW t \in Threads, StoreVars(t)
       PROVE  IndexSound'
  BY <1>1, <1>19, Held DEF StoreVars, At
<1>20. ASSUME NEW t \in Threads, PutRef(t)
       PROVE  IndexSound'
  BY <1>1, <1>20, Held DEF PutRef, At, Finish
<1>21. ASSUME EnterService
       PROVE  IndexSound'
  BY <1>1, <1>21 DEF EnterService
<1>22. ASSUME StopService
       PROVE  IndexSound'
  BY <1>1, <1>22 DEF StopService
<1>23. ASSUME FreeAllPosts
       PROVE  IndexSound'
  BY <1>1, <1>23 DEF FreeAllPosts
<1>24. ASSUME NEW p \in PostIds, NEW f \in Files, EditFile(p, f)
       PROVE  IndexSound'
  BY <1>1, <1>24 DEF EditFile
<1>25. CASE UNCHANGED vars
  BY <1>1, <1>25 DEF vars
<1>26. QED
  BY <1>2, <1>3, <1>4, <1>5, <1>6, <1>7, <1>8, <1>9, <1>10, <1>11, <1>12,
     <1>13, <1>14, <1>15, <1>16, <1>17, <1>18, <1>19, <1>20, <1>21, <1>22,
     <1>23, <1>24, <1>25 DEF Next, Run, Ended

\* One holder more.
LEMMA AddHolder ==
  ASSUME TypeOK, RefcountExact, NEW o \in Objs, NEW t \in Threads, t \notin Holders(o)
  PROVE  Cardinality(Holders(o) \cup {t}) = Cardinality(Holders(o)) + 1
BY Counting, FS_AddElement

\* One holder less.
LEMMA RemoveHolder ==
  ASSUME TypeOK, RefcountExact, NEW o \in Objs, NEW t \in Threads, t \in Holders(o)
  PROVE  Cardinality(Holders(o) \ {t}) = Cardinality(Holders(o)) - 1
BY Counting, FS_RemoveElement

\* RefcountExact is preserved.
LEMMA CountStep == IInv /\ [Next]_vars => RefcountExact'
<1> SUFFICES ASSUME IInv, [Next]_vars PROVE RefcountExact'
  OBVIOUS
<1>1. TypeOK /\ ControlInv /\ PrivateInv /\ RefcountExact
  BY DEF IInv
<1> USE ConstantsAssumption DEF TypeOK, diskVars, postVars, threadVars,
     procVars
<1>2. ASSUME NEW t \in Threads, StartPreload(t)
       PROVE  RefcountExact'
  BY <1>1, <1>2 DEF StartPreload, RefcountExact, Holders, Indexed
<1>3. ASSUME NEW t \in Threads, StartGetPost(t)
       PROVE  RefcountExact'
  BY <1>1, <1>3 DEF StartGetPost, RefcountExact, Holders, Indexed
<1>4. ASSUME NEW t \in Threads, StartListing(t)
       PROVE  RefcountExact'
<2>1. PICK S \in SUBSET {o \in Objs : Indexed(o) /\ listed[o]} :
        /\ todo' = [todo EXCEPT ![t] = S]
        /\ refcnt' = [o \in Objs |-> IF o \in S THEN refcnt[o] + 1 ELSE refcnt[o]]
  BY <1>4 DEF StartListing
<2>2. pc[t] = "idle" /\ cur[t] = NoObj /\ todo[t] = {} /\ UNCHANGED <<cur,
     index>>
  BY <1>1, <1>4 DEF StartListing, At, ControlInv
<2>3. SUFFICES ASSUME NEW o \in Objs
               PROVE  refcnt'[o] = Cardinality(Holders(o)') + (IF Indexed(o)' THEN 1 ELSE 0)
  BY DEF RefcountExact
<2>4. Indexed(o)' = Indexed(o)
  BY <2>2 DEF Indexed
<2>5. CASE o \in S
  <3>1. t \notin Holders(o) /\ Holders(o)' = Holders(o) \cup {t}
    BY <1>1, <2>1, <2>2, <2>5 DEF Holders
  <3>2. QED
    BY <1>1, <2>1, <2>4, <2>5, <3>1, AddHolder, Counting DEF RefcountExact
<2>6. CASE o \notin S
  <3>1. Holders(o)' = Holders(o)
    BY <1>1, <2>1, <2>2, <2>6 DEF Holders
  <3>2. QED
    BY <1>1, <2>1, <2>4, <2>6, <3>1 DEF RefcountExact
<2>7. QED
  BY <2>5, <2>6
<1>5. ASSUME NEW t \in Threads, Lookup(t)
       PROVE  RefcountExact'
<2>1. /\ want[t] \in PostIds /\ UNCHANGED <<todo, index>>
      /\ cur[t] = NoObj /\ todo[t] = {}
  BY <1>1, <1>5 DEF Lookup, At, ControlInv
<2>2. CASE index[want[t]] # NoObj
  <3> DEFINE i == index[want[t]]
  <3>1. cur' = [cur EXCEPT ![t] = i] /\ refcnt' = [refcnt EXCEPT ![i] = @ + 1] /\ i \in Objs
    BY <1>1, <1>5, <2>1, <2>2 DEF Lookup
  <3>2. SUFFICES ASSUME NEW o \in Objs
                 PROVE  refcnt'[o] = Cardinality(Holders(o)') + (IF Indexed(o)' THEN 1 ELSE 0)
    BY DEF RefcountExact
  <3>3. Indexed(o)' = Indexed(o)
    BY <2>1 DEF Indexed
  <3>4. CASE o = i
    <4>1. t \notin Holders(o) /\ Holders(o)' = Holders(o) \cup {t}
      BY <1>1, <2>1, <3>1, <3>4 DEF Holders
    <4>2. Cardinality(Holders(o)') = Cardinality(Holders(o)) + 1
      BY <1>1, <4>1, AddHolder
    <4>3. refcnt'[o] = refcnt[o] + 1
      BY <1>1, <3>1, <3>4
    <4>4. QED
      BY <1>1, <3>3, <4>2, <4>3, Counting DEF RefcountExact
  <3>5. CASE o # i
    <4>1. Holders(o)' = Holders(o)
      BY <1>1, <2>1, <3>1, <3>5 DEF Holders
    <4>2. QED
      BY <1>1, <3>1, <3>3, <3>5, <4>1 DEF RefcountExact
  <3>6. QED
    BY <3>4, <3>5
<2>3. CASE index[want[t]] = NoObj
  BY <1>1, <1>5, <2>3 DEF Lookup, RefcountExact, Holders, Indexed
<2>4. QED
  BY <2>2, <2>3
<1>6. ASSUME NEW t \in Threads, Alloc(t)
       PROVE  RefcountExact'
<2>1. PICK i \in Objs : /\ refcnt[i] = 0
                         /\ refcnt' = [refcnt EXCEPT ![i] = 1]
                         /\ cur' = [cur EXCEPT ![t] = i]
  BY <1>6 DEF Alloc
<2>2. cur[t] = NoObj /\ todo[t] = {} /\ UNCHANGED <<todo, index>>
  BY <1>1, <1>6 DEF Alloc, At, ControlInv
<2>3. SUFFICES ASSUME NEW o \in Objs
               PROVE  refcnt'[o] = Cardinality(Holders(o)') + (IF Indexed(o)' THEN 1 ELSE 0)
  BY DEF RefcountExact
<2>4. Indexed(o)' = Indexed(o)
  BY <2>2 DEF Indexed
<2>5. CASE o = i
  <3>1. Holders(o) = {} /\ ~Indexed(o)
    BY <2>1, <2>5, FreeUnheld
  <3>2. Holders(o)' = {t}
    BY <1>1, <2>1, <2>2, <2>5, <3>1 DEF Holders
  <3>3. Cardinality(Holders(o)') = 1
    BY <3>2, FS_Singleton
  <3>4. QED
    BY <1>1, <2>1, <2>4, <2>5, <3>1, <3>3
<2>6. CASE o # i
  <3>1. Holders(o)' = Holders(o)
    BY <1>1, <2>1, <2>2, <2>6 DEF Holders
  <3>2. QED
    BY <1>1, <2>1, <2>4, <2>6, <3>1 DEF RefcountExact
<2>7. QED
  BY <2>5, <2>6
<1>7. ASSUME NEW t \in Threads, AllocFails(t)
       PROVE  RefcountExact'
  BY <1>1, <1>7 DEF AllocFails, RefcountExact, Holders, Indexed
<1>8. ASSUME NEW t \in Threads, CheckRefresh(t)
       PROVE  RefcountExact'
  BY <1>1, <1>8 DEF CheckRefresh, RefcountExact, Holders, Indexed
<1>9. ASSUME NEW t \in Threads, ReadLisp(t)
       PROVE  RefcountExact'
<2>1. UNCHANGED <<refcnt, index, cur, todo>>
  BY <1>9 DEF ReadLisp
<2>2. QED
  BY <1>1, <2>1 DEF RefcountExact, Holders, Indexed
<1>10. ASSUME NEW t \in Threads, ReadTex(t)
       PROVE  RefcountExact'
  BY <1>1, <1>10 DEF ReadTex, RefcountExact, Holders, Indexed
<1>11. ASSUME NEW t \in Threads, FileMissing(t)
       PROVE  RefcountExact'
  BY <1>1, <1>11 DEF FileMissing, RefcountExact, Holders, Indexed
<1>12. ASSUME NEW t \in Threads, LispMalformed(t)
       PROVE  RefcountExact'
  BY <1>1, <1>12 DEF LispMalformed, RefcountExact, Holders, Indexed
<1>13. ASSUME NEW t \in Threads, RefreshAborts(t)
       PROVE  RefcountExact'
  BY <1>1, <1>13 DEF RefreshAborts, RefcountExact, Holders, Indexed
<1>14. ASSUME NEW t \in Threads, Insert(t)
       PROVE  RefcountExact'
<2>1. UNCHANGED <<cur, todo>> /\ cur[t] \in Objs /\ postId[cur[t]] \in PostIds
  BY <1>14, Held DEF Insert, At
<2>2. \A o : Holders(o)' = Holders(o)
  BY <2>1 DEF Holders
<2>3. CASE UNCHANGED <<index, refcnt>>
  BY <1>1, <2>2, <2>3 DEF RefcountExact, Indexed
<2>4. CASE /\ index[postId[cur[t]]] = NoObj
           /\ index' = [index EXCEPT ![postId[cur[t]]] = cur[t]]
           /\ refcnt' = [refcnt EXCEPT ![cur[t]] = @ + 1]
  <3>1. ~Indexed(cur[t])
    BY <1>1, <1>14 DEF Insert, At, PrivateInv, Loading
  <3>2. SUFFICES ASSUME NEW o \in Objs
                 PROVE  refcnt'[o] = Cardinality(Holders(o)) + (IF Indexed(o)' THEN 1 ELSE 0)
    BY <2>2 DEF RefcountExact
  <3>3. CASE o = cur[t]
    <4>1. Indexed(o)' /\ ~Indexed(o)
      BY <1>1, <2>1, <2>4, <3>1, <3>3 DEF Indexed
    <4>2. QED
      BY <1>1, <2>4, <3>3, <4>1, Counting DEF RefcountExact
  <3>4. CASE o # cur[t]
    <4>1. Indexed(o)' = Indexed(o)
      BY <1>1, <2>1, <2>4, <3>4 DEF Indexed
    <4>2. QED
      BY <1>1, <2>4, <3>4, <4>1 DEF RefcountExact
  <3>5. QED
    BY <3>3, <3>4
<2>5. QED
  BY <1>14, <2>3, <2>4 DEF Insert
<1>15. ASSUME NEW t \in Threads, InsertFails(t)
       PROVE  RefcountExact'
  BY <1>1, <1>15 DEF InsertFails, RefcountExact, Holders, Indexed
<1>16. ASSUME NEW t \in Threads, Destroy(t)
       PROVE  RefcountExact'
<2>1. /\ cur[t] \in Objs
      /\ UNCHANGED <<todo, index>>
      /\ cur' = [cur EXCEPT ![t] = NoObj]
      /\ refcnt' = [refcnt EXCEPT ![cur[t]] = 0]
  BY <1>16, Held DEF Destroy, At
<2>2. Holders(cur[t]) = {t} /\ ~Indexed(cur[t]) /\ todo[t] = {}
  BY <1>1, <1>16 DEF Destroy, At, PrivateInv, ControlInv, Loading
<2>3. SUFFICES ASSUME NEW o \in Objs
               PROVE  refcnt'[o] = Cardinality(Holders(o)') + (IF Indexed(o)' THEN 1 ELSE 0)
  BY DEF RefcountExact
<2>4. Indexed(o)' = Indexed(o)
  BY <2>1 DEF Indexed
<2>5. CASE o = cur[t]
  <3>1. Holders(o)' = {}
    BY <1>1, <2>1, <2>2, <2>5 DEF Holders
  <3>2. QED
    BY <1>1, <2>1, <2>2, <2>4, <2>5, <3>1, FS_EmptySet
<2>6. CASE o # cur[t]
  <3>1. Holders(o)' = Holders(o)
    BY <1>1, <2>1, <2>6 DEF Holders
  <3>2. QED
    BY <1>1, <2>1, <2>4, <2>6, <3>1 DEF RefcountExact
<2>7. QED
  BY <2>5, <2>6
<1>17. ASSUME NEW t \in Threads, NextPost(t)
       PROVE  RefcountExact'
<2>1. PICK i \in todo[t] : /\ cur' = [cur EXCEPT ![t] = i]
                            /\ todo' = [todo EXCEPT ![t] = @ \ {i}]
  BY <1>17 DEF NextPost
<2>2. cur[t] = NoObj /\ UNCHANGED <<refcnt, index>>
  BY <1>1, <1>17 DEF NextPost, At, ControlInv
<2>3. \A o \in Objs : Holders(o)' = Holders(o)
  BY <1>1, <2>1, <2>2 DEF Holders
<2>4. QED
  BY <1>1, <2>2, <2>3 DEF RefcountExact, Indexed
<1>18. ASSUME NEW t \in Threads, LockPost(t)
       PROVE  RefcountExact'
<2>1. UNCHANGED <<refcnt, cur, todo, index>>
  BY <1>18 DEF LockPost
<2>2. QED
  BY <1>1, <2>1 DEF RefcountExact, Holders, Indexed
<1>19. ASSUME NEW t \in Threads, StoreVars(t)
       PROVE  RefcountExact'
  BY <1>1, <1>19 DEF StoreVars, RefcountExact, Holders, Indexed
<1>20. ASSUME NEW t \in Threads, PutRef(t)
       PROVE  RefcountExact'
<2>1. /\ cur[t] \in Objs
      /\ UNCHANGED <<todo, index>>
      /\ cur' = [cur EXCEPT ![t] = NoObj]
      /\ refcnt' = [refcnt EXCEPT ![cur[t]] = @ - 1]
  BY <1>20, Held DEF PutRef, At
<2>2. cur[t] \notin todo[t] /\ t \in Holders(cur[t])
  BY <1>1, <2>1 DEF ControlInv, Holders
<2>3. SUFFICES ASSUME NEW o \in Objs
               PROVE  refcnt'[o] = Cardinality(Holders(o)') + (IF Indexed(o)' THEN 1 ELSE 0)
  BY DEF RefcountExact
<2>4. Indexed(o)' = Indexed(o)
  BY <2>1 DEF Indexed
<2>5. CASE o = cur[t]
  <3>1. Holders(o)' = Holders(o) \ {t}
    BY <1>1, <2>1, <2>2, <2>5 DEF Holders
  <3>2. Cardinality(Holders(o)') = Cardinality(Holders(o)) - 1
    BY <1>1, <2>2, <2>5, <3>1, RemoveHolder
  <3>3. refcnt'[o] = refcnt[o] - 1
    BY <1>1, <2>1, <2>5
  <3>4. QED
    BY <1>1, <2>4, <3>2, <3>3, Counting DEF RefcountExact
<2>6. CASE o # cur[t]
  <3>1. Holders(o)' = Holders(o)
    BY <1>1, <2>1, <2>6 DEF Holders
  <3>2. QED
    BY <1>1, <2>1, <2>4, <2>6, <3>1 DEF RefcountExact
<2>7. QED
  BY <2>5, <2>6
<1>21. ASSUME EnterService
       PROVE  RefcountExact'
  BY <1>1, <1>21 DEF EnterService, RefcountExact, Holders, Indexed
<1>22. ASSUME StopService
       PROVE  RefcountExact'
  BY <1>1, <1>22 DEF StopService, RefcountExact, Holders, Indexed
<1>23. ASSUME FreeAllPosts
       PROVE  RefcountExact'
<2>1. \A o \in Objs : Holders(o) = {} /\ Holders(o)' = {}
  BY <1>1, <1>23 DEF FreeAllPosts, AllIdle, Holders, ControlInv
<2>2. \A o \in Objs : ~Indexed(o)'
  BY <1>23, ConstantsAssumption DEF FreeAllPosts, Indexed
<2>3. \A o \in Objs : Cardinality(Holders(o)) = 0 /\ Cardinality(Holders(o)') = 0
  BY <2>1, FS_EmptySet
<2>4. \A o \in Objs : refcnt'[o] = 0
  BY <1>1, <1>23, <2>3 DEF FreeAllPosts, RefcountExact
<2>5. QED
  BY <2>2, <2>3, <2>4 DEF RefcountExact
<1>24. ASSUME NEW p \in PostIds, NEW f \in Files, EditFile(p, f)
       PROVE  RefcountExact'
  BY <1>1, <1>24 DEF EditFile, RefcountExact, Holders, Indexed
<1>25. CASE UNCHANGED vars
  BY <1>1, <1>25 DEF vars, RefcountExact, Holders, Indexed
<1>26. QED
  BY <1>2, <1>3, <1>4, <1>5, <1>6, <1>7, <1>8, <1>9, <1>10, <1>11, <1>12,
     <1>13, <1>14, <1>15, <1>16, <1>17, <1>18, <1>19, <1>20, <1>21, <1>22,
     <1>23, <1>24, <1>25 DEF Next, Run, Ended

\* A step that changes no post's data preserves DataInv when every rebuild
\* under way stays under way, or its post is freed.
LEMMA DataFrame ==
  ASSUME TypeOK, DataInv, UNCHANGED <<files, content, preview>>,
         \A o \in Objs : refcnt'[o] > 0 => refcnt[o] > 0,
         \A u \in Threads :
           Partial(u) => refcnt'[cur[u]] = 0 \/ (Partial(u)' /\ cur'[u] = cur[u]),
         \A u \in Threads :
           Partial(u)' /\ pc'[u] # "destroy"
             => pc'[u] = pc[u] /\ ctx'[u] = ctx[u] /\ cur'[u] = cur[u]
  PROVE  DataInv'
<1>1. \A o : Complete(o)' = Complete(o)
  BY DEF Complete, Sources
<1>2. ASSUME NEW o \in Objs, refcnt'[o] > 0
      PROVE  Complete(o)' \/ \E t \in Threads : cur'[t] = o /\ Partial(t)'
  <2>1. Complete(o) \/ \E t \in Threads : cur[t] = o /\ Partial(t)
    BY <1>2 DEF DataInv
  <2>2. ASSUME NEW t \in Threads, cur[t] = o, Partial(t)
        PROVE  cur'[t] = o /\ Partial(t)'
    BY <1>2, <2>2
  <2>3. QED
    BY <1>1, <2>1, <2>2
<1>3. ASSUME NEW t \in Threads
      PROVE  /\ pc'[t] = "check" /\ ctx'[t] = "load" => files'[cur'[t]] = NoFiles
             /\ pc'[t] = "lisp" => ~preview'[cur'[t]]
             /\ pc'[t] = "tex" /\ ~preview'[cur'[t]] =>
                  /\ files'[cur'[t]]["lisp"] # 0
                  /\ content'[cur'[t]]["lisp"] = files'[cur'[t]]["lisp"]
  BY DEF Partial, DataInv
<1>4. QED
  BY <1>2, <1>3 DEF DataInv

\* A step that changes no post's data preserves FreshInv when it brings no
\* thread to "tex" or "store".
LEMMA FreshFrame ==
  ASSUME TypeOK, FreshInv, UNCHANGED <<content, preview, postId>>,
         \A u \in Threads, p \in PostIds, f \in Files : start'[u][p][f] <= rev'[p][f],
         \A u \in Threads :
           pc'[u] \in {"tex", "store"}
             => pc'[u] = pc[u] /\ cur'[u] = cur[u] /\ start'[u] = start[u]
  PROVE  FreshInv'
<1>1. \A o : Sources(o)' = Sources(o)
  BY DEF Sources
<1>2. ASSUME NEW t \in Threads
      PROVE  /\ pc'[t] = "tex" /\ ~preview'[cur'[t]] =>
                  content'[cur'[t]]["lisp"] >= start'[t][postId'[cur'[t]]]["lisp"]
             /\ pc'[t] = "store" =>
                  \A f \in Sources(cur[t])' :
                     content'[cur'[t]][f] >= start'[t][postId'[cur'[t]]][f]
  BY <1>1 DEF FreshInv
<1>3. QED
  BY <1>2 DEF FreshInv

\* DataInv is preserved.
LEMMA DataStep == IInv /\ [Next]_vars => DataInv'
<1> SUFFICES ASSUME IInv, [Next]_vars PROVE DataInv'
  OBVIOUS
<1>1. TypeOK /\ ControlInv /\ LockInv /\ PrivateInv /\ DataInv /\ RefcountExact
  BY DEF IInv
<1> USE ConstantsAssumption DEF TypeOK, diskVars, postVars, threadVars,
     procVars
<1>2. ASSUME NEW t \in Threads, StartPreload(t)
       PROVE  DataInv'
<2>1. UNCHANGED <<files, content, preview>>
  BY <1>2 DEF StartPreload
<2>2. \A o \in Objs : refcnt'[o] > 0 => refcnt[o] > 0
  BY <1>1, <1>2 DEF StartPreload
<2>3. \A u \in Threads :
        Partial(u) => refcnt'[cur[u]] = 0 \/ (Partial(u)' /\ cur'[u] = cur[u])
  BY <1>1, <1>2, Held DEF StartPreload, At, Begin, Partial, ControlInv
<2>4. \A u \in Threads :
        Partial(u)' /\ pc'[u] # "destroy"
          => pc'[u] = pc[u] /\ ctx'[u] = ctx[u] /\ cur'[u] = cur[u]
  BY <1>1, <1>2, Held DEF StartPreload, At, Begin, Partial, ControlInv
<2>5. QED
  BY <1>1, <2>1, <2>2, <2>3, <2>4, DataFrame
<1>3. ASSUME NEW t \in Threads, StartGetPost(t)
       PROVE  DataInv'
<2>1. UNCHANGED <<files, content, preview>>
  BY <1>3 DEF StartGetPost
<2>2. \A o \in Objs : refcnt'[o] > 0 => refcnt[o] > 0
  BY <1>1, <1>3 DEF StartGetPost
<2>3. \A u \in Threads :
        Partial(u) => refcnt'[cur[u]] = 0 \/ (Partial(u)' /\ cur'[u] = cur[u])
  BY <1>1, <1>3, Held DEF StartGetPost, At, Begin, Partial, ControlInv
<2>4. \A u \in Threads :
        Partial(u)' /\ pc'[u] # "destroy"
          => pc'[u] = pc[u] /\ ctx'[u] = ctx[u] /\ cur'[u] = cur[u]
  BY <1>1, <1>3, Held DEF StartGetPost, At, Begin, Partial, ControlInv
<2>5. QED
  BY <1>1, <2>1, <2>2, <2>3, <2>4, DataFrame
<1>4. ASSUME NEW t \in Threads, StartListing(t)
       PROVE  DataInv'
<2>1. UNCHANGED <<files, content, preview>>
  BY <1>4 DEF StartListing
<2>2. \A o \in Objs : refcnt'[o] > 0 => refcnt[o] > 0
  BY <1>1, <1>4, Counting DEF StartListing, Indexed
<2>3. \A u \in Threads :
        Partial(u) => refcnt'[cur[u]] = 0 \/ (Partial(u)' /\ cur'[u] = cur[u])
  BY <1>1, <1>4, Held DEF StartListing, At, Begin, Indexed, Partial, ControlInv
<2>4. \A u \in Threads :
        Partial(u)' /\ pc'[u] # "destroy"
          => pc'[u] = pc[u] /\ ctx'[u] = ctx[u] /\ cur'[u] = cur[u]
  BY <1>1, <1>4, Held DEF StartListing, At, Begin, Indexed, Partial, ControlInv
<2>5. QED
  BY <1>1, <2>1, <2>2, <2>3, <2>4, DataFrame
<1>5. ASSUME NEW t \in Threads, Lookup(t)
       PROVE  DataInv'
<2>1. UNCHANGED <<files, content, preview>>
  BY <1>5 DEF Lookup
<2>2. \A o \in Objs : refcnt'[o] > 0 => refcnt[o] > 0
  BY <1>1, <1>5, Counting DEF Lookup, At, ControlInv, Indexed
<2>3. \A u \in Threads :
        Partial(u) => refcnt'[cur[u]] = 0 \/ (Partial(u)' /\ cur'[u] = cur[u])
  BY <1>1, <1>5, Held DEF Lookup, At, Loaded, Partial, ControlInv
<2>4. \A u \in Threads :
        Partial(u)' /\ pc'[u] # "destroy"
          => pc'[u] = pc[u] /\ ctx'[u] = ctx[u] /\ cur'[u] = cur[u]
  BY <1>1, <1>5, Held DEF Lookup, At, Loaded, Partial, ControlInv
<2>5. QED
  BY <1>1, <2>1, <2>2, <2>3, <2>4, DataFrame
<1>6. ASSUME NEW t \in Threads, Alloc(t)
       PROVE  DataInv'
<2>1. PICK i \in Objs : /\ refcnt[i] = 0
                         /\ refcnt' = [refcnt EXCEPT ![i] = 1]
                         /\ files' = [files EXCEPT ![i] = NoFiles]
                         /\ content' = [content EXCEPT ![i] = NoFiles]
                         /\ preview' = [preview EXCEPT ![i] = (kind[t] = "preview")]
                         /\ cur' = [cur EXCEPT ![t] = i]
  BY <1>6 DEF Alloc
<2>2. /\ pc[t] = "alloc" /\ pc' = [pc EXCEPT ![t] = "check"]
      /\ ctx' = [ctx EXCEPT ![t] = "load"]
  BY <1>6 DEF Alloc, At
<2>3. \A u \in Threads : cur[u] # i
  BY <2>1, FreeUnheld DEF Holders
<2>4. \A u \in Threads \ {t} : cur'[u] = cur[u] /\ pc'[u] = pc[u] /\ ctx'[u] = ctx[u]
  BY <1>1, <2>1, <2>2
<2>5. cur'[t] = i /\ pc'[t] = "check" /\ ctx'[t] = "load" /\ files'[i] = NoFiles
  BY <1>1, <2>1, <2>2
<2>6. \A o \in Objs \ {i} : /\ files'[o] = files[o] /\ content'[o] = content[o]
                            /\ preview'[o] = preview[o] /\ refcnt'[o] = refcnt[o]
  BY <1>1, <2>1
<2>7. ASSUME NEW o \in Objs, refcnt'[o] > 0
      PROVE  Complete(o)' \/ \E u \in Threads : cur'[u] = o /\ Partial(u)'
  <3>1. CASE o = i
    BY <2>5, <3>1 DEF Partial
  <3>2. CASE o # i
    <4>1. Complete(o)' = Complete(o)
      BY <2>6, <3>2 DEF Complete, Sources
    <4>2. \A u \in Threads : cur[u] = o /\ Partial(u) => cur'[u] = o /\ Partial(u)'
      BY <2>2, <2>4 DEF Partial
    <4>3. QED
      BY <1>1, <2>6, <2>7, <3>2, <4>1, <4>2 DEF DataInv
  <3>3. QED
    BY <3>1, <3>2
<2>8. ASSUME NEW u \in Threads
      PROVE  /\ pc'[u] = "check" /\ ctx'[u] = "load" => files'[cur'[u]] = NoFiles
             /\ pc'[u] = "lisp" => ~preview'[cur'[u]]
             /\ pc'[u] = "tex" /\ ~preview'[cur'[u]] =>
                  /\ files'[cur'[u]]["lisp"] # 0
                  /\ content'[cur'[u]]["lisp"] = files'[cur'[u]]["lisp"]
  <3>1. CASE u = t
    BY <2>5, <3>1
  <3>2. CASE u # t /\ pc[u] \in {"check", "lisp", "tex"}
    <4>1. cur[u] \in Objs \ {i}
      BY <2>3, <3>2, Held
    <4>2. QED
      BY <1>1, <2>4, <2>6, <3>2, <4>1 DEF DataInv
  <3>3. CASE u # t /\ pc[u] \notin {"check", "lisp", "tex"}
    BY <2>4, <3>3
  <3>4. QED
    BY <3>1, <3>2, <3>3
<2>9. QED
  BY <2>7, <2>8 DEF DataInv
<1>7. ASSUME NEW t \in Threads, AllocFails(t)
       PROVE  DataInv'
<2>1. UNCHANGED <<files, content, preview>>
  BY <1>7 DEF AllocFails
<2>2. \A o \in Objs : refcnt'[o] > 0 => refcnt[o] > 0
  BY <1>1, <1>7 DEF AllocFails
<2>3. \A u \in Threads :
        Partial(u) => refcnt'[cur[u]] = 0 \/ (Partial(u)' /\ cur'[u] = cur[u])
  BY <1>1, <1>7, Held DEF AllocFails, At, Finish, Partial, ControlInv
<2>4. \A u \in Threads :
        Partial(u)' /\ pc'[u] # "destroy"
          => pc'[u] = pc[u] /\ ctx'[u] = ctx[u] /\ cur'[u] = cur[u]
  BY <1>1, <1>7, Held DEF AllocFails, At, Finish, Partial, ControlInv
<2>5. QED
  BY <1>1, <2>1, <2>2, <2>3, <2>4, DataFrame
<1>8. ASSUME NEW t \in Threads, CheckRefresh(t)
       PROVE  DataInv'
<2> DEFINE o == cur[t]
<2>1. /\ o \in Objs /\ pc[t] = "check"
      /\ UNCHANGED <<refcnt, preview, cur, ctx>>
  BY <1>8, Held DEF CheckRefresh, At
<2>2. \A u \in Threads \ {t} : cur[u] = o => pc[u] \notin {"check", "lisp", "tex", "insert", "destroy", "store"}
  BY <1>1, <1>8, <2>1, Alone DEF Loading, Locking, TypeOK
<2>3. \A q \in Objs \ {o} : files'[q] = files[q] /\ content'[q] = content[q]
  BY <1>1, <1>8 DEF CheckRefresh
<2>4. \A u \in Threads \ {t} : pc'[u] = pc[u]
  BY <1>1, <1>8 DEF CheckRefresh
<2>5. /\ Complete(o)' \/ pc'[t] \in {"lisp", "tex", "destroy"} \/ (pc'[t] = "check" /\ ctx[t] = "load")
      /\ pc'[t] = "check" /\ ctx[t] = "load" => files'[o] = NoFiles
      /\ pc'[t] = "lisp" => ~preview[o]
      /\ pc'[t] = "tex" /\ ~preview[o] =>
           files'[o]["lisp"] # 0 /\ content'[o]["lisp"] = files'[o]["lisp"]
  <3>1. CASE MustRefresh(o)
    <4>1. pc'[t] = IF preview[o] THEN "tex" ELSE "lisp"
      BY <1>1, <1>8, <3>1 DEF CheckRefresh
    <4>2. QED
      BY <4>1
  <3>2. CASE ~MustRefresh(o)
    <4>1. ctx[t] = "serve"
      BY <1>1, <2>1, <3>2 DEF MustRefresh, DataInv
    <4>2. pc'[t] = "store" /\ UNCHANGED <<files, content, preview>>
      BY <1>1, <1>8, <3>2, <4>1 DEF CheckRefresh, Refreshed
    <4>3. Complete(o)
      <5>1. \A u \in Threads : cur[u] = o => ~Partial(u)
        BY <2>1, <2>2, <4>1 DEF Partial
      <5>2. refcnt[o] > 0
        BY <1>8, Held DEF CheckRefresh, At
      <5>3. QED
        BY <1>1, <2>1, <5>1, <5>2 DEF DataInv
    <4>4. Complete(o)'
      BY <2>1, <4>2, <4>3 DEF Complete, Sources
    <4>5. QED
      BY <4>2, <4>4
  <3>3. QED
    BY <3>1, <3>2
<2>6. ASSUME NEW q \in Objs, refcnt'[q] > 0
      PROVE  Complete(q)' \/ \E u \in Threads : cur'[u] = q /\ Partial(u)'
  <3>1. CASE q = o
    BY <2>1, <2>5, <3>1 DEF Partial
  <3>2. CASE q # o
    <4>1. Complete(q)' = Complete(q)
      BY <2>1, <2>3, <3>2 DEF Complete, Sources
    <4>2. \A u \in Threads : cur[u] = q /\ Partial(u) => cur'[u] = q /\ Partial(u)'
      BY <2>1, <2>4, <3>2 DEF Partial
    <4>3. QED
      BY <1>1, <2>1, <2>6, <4>1, <4>2 DEF DataInv
  <3>3. QED
    BY <3>1, <3>2
<2>7. ASSUME NEW u \in Threads
      PROVE  /\ pc'[u] = "check" /\ ctx'[u] = "load" => files'[cur'[u]] = NoFiles
             /\ pc'[u] = "lisp" => ~preview'[cur'[u]]
             /\ pc'[u] = "tex" /\ ~preview'[cur'[u]] =>
                  /\ files'[cur'[u]]["lisp"] # 0
                  /\ content'[cur'[u]]["lisp"] = files'[cur'[u]]["lisp"]
  <3>1. CASE u = t
    BY <2>1, <2>5, <3>1
  <3>2. CASE u # t /\ pc[u] \in {"check", "lisp", "tex"}
    <4>1. cur[u] \in Objs \ {o}
      BY <2>2, <3>2, Held
    <4>2. QED
      BY <1>1, <2>1, <2>3, <2>4, <3>2, <4>1 DEF DataInv
  <3>3. CASE u # t /\ pc[u] \notin {"check", "lisp", "tex"}
    BY <2>4, <3>3
  <3>4. QED
    BY <3>1, <3>2, <3>3
<2>8. QED
  BY <2>6, <2>7 DEF DataInv
<1>9. ASSUME NEW t \in Threads, ReadLisp(t)
       PROVE  DataInv'
<2> DEFINE o == cur[t]
<2>1. /\ o \in Objs /\ pc[t] = "lisp"
      /\ UNCHANGED <<refcnt, preview, cur, ctx>>
  BY <1>9, Held DEF ReadLisp, At
<2>2. \A u \in Threads \ {t} : cur[u] = o => pc[u] \notin {"check", "lisp", "tex", "insert", "destroy", "store"}
  BY <1>1, <1>9, <2>1, Alone DEF Loading, Locking, TypeOK
<2>3. \A q \in Objs \ {o} : files'[q] = files[q] /\ content'[q] = content[q]
  BY <1>1, <1>9 DEF ReadLisp, Record, Take
<2>4. \A u \in Threads \ {t} : pc'[u] = pc[u]
  BY <1>1, <1>9 DEF ReadLisp
<2>5. /\ Complete(o)' \/ pc'[t] \in {"lisp", "tex", "destroy"} \/ (pc'[t] = "check" /\ ctx[t] = "load")
      /\ pc'[t] = "check" /\ ctx[t] = "load" => files'[o] = NoFiles
      /\ pc'[t] = "lisp" => ~preview[o]
      /\ pc'[t] = "tex" /\ ~preview[o] =>
           files'[o]["lisp"] # 0 /\ content'[o]["lisp"] = files'[o]["lisp"]
  <3>1. rev[postId[o]]["lisp"] \in 1..MaxRev /\ "lisp" \in Files
    BY <1>1, <1>9, <2>1, Held, RevTypes DEF ReadLisp, At, Files
  <3>2. /\ files'[o] = [files[o] EXCEPT !["lisp"] = rev[postId[o]]["lisp"]]
        /\ content'[o] = [content[o] EXCEPT !["lisp"] = rev[postId[o]]["lisp"]]
    BY <1>1, <1>9, <2>1 DEF ReadLisp, Record, Take
  <3>3. files'[o]["lisp"] = content'[o]["lisp"] /\ files'[o]["lisp"] # 0
    BY <1>1, <2>1, <3>1, <3>2, ConstantsAssumption DEF TypeOK, Revs
  <3>4. pc'[t] = "tex"
    BY <1>1, <1>9 DEF ReadLisp
  <3>5. QED
    BY <3>3, <3>4
<2>6. ASSUME NEW q \in Objs, refcnt'[q] > 0
      PROVE  Complete(q)' \/ \E u \in Threads : cur'[u] = q /\ Partial(u)'
  <3>1. CASE q = o
    BY <2>1, <2>5, <3>1 DEF Partial
  <3>2. CASE q # o
    <4>1. Complete(q)' = Complete(q)
      BY <2>1, <2>3, <3>2 DEF Complete, Sources
    <4>2. \A u \in Threads : cur[u] = q /\ Partial(u) => cur'[u] = q /\ Partial(u)'
      BY <2>1, <2>4, <3>2 DEF Partial
    <4>3. QED
      BY <1>1, <2>1, <2>6, <4>1, <4>2 DEF DataInv
  <3>3. QED
    BY <3>1, <3>2
<2>7. ASSUME NEW u \in Threads
      PROVE  /\ pc'[u] = "check" /\ ctx'[u] = "load" => files'[cur'[u]] = NoFiles
             /\ pc'[u] = "lisp" => ~preview'[cur'[u]]
             /\ pc'[u] = "tex" /\ ~preview'[cur'[u]] =>
                  /\ files'[cur'[u]]["lisp"] # 0
                  /\ content'[cur'[u]]["lisp"] = files'[cur'[u]]["lisp"]
  <3>1. CASE u = t
    BY <2>1, <2>5, <3>1
  <3>2. CASE u # t /\ pc[u] \in {"check", "lisp", "tex"}
    <4>1. cur[u] \in Objs \ {o}
      BY <2>2, <3>2, Held
    <4>2. QED
      BY <1>1, <2>1, <2>3, <2>4, <3>2, <4>1 DEF DataInv
  <3>3. CASE u # t /\ pc[u] \notin {"check", "lisp", "tex"}
    BY <2>4, <3>3
  <3>4. QED
    BY <3>1, <3>2, <3>3
<2>8. QED
  BY <2>6, <2>7 DEF DataInv
<1>10. ASSUME NEW t \in Threads, ReadTex(t)
       PROVE  DataInv'
<2> DEFINE o == cur[t]
<2>1. /\ o \in Objs /\ pc[t] = "tex"
      /\ UNCHANGED <<refcnt, preview, cur, ctx>>
  BY <1>10, Held DEF ReadTex, At
<2>2. \A u \in Threads \ {t} : cur[u] = o => pc[u] \notin {"check", "lisp", "tex", "insert", "destroy", "store"}
  BY <1>1, <1>10, <2>1, Alone DEF Loading, Locking, TypeOK
<2>3. \A q \in Objs \ {o} : files'[q] = files[q] /\ content'[q] = content[q]
  BY <1>1, <1>10 DEF ReadTex, Record, Take
<2>4. \A u \in Threads \ {t} : pc'[u] = pc[u]
  BY <1>1, <1>10 DEF ReadTex
<2>5. /\ Complete(o)' \/ pc'[t] \in {"lisp", "tex", "destroy"} \/ (pc'[t] = "check" /\ ctx[t] = "load")
      /\ pc'[t] = "check" /\ ctx[t] = "load" => files'[o] = NoFiles
      /\ pc'[t] = "lisp" => ~preview[o]
      /\ pc'[t] = "tex" /\ ~preview[o] =>
           files'[o]["lisp"] # 0 /\ content'[o]["lisp"] = files'[o]["lisp"]
  <3>1. rev[postId[o]]["tex"] \in 1..MaxRev /\ "tex" \in Files
    BY <1>1, <1>10, <2>1, Held, RevTypes DEF ReadTex, At, Files
  <3>2. /\ files'[o] = [files[o] EXCEPT !["tex"] = rev[postId[o]]["tex"]]
        /\ content'[o] = [content[o] EXCEPT !["tex"] = rev[postId[o]]["tex"]]
    BY <1>1, <1>10, <2>1 DEF ReadTex, Record, Take
  <3>3. files'[o]["tex"] = content'[o]["tex"] /\ files'[o]["tex"] # 0
    BY <1>1, <2>1, <3>1, <3>2, ConstantsAssumption DEF TypeOK, Revs
  <3>4. files'[o]["lisp"] = files[o]["lisp"] /\ content'[o]["lisp"] = content[o]["lisp"]
    BY <1>1, <2>1, <3>2 DEF TypeOK, Revs, Files
  <3>5. Complete(o)'
    BY <1>1, <2>1, <3>3, <3>4 DEF Complete, Sources, Files, DataInv
  <3>6. pc'[t] \in {"insert", "store"}
    BY <1>1, <1>10 DEF ReadTex, Refreshed
  <3>7. QED
    BY <3>5, <3>6
<2>6. ASSUME NEW q \in Objs, refcnt'[q] > 0
      PROVE  Complete(q)' \/ \E u \in Threads : cur'[u] = q /\ Partial(u)'
  <3>1. CASE q = o
    BY <2>1, <2>5, <3>1 DEF Partial
  <3>2. CASE q # o
    <4>1. Complete(q)' = Complete(q)
      BY <2>1, <2>3, <3>2 DEF Complete, Sources
    <4>2. \A u \in Threads : cur[u] = q /\ Partial(u) => cur'[u] = q /\ Partial(u)'
      BY <2>1, <2>4, <3>2 DEF Partial
    <4>3. QED
      BY <1>1, <2>1, <2>6, <4>1, <4>2 DEF DataInv
  <3>3. QED
    BY <3>1, <3>2
<2>7. ASSUME NEW u \in Threads
      PROVE  /\ pc'[u] = "check" /\ ctx'[u] = "load" => files'[cur'[u]] = NoFiles
             /\ pc'[u] = "lisp" => ~preview'[cur'[u]]
             /\ pc'[u] = "tex" /\ ~preview'[cur'[u]] =>
                  /\ files'[cur'[u]]["lisp"] # 0
                  /\ content'[cur'[u]]["lisp"] = files'[cur'[u]]["lisp"]
  <3>1. CASE u = t
    BY <2>1, <2>5, <3>1
  <3>2. CASE u # t /\ pc[u] \in {"check", "lisp", "tex"}
    <4>1. cur[u] \in Objs \ {o}
      BY <2>2, <3>2, Held
    <4>2. QED
      BY <1>1, <2>1, <2>3, <2>4, <3>2, <4>1 DEF DataInv
  <3>3. CASE u # t /\ pc[u] \notin {"check", "lisp", "tex"}
    BY <2>4, <3>3
  <3>4. QED
    BY <3>1, <3>2, <3>3
<2>8. QED
  BY <2>6, <2>7 DEF DataInv
<1>11. ASSUME NEW t \in Threads, FileMissing(t)
       PROVE  DataInv'
<2>1. UNCHANGED <<files, content, preview>>
  BY <1>11 DEF FileMissing
<2>2. \A o \in Objs : refcnt'[o] > 0 => refcnt[o] > 0
  BY <1>1, <1>11 DEF FileMissing
<2>3. \A u \in Threads :
        Partial(u) => refcnt'[cur[u]] = 0 \/ (Partial(u)' /\ cur'[u] = cur[u])
  BY <1>1, <1>11, Held DEF FileMissing, At, RefreshFails, Files, Partial,
     ControlInv
<2>4. \A u \in Threads :
        Partial(u)' /\ pc'[u] # "destroy"
          => pc'[u] = pc[u] /\ ctx'[u] = ctx[u] /\ cur'[u] = cur[u]
  BY <1>1, <1>11, Held DEF FileMissing, At, RefreshFails, Files, Partial,
     ControlInv
<2>5. QED
  BY <1>1, <2>1, <2>2, <2>3, <2>4, DataFrame
<1>12. ASSUME NEW t \in Threads, LispMalformed(t)
       PROVE  DataInv'
<2> DEFINE o == cur[t]
<2>1. /\ o \in Objs /\ pc[t] = "lisp"
      /\ UNCHANGED <<refcnt, preview, cur, ctx>>
  BY <1>12, Held DEF LispMalformed, At
<2>2. \A u \in Threads \ {t} : cur[u] = o => pc[u] \notin {"check", "lisp", "tex", "insert", "destroy", "store"}
  BY <1>1, <1>12, <2>1, Alone DEF Loading, Locking, TypeOK
<2>3. \A q \in Objs \ {o} : files'[q] = files[q] /\ content'[q] = content[q]
  BY <1>1, <1>12 DEF LispMalformed, Record
<2>4. \A u \in Threads \ {t} : pc'[u] = pc[u]
  BY <1>1, <1>12 DEF LispMalformed, RefreshFails
<2>5. /\ Complete(o)' \/ pc'[t] \in {"lisp", "tex", "destroy"} \/ (pc'[t] = "check" /\ ctx[t] = "load")
      /\ pc'[t] = "check" /\ ctx[t] = "load" => files'[o] = NoFiles
      /\ pc'[t] = "lisp" => ~preview[o]
      /\ pc'[t] = "tex" /\ ~preview[o] =>
           files'[o]["lisp"] # 0 /\ content'[o]["lisp"] = files'[o]["lisp"]
  <3>1. pc'[t] \in {"lisp", "destroy"} /\ ~preview[o]
    BY <1>1, <1>12, <2>1 DEF LispMalformed, RefreshFails, DataInv
  <3>2. QED
    BY <3>1
<2>6. ASSUME NEW q \in Objs, refcnt'[q] > 0
      PROVE  Complete(q)' \/ \E u \in Threads : cur'[u] = q /\ Partial(u)'
  <3>1. CASE q = o
    BY <2>1, <2>5, <3>1 DEF Partial
  <3>2. CASE q # o
    <4>1. Complete(q)' = Complete(q)
      BY <2>1, <2>3, <3>2 DEF Complete, Sources
    <4>2. \A u \in Threads : cur[u] = q /\ Partial(u) => cur'[u] = q /\ Partial(u)'
      BY <2>1, <2>4, <3>2 DEF Partial
    <4>3. QED
      BY <1>1, <2>1, <2>6, <4>1, <4>2 DEF DataInv
  <3>3. QED
    BY <3>1, <3>2
<2>7. ASSUME NEW u \in Threads
      PROVE  /\ pc'[u] = "check" /\ ctx'[u] = "load" => files'[cur'[u]] = NoFiles
             /\ pc'[u] = "lisp" => ~preview'[cur'[u]]
             /\ pc'[u] = "tex" /\ ~preview'[cur'[u]] =>
                  /\ files'[cur'[u]]["lisp"] # 0
                  /\ content'[cur'[u]]["lisp"] = files'[cur'[u]]["lisp"]
  <3>1. CASE u = t
    BY <2>1, <2>5, <3>1
  <3>2. CASE u # t /\ pc[u] \in {"check", "lisp", "tex"}
    <4>1. cur[u] \in Objs \ {o}
      BY <2>2, <3>2, Held
    <4>2. QED
      BY <1>1, <2>1, <2>3, <2>4, <3>2, <4>1 DEF DataInv
  <3>3. CASE u # t /\ pc[u] \notin {"check", "lisp", "tex"}
    BY <2>4, <3>3
  <3>4. QED
    BY <3>1, <3>2, <3>3
<2>8. QED
  BY <2>6, <2>7 DEF DataInv
<1>13. ASSUME NEW t \in Threads, RefreshAborts(t)
       PROVE  DataInv'
<2>1. UNCHANGED <<files, content, preview>>
  BY <1>13 DEF RefreshAborts
<2>2. \A o \in Objs : refcnt'[o] > 0 => refcnt[o] > 0
  BY <1>1, <1>13 DEF RefreshAborts
<2>3. \A u \in Threads :
        Partial(u) => refcnt'[cur[u]] = 0 \/ (Partial(u)' /\ cur'[u] = cur[u])
  BY <1>1, <1>13, Held DEF RefreshAborts, At, Files, Partial, ControlInv
<2>4. \A u \in Threads :
        Partial(u)' /\ pc'[u] # "destroy"
          => pc'[u] = pc[u] /\ ctx'[u] = ctx[u] /\ cur'[u] = cur[u]
  BY <1>1, <1>13, Held DEF RefreshAborts, At, Files, Partial, ControlInv
<2>5. QED
  BY <1>1, <2>1, <2>2, <2>3, <2>4, DataFrame
<1>14. ASSUME NEW t \in Threads, Insert(t)
       PROVE  DataInv'
<2>1. UNCHANGED <<files, content, preview>>
  BY <1>14 DEF Insert
<2>2. \A o \in Objs : refcnt'[o] > 0 => refcnt[o] > 0
  BY <1>1, <1>14, Held DEF Insert, At
<2>3. \A u \in Threads :
        Partial(u) => refcnt'[cur[u]] = 0 \/ (Partial(u)' /\ cur'[u] = cur[u])
  BY <1>1, <1>14, Held DEF Insert, At, Loaded, Partial, ControlInv
<2>4. \A u \in Threads :
        Partial(u)' /\ pc'[u] # "destroy"
          => pc'[u] = pc[u] /\ ctx'[u] = ctx[u] /\ cur'[u] = cur[u]
  BY <1>1, <1>14, Held DEF Insert, At, Loaded, Partial, ControlInv
<2>5. QED
  BY <1>1, <2>1, <2>2, <2>3, <2>4, DataFrame
<1>15. ASSUME NEW t \in Threads, InsertFails(t)
       PROVE  DataInv'
<2>1. UNCHANGED <<files, content, preview>>
  BY <1>15 DEF InsertFails
<2>2. \A o \in Objs : refcnt'[o] > 0 => refcnt[o] > 0
  BY <1>1, <1>15 DEF InsertFails
<2>3. \A u \in Threads :
        Partial(u) => refcnt'[cur[u]] = 0 \/ (Partial(u)' /\ cur'[u] = cur[u])
  BY <1>1, <1>15, Held DEF InsertFails, At, Partial, ControlInv
<2>4. \A u \in Threads :
        Partial(u)' /\ pc'[u] # "destroy"
          => pc'[u] = pc[u] /\ ctx'[u] = ctx[u] /\ cur'[u] = cur[u]
  BY <1>1, <1>15, Held DEF InsertFails, At, Partial, ControlInv
<2>5. QED
  BY <1>1, <2>1, <2>2, <2>3, <2>4, DataFrame
<1>16. ASSUME NEW t \in Threads, Destroy(t)
       PROVE  DataInv'
<2>1. UNCHANGED <<files, content, preview>>
  BY <1>16 DEF Destroy
<2>2. \A o \in Objs : refcnt'[o] > 0 => refcnt[o] > 0
  BY <1>1, <1>16, Held DEF Destroy, At
<2>3. \A u \in Threads :
        Partial(u) => refcnt'[cur[u]] = 0 \/ (Partial(u)' /\ cur'[u] = cur[u])
  BY <1>1, <1>16, Held DEF Destroy, At, Finish, Partial, ControlInv
<2>4. \A u \in Threads :
        Partial(u)' /\ pc'[u] # "destroy"
          => pc'[u] = pc[u] /\ ctx'[u] = ctx[u] /\ cur'[u] = cur[u]
  BY <1>1, <1>16, Held DEF Destroy, At, Finish, Partial, ControlInv
<2>5. QED
  BY <1>1, <2>1, <2>2, <2>3, <2>4, DataFrame
<1>17. ASSUME NEW t \in Threads, NextPost(t)
       PROVE  DataInv'
<2>1. UNCHANGED <<files, content, preview>>
  BY <1>17 DEF NextPost
<2>2. \A o \in Objs : refcnt'[o] > 0 => refcnt[o] > 0
  BY <1>1, <1>17 DEF NextPost
<2>3. \A u \in Threads :
        Partial(u) => refcnt'[cur[u]] = 0 \/ (Partial(u)' /\ cur'[u] = cur[u])
  BY <1>1, <1>17, Held DEF NextPost, At, Partial, ControlInv
<2>4. \A u \in Threads :
        Partial(u)' /\ pc'[u] # "destroy"
          => pc'[u] = pc[u] /\ ctx'[u] = ctx[u] /\ cur'[u] = cur[u]
  BY <1>1, <1>17, Held DEF NextPost, At, Partial, ControlInv
<2>5. QED
  BY <1>1, <2>1, <2>2, <2>3, <2>4, DataFrame
<1>18. ASSUME NEW t \in Threads, LockPost(t)
       PROVE  DataInv'
<2>1. UNCHANGED <<files, content, preview>>
  BY <1>18 DEF LockPost
<2>2. \A o \in Objs : refcnt'[o] > 0 => refcnt[o] > 0
  BY <1>1, <1>18 DEF LockPost
<2>3. \A u \in Threads :
        Partial(u) => refcnt'[cur[u]] = 0 \/ (Partial(u)' /\ cur'[u] = cur[u])
  BY <1>1, <1>18, Held DEF LockPost, At, Partial, ControlInv
<2>4. \A u \in Threads :
        Partial(u)' /\ pc'[u] # "destroy"
          => pc'[u] = pc[u] /\ ctx'[u] = ctx[u] /\ cur'[u] = cur[u]
  BY <1>1, <1>18, Held DEF LockPost, At, Partial, ControlInv
<2>5. QED
  BY <1>1, <2>1, <2>2, <2>3, <2>4, DataFrame
<1>19. ASSUME NEW t \in Threads, StoreVars(t)
       PROVE  DataInv'
<2>1. UNCHANGED <<files, content, preview>>
  BY <1>19 DEF StoreVars
<2>2. \A o \in Objs : refcnt'[o] > 0 => refcnt[o] > 0
  BY <1>1, <1>19 DEF StoreVars
<2>3. \A u \in Threads :
        Partial(u) => refcnt'[cur[u]] = 0 \/ (Partial(u)' /\ cur'[u] = cur[u])
  BY <1>1, <1>19, Held DEF StoreVars, At, Partial, ControlInv
<2>4. \A u \in Threads :
        Partial(u)' /\ pc'[u] # "destroy"
          => pc'[u] = pc[u] /\ ctx'[u] = ctx[u] /\ cur'[u] = cur[u]
  BY <1>1, <1>19, Held DEF StoreVars, At, Partial, ControlInv
<2>5. QED
  BY <1>1, <2>1, <2>2, <2>3, <2>4, DataFrame
<1>20. ASSUME NEW t \in Threads, PutRef(t)
       PROVE  DataInv'
<2>1. UNCHANGED <<files, content, preview>>
  BY <1>20 DEF PutRef
<2>2. \A o \in Objs : refcnt'[o] > 0 => refcnt[o] > 0
  BY <1>1, <1>20, Held DEF PutRef, At
<2>3. \A u \in Threads :
        Partial(u) => refcnt'[cur[u]] = 0 \/ (Partial(u)' /\ cur'[u] = cur[u])
  BY <1>1, <1>20, Held DEF PutRef, At, Finish, Partial, ControlInv
<2>4. \A u \in Threads :
        Partial(u)' /\ pc'[u] # "destroy"
          => pc'[u] = pc[u] /\ ctx'[u] = ctx[u] /\ cur'[u] = cur[u]
  BY <1>1, <1>20, Held DEF PutRef, At, Finish, Partial, ControlInv
<2>5. QED
  BY <1>1, <2>1, <2>2, <2>3, <2>4, DataFrame
<1>21. ASSUME EnterService
       PROVE  DataInv'
<2>1. UNCHANGED <<files, content, preview>>
  BY <1>21 DEF EnterService
<2>2. \A o \in Objs : refcnt'[o] > 0 => refcnt[o] > 0
  BY <1>1, <1>21 DEF EnterService
<2>3. \A u \in Threads :
        Partial(u) => refcnt'[cur[u]] = 0 \/ (Partial(u)' /\ cur'[u] = cur[u])
  BY <1>1, <1>21, Held DEF EnterService, Partial, ControlInv
<2>4. \A u \in Threads :
        Partial(u)' /\ pc'[u] # "destroy"
          => pc'[u] = pc[u] /\ ctx'[u] = ctx[u] /\ cur'[u] = cur[u]
  BY <1>1, <1>21, Held DEF EnterService, Partial, ControlInv
<2>5. QED
  BY <1>1, <2>1, <2>2, <2>3, <2>4, DataFrame
<1>22. ASSUME StopService
       PROVE  DataInv'
<2>1. UNCHANGED <<files, content, preview>>
  BY <1>22 DEF StopService
<2>2. \A o \in Objs : refcnt'[o] > 0 => refcnt[o] > 0
  BY <1>1, <1>22 DEF StopService
<2>3. \A u \in Threads :
        Partial(u) => refcnt'[cur[u]] = 0 \/ (Partial(u)' /\ cur'[u] = cur[u])
  BY <1>1, <1>22, Held DEF StopService, Partial, ControlInv
<2>4. \A u \in Threads :
        Partial(u)' /\ pc'[u] # "destroy"
          => pc'[u] = pc[u] /\ ctx'[u] = ctx[u] /\ cur'[u] = cur[u]
  BY <1>1, <1>22, Held DEF StopService, Partial, ControlInv
<2>5. QED
  BY <1>1, <2>1, <2>2, <2>3, <2>4, DataFrame
<1>23. ASSUME FreeAllPosts
       PROVE  DataInv'
<2>1. UNCHANGED <<files, content, preview>>
  BY <1>23 DEF FreeAllPosts
<2>2. \A o \in Objs : refcnt'[o] > 0 => refcnt[o] > 0
  BY <1>1, <1>23 DEF FreeAllPosts
<2>3. \A u \in Threads :
        Partial(u) => refcnt'[cur[u]] = 0 \/ (Partial(u)' /\ cur'[u] = cur[u])
  BY <1>1, <1>23, Held DEF FreeAllPosts, Partial, ControlInv
<2>4. \A u \in Threads :
        Partial(u)' /\ pc'[u] # "destroy"
          => pc'[u] = pc[u] /\ ctx'[u] = ctx[u] /\ cur'[u] = cur[u]
  BY <1>1, <1>23, Held DEF FreeAllPosts, Partial, ControlInv
<2>5. QED
  BY <1>1, <2>1, <2>2, <2>3, <2>4, DataFrame
<1>24. ASSUME NEW p \in PostIds, NEW f \in Files, EditFile(p, f)
       PROVE  DataInv'
<2>1. UNCHANGED <<files, content, preview>>
  BY <1>24 DEF EditFile
<2>2. \A o \in Objs : refcnt'[o] > 0 => refcnt[o] > 0
  BY <1>1, <1>24 DEF EditFile
<2>3. \A u \in Threads :
        Partial(u) => refcnt'[cur[u]] = 0 \/ (Partial(u)' /\ cur'[u] = cur[u])
  BY <1>1, <1>24, Held DEF EditFile, Partial, ControlInv
<2>4. \A u \in Threads :
        Partial(u)' /\ pc'[u] # "destroy"
          => pc'[u] = pc[u] /\ ctx'[u] = ctx[u] /\ cur'[u] = cur[u]
  BY <1>1, <1>24, Held DEF EditFile, Partial, ControlInv
<2>5. QED
  BY <1>1, <2>1, <2>2, <2>3, <2>4, DataFrame
<1>25. CASE UNCHANGED vars
  BY <1>1, <1>25 DEF vars, DataInv, Complete, Sources, Partial
<1>26. QED
  BY <1>2, <1>3, <1>4, <1>5, <1>6, <1>7, <1>8, <1>9, <1>10, <1>11, <1>12,
     <1>13, <1>14, <1>15, <1>16, <1>17, <1>18, <1>19, <1>20, <1>21, <1>22,
     <1>23, <1>24, <1>25 DEF Next, Run, Ended

\* FreshInv is preserved.
LEMMA FreshStep == IInv /\ [Next]_vars => FreshInv'
<1> SUFFICES ASSUME IInv, [Next]_vars PROVE FreshInv'
  OBVIOUS
<1>1. TypeOK /\ ControlInv /\ LockInv /\ DataInv /\ FreshInv
  BY DEF IInv
<1> USE ConstantsAssumption DEF TypeOK, diskVars, postVars, threadVars,
     procVars
<1>2. ASSUME NEW t \in Threads, StartPreload(t)
       PROVE  FreshInv'
<2>1. UNCHANGED <<content, preview, postId>>
  BY <1>2 DEF StartPreload
<2>2. \A u \in Threads, q \in PostIds, g \in Files : start'[u][q][g] <= rev'[q][g]
  BY <1>1, <1>2, RevTypes DEF StartPreload, At, Begin, NoFiles, FreshInv
<2>3. \A u \in Threads :
        pc'[u] \in {"tex", "store"}
          => pc'[u] = pc[u] /\ cur'[u] = cur[u] /\ start'[u] = start[u]
  BY <1>1, <1>2 DEF StartPreload, At, Begin
<2>4. QED
  BY <1>1, <2>1, <2>2, <2>3, FreshFrame
<1>3. ASSUME NEW t \in Threads, StartGetPost(t)
       PROVE  FreshInv'
<2>1. UNCHANGED <<content, preview, postId>>
  BY <1>3 DEF StartGetPost
<2>2. \A u \in Threads, q \in PostIds, g \in Files : start'[u][q][g] <= rev'[q][g]
  <3>1. start' = [start EXCEPT ![t] = rev] /\ UNCHANGED rev
    BY <1>3 DEF StartGetPost, Begin
  <3>2. QED
    BY <1>1, <3>1, RevTypes DEF FreshInv
<2>3. \A u \in Threads :
        pc'[u] \in {"tex", "store"}
          => pc'[u] = pc[u] /\ cur'[u] = cur[u] /\ start'[u] = start[u]
  BY <1>1, <1>3 DEF StartGetPost, At, Begin
<2>4. QED
  BY <1>1, <2>1, <2>2, <2>3, FreshFrame
<1>4. ASSUME NEW t \in Threads, StartListing(t)
       PROVE  FreshInv'
<2>1. UNCHANGED <<content, preview, postId>>
  BY <1>4 DEF StartListing
<2>2. \A u \in Threads, q \in PostIds, g \in Files : start'[u][q][g] <= rev'[q][g]
  BY <1>1, <1>4, RevTypes DEF StartListing, At, Begin, Indexed, NoFiles,
     FreshInv
<2>3. \A u \in Threads :
        pc'[u] \in {"tex", "store"}
          => pc'[u] = pc[u] /\ cur'[u] = cur[u] /\ start'[u] = start[u]
  BY <1>1, <1>4 DEF StartListing, At, Begin, Indexed
<2>4. QED
  BY <1>1, <2>1, <2>2, <2>3, FreshFrame
<1>5. ASSUME NEW t \in Threads, Lookup(t)
       PROVE  FreshInv'
<2>1. UNCHANGED <<content, preview, postId>>
  BY <1>5 DEF Lookup
<2>2. \A u \in Threads, q \in PostIds, g \in Files : start'[u][q][g] <= rev'[q][g]
  BY <1>1, <1>5, RevTypes DEF Lookup, At, Loaded, NoFiles, FreshInv
<2>3. \A u \in Threads :
        pc'[u] \in {"tex", "store"}
          => pc'[u] = pc[u] /\ cur'[u] = cur[u] /\ start'[u] = start[u]
  BY <1>1, <1>5 DEF Lookup, At, Loaded
<2>4. QED
  BY <1>1, <2>1, <2>2, <2>3, FreshFrame
<1>6. ASSUME NEW t \in Threads, Alloc(t)
       PROVE  FreshInv'
<2>1. PICK o \in Objs : /\ refcnt[o] = 0
                        /\ \A u \in Threads : cur'[u] = IF u = t THEN o ELSE cur[u]
                        /\ \A x \in Objs \ {o} : /\ preview'[x] = preview[x]
                                                 /\ postId'[x] = postId[x]
                                                 /\ content'[x] = content[x]
  BY <1>1, <1>6 DEF Alloc
<2>2. pc' = [pc EXCEPT ![t] = "check"] /\ UNCHANGED <<start, rev>>
  BY <1>6 DEF Alloc, diskVars
<2>3. \A u \in Threads \ {t} : cur[u] # o
  BY <2>1, FreeUnheld, <1>1 DEF Holders
<2>4. cur[t] = NoObj /\ \A u \in Threads : pc[u] \in {"tex", "store"} => cur[u] \in Objs
  BY <1>1, <1>6, Held DEF Alloc, At, ControlInv
<2>5. \A u \in Threads : pc'[u] \in {"tex", "store"} =>
         LET x == cur[u] IN
         /\ pc'[u] = pc[u] /\ cur'[u] = x
         /\ preview'[x] = preview[x] /\ postId'[x] = postId[x] /\ content'[x] = content[x]
  BY <1>1, <2>1, <2>2, <2>3, <2>4
<2>6. \A u \in Threads, q \in PostIds, g \in Files : start'[u][q][g] <= rev'[q][g]
  BY <1>1, <2>2 DEF FreshInv
<2>7. ASSUME NEW u \in Threads, pc'[u] = "tex", ~preview'[cur'[u]]
      PROVE  content'[cur'[u]]["lisp"] >= start'[u][postId'[cur'[u]]]["lisp"]
  BY <1>1, <2>2, <2>5, <2>7 DEF FreshInv
<2>8. ASSUME NEW u \in Threads, pc'[u] = "store", NEW g \in Sources(cur[u])'
      PROVE  content'[cur'[u]][g] >= start'[u][postId'[cur'[u]]][g]
  <3>1. pc[u] = "store" /\ cur'[u] = cur[u] /\ Sources(cur[u])' = Sources(cur[u])
    BY <2>5, <2>8 DEF Sources
  <3>2. QED
    BY <1>1, <2>2, <2>5, <2>8, <3>1 DEF FreshInv
<2>9. QED
  BY <1>1, <2>6, <2>7, <2>8 DEF FreshInv
<1>7. ASSUME NEW t \in Threads, AllocFails(t)
       PROVE  FreshInv'
<2>1. UNCHANGED <<content, preview, postId>>
  BY <1>7 DEF AllocFails
<2>2. \A u \in Threads, q \in PostIds, g \in Files : start'[u][q][g] <= rev'[q][g]
  BY <1>1, <1>7, RevTypes DEF AllocFails, At, Finish, NoFiles, FreshInv
<2>3. \A u \in Threads :
        pc'[u] \in {"tex", "store"}
          => pc'[u] = pc[u] /\ cur'[u] = cur[u] /\ start'[u] = start[u]
  BY <1>1, <1>7 DEF AllocFails, At, Finish
<2>4. QED
  BY <1>1, <2>1, <2>2, <2>3, FreshFrame
<1>8. ASSUME NEW t \in Threads, CheckRefresh(t)
       PROVE  FreshInv'
<2> DEFINE o == cur[t]
<2>1. /\ o \in Objs /\ postId[o] \in PostIds /\ pc[t] = "check"
      /\ UNCHANGED <<rev, preview, postId, cur, start>>
  BY <1>8, Held DEF CheckRefresh, At
<2>2. \A u \in Threads \ {t} : cur[u] = o => pc[u] \notin {"tex", "store"}
  BY <1>1, <1>8, <2>1, Alone DEF Loading, Locking, TypeOK
<2>3. \A q \in Objs \ {o} : content'[q] = content[q]
  BY <1>1, <1>8 DEF CheckRefresh
<2>4. \A u \in Threads \ {t} : pc'[u] = pc[u]
  BY <1>1, <1>8 DEF CheckRefresh
<2>5. /\ pc'[t] = "tex" /\ ~preview[o] => content'[o]["lisp"] >= start[t][postId[o]]["lisp"]
      /\ pc'[t] = "store" => \A f \in Sources(o) : content'[o][f] >= start[t][postId[o]][f]
  <3>1. CASE MustRefresh(o)
    <4>1. pc'[t] = IF preview[o] THEN "tex" ELSE "lisp"
      BY <1>1, <1>8, <3>1 DEF CheckRefresh
    <4>2. QED
      BY <4>1
  <3>2. CASE ~MustRefresh(o)
    <4>1. ctx[t] = "serve"
      BY <1>1, <2>1, <3>2 DEF MustRefresh, DataInv
    <4>2. pc'[t] = "store" /\ UNCHANGED <<files, content, preview>>
      BY <1>1, <1>8, <3>2, <4>1 DEF CheckRefresh, Refreshed
    <4>3. Complete(o)
      <5>1. \A u \in Threads : cur[u] = o => ~Partial(u)
        BY <1>1, <1>8, <2>1, <4>1, Alone DEF Partial, Loading, Locking, TypeOK
      <5>2. refcnt[o] > 0
        BY <1>8, Held DEF CheckRefresh, At
      <5>3. QED
        BY <1>1, <2>1, <5>1, <5>2 DEF DataInv
    <4>4. ~preview[o] /\ \A f \in Files : files[o][f] # 0 => ~(rev[postId[o]][f] > files[o][f])
      BY <3>2 DEF MustRefresh, Newer
    <4>5. \A f \in Files : content[o][f] >= start[t][postId[o]][f]
      <5>1. SUFFICES ASSUME NEW f \in Files PROVE content[o][f] >= start[t][postId[o]][f]
        OBVIOUS
      <5>2. content[o][f] = files[o][f] /\ files[o][f] # 0
        BY <4>3, <4>4 DEF Complete, Sources
      <5>3. /\ start[t][postId[o]][f] \in Nat
            /\ files[o][f] \in Nat
            /\ rev[postId[o]][f] \in Nat
        BY <1>1, <2>1, RevTypes, ConstantsAssumption DEF TypeOK, Revs
      <5>4. start[t][postId[o]][f] <= rev[postId[o]][f]
        BY <1>1, <2>1 DEF FreshInv
      <5>5. QED
        BY <4>4, <5>2, <5>3, <5>4
    <4>6. QED
      BY <4>2, <4>4, <4>5 DEF Sources
  <3>3. QED
    BY <3>1, <3>2
<2>6. ASSUME NEW u \in Threads
      PROVE  /\ pc'[u] = "tex" /\ ~preview'[cur'[u]] =>
                  content'[cur'[u]]["lisp"] >= start'[u][postId'[cur'[u]]]["lisp"]
             /\ pc'[u] = "store" =>
                  \A f \in Sources(cur[u])' :
                     content'[cur'[u]][f] >= start'[u][postId'[cur'[u]]][f]
  <3>1. CASE u = t
    BY <2>1, <2>5, <3>1 DEF Sources
  <3>2. CASE u # t /\ pc[u] \in {"tex", "store"}
    <4>1. cur[u] \in Objs \ {o}
      BY <2>2, <3>2, Held
    <4>2. QED
      BY <1>1, <2>1, <2>3, <2>4, <3>2, <4>1 DEF FreshInv, Sources
  <3>3. CASE u # t /\ pc[u] \notin {"tex", "store"}
    BY <2>4, <3>3
  <3>4. QED
    BY <3>1, <3>2, <3>3
<2>7. QED
  BY <1>1, <2>1, <2>6 DEF FreshInv
<1>9. ASSUME NEW t \in Threads, ReadLisp(t)
       PROVE  FreshInv'
<2> DEFINE o == cur[t]
<2>1. /\ o \in Objs /\ postId[o] \in PostIds /\ pc[t] = "lisp"
      /\ UNCHANGED <<rev, preview, postId, cur, start>>
  BY <1>9, Held DEF ReadLisp, At
<2>2. \A u \in Threads \ {t} : cur[u] = o => pc[u] \notin {"tex", "store"}
  BY <1>1, <1>9, <2>1, Alone DEF Loading, Locking, TypeOK
<2>3. \A q \in Objs \ {o} : content'[q] = content[q]
  BY <1>1, <1>9 DEF ReadLisp, Take
<2>4. \A u \in Threads \ {t} : pc'[u] = pc[u]
  BY <1>1, <1>9 DEF ReadLisp
<2>5. /\ pc'[t] = "tex" /\ ~preview[o] => content'[o]["lisp"] >= start[t][postId[o]]["lisp"]
      /\ pc'[t] = "store" => \A f \in Sources(o) : content'[o][f] >= start[t][postId[o]][f]
  <3>1. rev[postId[o]]["lisp"] \in 1..MaxRev /\ "lisp" \in Files
    BY <1>1, <2>1, RevTypes DEF Files
  <3>2. content'[o] = [content[o] EXCEPT !["lisp"] = rev[postId[o]]["lisp"]]
    BY <1>1, <1>9, <2>1 DEF ReadLisp, Take
  <3>3. content'[o]["lisp"] = rev[postId[o]]["lisp"]
    BY <1>1, <2>1, <3>1, <3>2 DEF TypeOK, Revs
  <3>4. start[t][postId[o]]["lisp"] <= rev[postId[o]]["lisp"] /\ start[t][postId[o]]["lisp"] \in Nat
    BY <1>1, <2>1, <3>1 DEF FreshInv, TypeOK, Revs
  <3>5. content'[o]["lisp"] >= start[t][postId[o]]["lisp"]
    BY <3>1, <3>3, <3>4
  <3>6. pc'[t] = "tex"
    BY <1>1, <1>9 DEF ReadLisp
  <3>7. QED
    BY <3>5, <3>6
<2>6. ASSUME NEW u \in Threads
      PROVE  /\ pc'[u] = "tex" /\ ~preview'[cur'[u]] =>
                  content'[cur'[u]]["lisp"] >= start'[u][postId'[cur'[u]]]["lisp"]
             /\ pc'[u] = "store" =>
                  \A f \in Sources(cur[u])' :
                     content'[cur'[u]][f] >= start'[u][postId'[cur'[u]]][f]
  <3>1. CASE u = t
    BY <2>1, <2>5, <3>1 DEF Sources
  <3>2. CASE u # t /\ pc[u] \in {"tex", "store"}
    <4>1. cur[u] \in Objs \ {o}
      BY <2>2, <3>2, Held
    <4>2. QED
      BY <1>1, <2>1, <2>3, <2>4, <3>2, <4>1 DEF FreshInv, Sources
  <3>3. CASE u # t /\ pc[u] \notin {"tex", "store"}
    BY <2>4, <3>3
  <3>4. QED
    BY <3>1, <3>2, <3>3
<2>7. QED
  BY <1>1, <2>1, <2>6 DEF FreshInv
<1>10. ASSUME NEW t \in Threads, ReadTex(t)
       PROVE  FreshInv'
<2> DEFINE o == cur[t]
<2>1. /\ o \in Objs /\ postId[o] \in PostIds /\ pc[t] = "tex"
      /\ UNCHANGED <<rev, preview, postId, cur, start>>
  BY <1>10, Held DEF ReadTex, At
<2>2. \A u \in Threads \ {t} : cur[u] = o => pc[u] \notin {"tex", "store"}
  BY <1>1, <1>10, <2>1, Alone DEF Loading, Locking, TypeOK
<2>3. \A q \in Objs \ {o} : content'[q] = content[q]
  BY <1>1, <1>10 DEF ReadTex, Take
<2>4. \A u \in Threads \ {t} : pc'[u] = pc[u]
  BY <1>1, <1>10 DEF ReadTex
<2>5. /\ pc'[t] = "tex" /\ ~preview[o] => content'[o]["lisp"] >= start[t][postId[o]]["lisp"]
      /\ pc'[t] = "store" => \A f \in Sources(o) : content'[o][f] >= start[t][postId[o]][f]
  <3>1. rev[postId[o]]["tex"] \in 1..MaxRev /\ "tex" \in Files
    BY <1>1, <2>1, RevTypes DEF Files
  <3>2. content'[o] = [content[o] EXCEPT !["tex"] = rev[postId[o]]["tex"]]
    BY <1>1, <1>10, <2>1 DEF ReadTex, Take
  <3>3. content'[o]["tex"] = rev[postId[o]]["tex"]
    BY <1>1, <2>1, <3>1, <3>2 DEF TypeOK, Revs
  <3>4. start[t][postId[o]]["tex"] <= rev[postId[o]]["tex"] /\ start[t][postId[o]]["tex"] \in Nat
    BY <1>1, <2>1, <3>1 DEF FreshInv, TypeOK, Revs
  <3>5. content'[o]["tex"] >= start[t][postId[o]]["tex"]
    BY <3>1, <3>3, <3>4
  <3>6. content'[o]["lisp"] = content[o]["lisp"]
    BY <1>1, <2>1, <3>2 DEF TypeOK, Revs, Files
  <3>7. pc'[t] \in {"insert", "store"}
    BY <1>1, <1>10 DEF ReadTex, Refreshed
  <3>8. QED
    BY <1>1, <2>1, <3>5, <3>6, <3>7 DEF FreshInv, Sources, Files
<2>6. ASSUME NEW u \in Threads
      PROVE  /\ pc'[u] = "tex" /\ ~preview'[cur'[u]] =>
                  content'[cur'[u]]["lisp"] >= start'[u][postId'[cur'[u]]]["lisp"]
             /\ pc'[u] = "store" =>
                  \A f \in Sources(cur[u])' :
                     content'[cur'[u]][f] >= start'[u][postId'[cur'[u]]][f]
  <3>1. CASE u = t
    BY <2>1, <2>5, <3>1 DEF Sources
  <3>2. CASE u # t /\ pc[u] \in {"tex", "store"}
    <4>1. cur[u] \in Objs \ {o}
      BY <2>2, <3>2, Held
    <4>2. QED
      BY <1>1, <2>1, <2>3, <2>4, <3>2, <4>1 DEF FreshInv, Sources
  <3>3. CASE u # t /\ pc[u] \notin {"tex", "store"}
    BY <2>4, <3>3
  <3>4. QED
    BY <3>1, <3>2, <3>3
<2>7. QED
  BY <1>1, <2>1, <2>6 DEF FreshInv
<1>11. ASSUME NEW t \in Threads, FileMissing(t)
       PROVE  FreshInv'
<2>1. UNCHANGED <<content, preview, postId>>
  BY <1>11 DEF FileMissing
<2>2. \A u \in Threads, q \in PostIds, g \in Files : start'[u][q][g] <= rev'[q][g]
  BY <1>1, <1>11, RevTypes DEF FileMissing, At, RefreshFails, Files, NoFiles,
     FreshInv
<2>3. \A u \in Threads :
        pc'[u] \in {"tex", "store"}
          => pc'[u] = pc[u] /\ cur'[u] = cur[u] /\ start'[u] = start[u]
  BY <1>1, <1>11 DEF FileMissing, At, RefreshFails, Files
<2>4. QED
  BY <1>1, <2>1, <2>2, <2>3, FreshFrame
<1>12. ASSUME NEW t \in Threads, LispMalformed(t)
       PROVE  FreshInv'
<2>1. UNCHANGED <<content, preview, postId>>
  BY <1>12 DEF LispMalformed
<2>2. \A u \in Threads, q \in PostIds, g \in Files : start'[u][q][g] <= rev'[q][g]
  BY <1>1, <1>12, RevTypes DEF LispMalformed, At, Record, RefreshFails,
     NoFiles, FreshInv
<2>3. \A u \in Threads :
        pc'[u] \in {"tex", "store"}
          => pc'[u] = pc[u] /\ cur'[u] = cur[u] /\ start'[u] = start[u]
  BY <1>1, <1>12 DEF LispMalformed, At, Record, RefreshFails
<2>4. QED
  BY <1>1, <2>1, <2>2, <2>3, FreshFrame
<1>13. ASSUME NEW t \in Threads, RefreshAborts(t)
       PROVE  FreshInv'
<2>1. UNCHANGED <<content, preview, postId>>
  BY <1>13 DEF RefreshAborts
<2>2. \A u \in Threads, q \in PostIds, g \in Files : start'[u][q][g] <= rev'[q][g]
  BY <1>1, <1>13, RevTypes DEF RefreshAborts, At, Files, NoFiles, FreshInv
<2>3. \A u \in Threads :
        pc'[u] \in {"tex", "store"}
          => pc'[u] = pc[u] /\ cur'[u] = cur[u] /\ start'[u] = start[u]
  BY <1>1, <1>13 DEF RefreshAborts, At, Files
<2>4. QED
  BY <1>1, <2>1, <2>2, <2>3, FreshFrame
<1>14. ASSUME NEW t \in Threads, Insert(t)
       PROVE  FreshInv'
<2>1. UNCHANGED <<content, preview, postId>>
  BY <1>14 DEF Insert
<2>2. \A u \in Threads, q \in PostIds, g \in Files : start'[u][q][g] <= rev'[q][g]
  BY <1>1, <1>14, RevTypes DEF Insert, At, Loaded, NoFiles, FreshInv
<2>3. \A u \in Threads :
        pc'[u] \in {"tex", "store"}
          => pc'[u] = pc[u] /\ cur'[u] = cur[u] /\ start'[u] = start[u]
  BY <1>1, <1>14 DEF Insert, At, Loaded
<2>4. QED
  BY <1>1, <2>1, <2>2, <2>3, FreshFrame
<1>15. ASSUME NEW t \in Threads, InsertFails(t)
       PROVE  FreshInv'
<2>1. UNCHANGED <<content, preview, postId>>
  BY <1>15 DEF InsertFails
<2>2. \A u \in Threads, q \in PostIds, g \in Files : start'[u][q][g] <= rev'[q][g]
  BY <1>1, <1>15, RevTypes DEF InsertFails, At, NoFiles, FreshInv
<2>3. \A u \in Threads :
        pc'[u] \in {"tex", "store"}
          => pc'[u] = pc[u] /\ cur'[u] = cur[u] /\ start'[u] = start[u]
  BY <1>1, <1>15 DEF InsertFails, At
<2>4. QED
  BY <1>1, <2>1, <2>2, <2>3, FreshFrame
<1>16. ASSUME NEW t \in Threads, Destroy(t)
       PROVE  FreshInv'
<2>1. UNCHANGED <<content, preview, postId>>
  BY <1>16 DEF Destroy
<2>2. \A u \in Threads, q \in PostIds, g \in Files : start'[u][q][g] <= rev'[q][g]
  BY <1>1, <1>16, RevTypes DEF Destroy, At, Finish, NoFiles, FreshInv
<2>3. \A u \in Threads :
        pc'[u] \in {"tex", "store"}
          => pc'[u] = pc[u] /\ cur'[u] = cur[u] /\ start'[u] = start[u]
  BY <1>1, <1>16 DEF Destroy, At, Finish
<2>4. QED
  BY <1>1, <2>1, <2>2, <2>3, FreshFrame
<1>17. ASSUME NEW t \in Threads, NextPost(t)
       PROVE  FreshInv'
<2>1. UNCHANGED <<content, preview, postId>>
  BY <1>17 DEF NextPost
<2>2. \A u \in Threads, q \in PostIds, g \in Files : start'[u][q][g] <= rev'[q][g]
  BY <1>1, <1>17, RevTypes DEF NextPost, At, NoFiles, FreshInv
<2>3. \A u \in Threads :
        pc'[u] \in {"tex", "store"}
          => pc'[u] = pc[u] /\ cur'[u] = cur[u] /\ start'[u] = start[u]
  BY <1>1, <1>17 DEF NextPost, At
<2>4. QED
  BY <1>1, <2>1, <2>2, <2>3, FreshFrame
<1>18. ASSUME NEW t \in Threads, LockPost(t)
       PROVE  FreshInv'
<2>1. UNCHANGED <<content, preview, postId>>
  BY <1>18 DEF LockPost
<2>2. \A u \in Threads, q \in PostIds, g \in Files : start'[u][q][g] <= rev'[q][g]
  BY <1>1, <1>18, RevTypes DEF LockPost, At, NoFiles, FreshInv
<2>3. \A u \in Threads :
        pc'[u] \in {"tex", "store"}
          => pc'[u] = pc[u] /\ cur'[u] = cur[u] /\ start'[u] = start[u]
  BY <1>1, <1>18 DEF LockPost, At
<2>4. QED
  BY <1>1, <2>1, <2>2, <2>3, FreshFrame
<1>19. ASSUME NEW t \in Threads, StoreVars(t)
       PROVE  FreshInv'
<2>1. UNCHANGED <<content, preview, postId>>
  BY <1>19 DEF StoreVars
<2>2. \A u \in Threads, q \in PostIds, g \in Files : start'[u][q][g] <= rev'[q][g]
  BY <1>1, <1>19, RevTypes DEF StoreVars, At, NoFiles, FreshInv
<2>3. \A u \in Threads :
        pc'[u] \in {"tex", "store"}
          => pc'[u] = pc[u] /\ cur'[u] = cur[u] /\ start'[u] = start[u]
  BY <1>1, <1>19 DEF StoreVars, At
<2>4. QED
  BY <1>1, <2>1, <2>2, <2>3, FreshFrame
<1>20. ASSUME NEW t \in Threads, PutRef(t)
       PROVE  FreshInv'
<2>1. UNCHANGED <<content, preview, postId>>
  BY <1>20 DEF PutRef
<2>2. \A u \in Threads, q \in PostIds, g \in Files : start'[u][q][g] <= rev'[q][g]
  <3>1. UNCHANGED rev
    BY <1>20 DEF PutRef
  <3>2. CASE start' = start
    BY <1>1, <3>1, <3>2 DEF FreshInv
  <3>3. CASE start' = [start EXCEPT ![t] = [q \in PostIds |-> NoFiles]]
    BY <1>1, <3>1, <3>3, RevTypes DEF FreshInv, NoFiles
  <3>4. QED
    BY <1>20, <3>2, <3>3 DEF PutRef, Finish
<2>3. \A u \in Threads :
        pc'[u] \in {"tex", "store"}
          => pc'[u] = pc[u] /\ cur'[u] = cur[u] /\ start'[u] = start[u]
  BY <1>1, <1>20 DEF PutRef, At, Finish
<2>4. QED
  BY <1>1, <2>1, <2>2, <2>3, FreshFrame
<1>21. ASSUME EnterService
       PROVE  FreshInv'
<2>1. UNCHANGED <<content, preview, postId>>
  BY <1>21 DEF EnterService
<2>2. \A u \in Threads, q \in PostIds, g \in Files : start'[u][q][g] <= rev'[q][g]
  BY <1>1, <1>21, RevTypes DEF EnterService, NoFiles, FreshInv
<2>3. \A u \in Threads :
        pc'[u] \in {"tex", "store"}
          => pc'[u] = pc[u] /\ cur'[u] = cur[u] /\ start'[u] = start[u]
  BY <1>1, <1>21 DEF EnterService
<2>4. QED
  BY <1>1, <2>1, <2>2, <2>3, FreshFrame
<1>22. ASSUME StopService
       PROVE  FreshInv'
<2>1. UNCHANGED <<content, preview, postId>>
  BY <1>22 DEF StopService
<2>2. \A u \in Threads, q \in PostIds, g \in Files : start'[u][q][g] <= rev'[q][g]
  BY <1>1, <1>22, RevTypes DEF StopService, NoFiles, FreshInv
<2>3. \A u \in Threads :
        pc'[u] \in {"tex", "store"}
          => pc'[u] = pc[u] /\ cur'[u] = cur[u] /\ start'[u] = start[u]
  BY <1>1, <1>22 DEF StopService
<2>4. QED
  BY <1>1, <2>1, <2>2, <2>3, FreshFrame
<1>23. ASSUME FreeAllPosts
       PROVE  FreshInv'
<2>1. UNCHANGED <<content, preview, postId>>
  BY <1>23 DEF FreeAllPosts
<2>2. \A u \in Threads, q \in PostIds, g \in Files : start'[u][q][g] <= rev'[q][g]
  BY <1>1, <1>23, RevTypes DEF FreeAllPosts, NoFiles, FreshInv
<2>3. \A u \in Threads :
        pc'[u] \in {"tex", "store"}
          => pc'[u] = pc[u] /\ cur'[u] = cur[u] /\ start'[u] = start[u]
  BY <1>1, <1>23 DEF FreeAllPosts
<2>4. QED
  BY <1>1, <2>1, <2>2, <2>3, FreshFrame
<1>24. ASSUME NEW p \in PostIds, NEW f \in Files, EditFile(p, f)
       PROVE  FreshInv'
<2>1. UNCHANGED <<content, preview, postId>>
  BY <1>24 DEF EditFile
<2>2. \A u \in Threads, q \in PostIds, g \in Files : start'[u][q][g] <= rev'[q][g]
  <3>1. \A q \in PostIds, g \in Files : rev'[q][g] >= rev[q][g]
    <4>1. \A q \in PostIds, g \in Files : rev'[q][g] = rev[q][g] \/ rev'[q][g] = rev[q][g] + 1
      BY <1>1, <1>24 DEF EditFile
    <4>2. ASSUME NEW q \in PostIds, NEW g \in Files PROVE rev'[q][g] >= rev[q][g]
      <5>1. rev[q][g] \in Int
        BY <1>1, RevTypes
      <5>2. QED
        BY <4>1, <5>1
    <4>3. QED
      BY <4>2
  <3>2. \A u \in Threads, q \in PostIds, g \in Files :
          /\ start'[u][q][g] = start[u][q][g]
          /\ start[u][q][g] \in Nat /\ rev[q][g] \in Nat /\ rev'[q][g] \in Nat
    BY <1>1, <1>24, TypeStep, RevTypes DEF EditFile, Revs
  <3>3. ASSUME NEW u \in Threads, NEW q \in PostIds, NEW g \in Files
        PROVE  start'[u][q][g] <= rev'[q][g]
    <4>1. start[u][q][g] <= rev[q][g]
      BY <1>1 DEF FreshInv
    <4>2. start'[u][q][g] = start[u][q][g] /\ rev'[q][g] >= rev[q][g]
      BY <3>1, <3>2
    <4>3. start[u][q][g] \in Nat /\ rev[q][g] \in Nat /\ rev'[q][g] \in Nat
      BY <3>2
    <4>4. QED
      BY <4>1, <4>2, <4>3
  <3>4. QED
    BY <3>3
<2>3. \A u \in Threads :
        pc'[u] \in {"tex", "store"}
          => pc'[u] = pc[u] /\ cur'[u] = cur[u] /\ start'[u] = start[u]
  BY <1>1, <1>24 DEF EditFile
<2>4. QED
  BY <1>1, <2>1, <2>2, <2>3, FreshFrame
<1>25. CASE UNCHANGED vars
  BY <1>1, <1>25 DEF vars, FreshInv, Sources
<1>26. QED
  BY <1>2, <1>3, <1>4, <1>5, <1>6, <1>7, <1>8, <1>9, <1>10, <1>11, <1>12,
     <1>13, <1>14, <1>15, <1>16, <1>17, <1>18, <1>19, <1>20, <1>21, <1>22,
     <1>23, <1>24, <1>25 DEF Next, Run, Ended

-----------------------------------------------------------------------------
(* The theorems *)

LEMMA InitInv == Init => IInv
<1> SUFFICES ASSUME Init PROVE IInv
  OBVIOUS
<1> USE ConstantsAssumption DEF Init
<1>1. TypeOK
  BY DEF TypeOK, Files, NoFiles, Revs, Stages
<1>2. ControlInv /\ LockInv /\ PrivateInv /\ IdInv /\ FreshInv
  <2>1. ControlInv
    BY DEF ControlInv, Loading
  <2>2. LockInv
    BY DEF LockInv, Locking
  <2>3. PrivateInv /\ IdInv
    BY DEF PrivateInv, Loading, IdInv
  <2>4. FreshInv
    BY DEF FreshInv, NoFiles
  <2>5. QED
    BY <2>1, <2>2, <2>3, <2>4
<1>3. \A o \in Objs : Holders(o) = {} /\ ~Indexed(o)
  BY DEF Holders, Indexed
<1>4. IndexSound
  BY <1>3 DEF IndexSound
<1>5. RefcountExact
  <2>1. \A o \in Objs : Cardinality(Holders(o)) = 0
    BY <1>3, FS_EmptySet
  <2>2. QED
    BY <1>3, <2>1 DEF RefcountExact
<1>6. DataInv
  BY DEF DataInv
<1>7. QED
  BY <1>1, <1>2, <1>4, <1>5, <1>6 DEF IInv

LEMMA InductiveInv == IInv /\ [Next]_vars => IInv'
BY TypeStep, ControlStep, LockStep, PrivateStep, IdStep, IndexStep, CountStep,
   DataStep, FreshStep DEF IInv

\* The inductive invariant holds in every reachable state.
THEOREM Invariance == Spec => []IInv
BY InitInv, InductiveInv, PTL DEF Spec

\* Every variable keeps its type: no reference count drops below zero, no
\* thread reaches a stage the code does not have.
THEOREM TypeCorrect == Spec => []TypeOK
<1>1. IInv => TypeOK
  BY DEF IInv
<1>2. QED
  BY <1>1, Invariance, PTL

\* post_getref and post_putref balance, for any number of threads, posts and
\* edits.
THEOREM RefcountsExact == Spec => []RefcountExact
<1>1. IInv => RefcountExact
  BY DEF IInv
<1>2. QED
  BY <1>1, Invariance, PTL

\* No freed struct post is reachable from a thread or from the index.
THEOREM MemorySafety == Spec => []NoUseAfterFree
<1>1. IInv => NoUseAfterFree
  <2> SUFFICES ASSUME IInv, NEW o \in Objs, refcnt[o] = 0
               PROVE  Holders(o) = {} /\ ~Indexed(o) /\ lock[o] = NoThread
    BY DEF NoUseAfterFree
  <2>1. Holders(o) = {} /\ ~Indexed(o)
    BY FreeUnheld
  <2>2. \A t \in Threads : lock[o] # t
    BY <2>1 DEF IInv, LockInv, Holders
  <2>3. QED
    BY <2>1, <2>2 DEF IInv, TypeOK
<1>2. QED
  BY <1>1, Invariance, PTL

\* Two threads never refresh or copy a post at the same time.
THEOREM MutualExclusion == Spec => []ExclusiveUse
<1>1. IInv => ExclusiveUse
  BY Alone DEF ExclusiveUse, Using, IInv, TypeOK, Loading, Locking
<1>2. QED
  BY <1>1, Invariance, PTL

\* A post that an indexed lookup can find, and nobody is rebuilding, is
\* complete.
THEOREM CacheComplete == Spec => []CachedComplete
<1>1. IInv => CachedComplete
  <2> SUFFICES ASSUME IInv, NEW p \in PostIds, index[p] # NoObj, lock[index[p]] = NoThread
               PROVE  Complete(index[p])
    BY DEF CachedComplete
  <2>1. TypeOK /\ LockInv /\ PrivateInv /\ RefcountExact /\ DataInv
    BY DEF IInv
  <2>2. index[p] \in Objs /\ Indexed(index[p])
    BY <2>1 DEF TypeOK, Indexed
  <2>3. refcnt[index[p]] > 0
    BY <2>1, <2>2, Counting
  <2>4. \A t \in Threads : cur[t] = index[p] => ~Loading(t) /\ ~Locking(t)
    BY <2>1, <2>2, ConstantsAssumption DEF PrivateInv, LockInv
  <2>5. \A t \in Threads : Partial(t) => Loading(t) \/ Locking(t)
    BY <2>1 DEF Partial, Loading, Locking, TypeOK
  <2> QED
    BY <2>5, <2>4, <2>3, <2>2, <2>1 DEF DataInv
<1>2. QED
  BY <1>1, Invariance, PTL

\* Every response is built from a completely refreshed post.
THEOREM ResponsesComplete == Spec => []ServeComplete
<1>1. IInv => ServeComplete
  <2> SUFFICES ASSUME IInv, NEW t \in Threads, pc[t] = "store"
               PROVE  Complete(cur[t])
    BY DEF ServeComplete
  <2>1. cur[t] \in Objs /\ refcnt[cur[t]] > 0
    BY Held
  <2>2. \A u \in Threads : cur[u] = cur[t] => ~Partial(u)
    BY Alone DEF Partial, Loading, Locking, IInv, TypeOK
  <2>3. QED
    BY <2>1, <2>2 DEF IInv, DataInv
<1>2. QED
  BY <1>1, Invariance, PTL

\* Every response is at least as new as the files were when it was requested.
THEOREM ResponsesFresh == Spec => []FreshServe
<1>1. IInv => FreshServe
  BY DEF IInv, FreshInv, FreshServe
<1>2. QED
  BY <1>1, Invariance, PTL

\* The index holds published posts under their own id; previews are private.
THEOREM IndexIsSound == Spec => []IndexSound
<1>1. IInv => IndexSound
  BY DEF IInv
<1>2. QED
  BY <1>1, Invariance, PTL

\* What free_all_posts leaves: no request, and an empty index.
DownInv == phase = "down" => (\A t \in Threads : pc[t] = "idle") /\ (\A p \in PostIds : index[p] = NoObj)

\* free_all_posts frees every post there is.
THEOREM NoPostIsLeaked == Spec => []NoLeakAtExit
<1>1. Init => DownInv
  BY DEF Init, DownInv
<1>2. IInv /\ DownInv /\ [Next]_vars => DownInv'
  <2> SUFFICES ASSUME IInv, DownInv, [Next]_vars PROVE DownInv'
    OBVIOUS
  <2>1. TypeOK
    BY DEF IInv
  <2> USE <2>1 DEF TypeOK, DownInv, procVars
  <2>2. ASSUME NEW t \in Threads, StartPreload(t) \/ StartGetPost(t) \/ StartListing(t)
        PROVE  DownInv'
    BY <2>2 DEF StartPreload, StartGetPost, StartListing
  <2>3. ASSUME NEW t \in Threads, Run(t)
        PROVE  DownInv'
    <3>1. pc[t] # "idle" /\ UNCHANGED phase
      BY <2>3 DEF Run, Lookup, Alloc, AllocFails, CheckRefresh, ReadLisp, ReadTex,
         FileMissing, LispMalformed, RefreshAborts, Insert, InsertFails, Destroy,
         NextPost, LockPost, StoreVars, PutRef, At, Files
    <3>2. QED
      BY <3>1
  <2>4. CASE EnterService \/ StopService
    BY <2>4 DEF EnterService, StopService
  <2>5. CASE FreeAllPosts
    BY <2>5 DEF FreeAllPosts, AllIdle
  <2>6. CASE \E p \in PostIds, f \in Files : EditFile(p, f)
    BY <2>6 DEF EditFile
  <2>7. CASE UNCHANGED vars
    BY <2>7 DEF vars
  <2>8. QED
    BY <2>2, <2>3, <2>4, <2>5, <2>6, <2>7 DEF Next, Ended
<1>3. IInv /\ DownInv => NoLeakAtExit
  <2> SUFFICES ASSUME IInv, DownInv, phase = "down", NEW o \in Objs
               PROVE  refcnt[o] = 0
    BY DEF NoLeakAtExit
  <2>1. Holders(o) = {}
    BY ConstantsAssumption DEF DownInv, IInv, ControlInv, Holders
  <2>2. ~Indexed(o)
    BY ConstantsAssumption DEF DownInv, Indexed
  <2>3. QED
    BY <2>1, <2>2, FS_EmptySet DEF IInv, RefcountExact
<1>4. QED
  BY <1>1, <1>2, <1>3, Invariance, PTL DEF Spec

\* No request evicts or replaces a post in the index.
THEOREM IndexIsKept == Spec => IndexKeeps
<1>1. TypeOK /\ [Next]_vars
        => [\A p \in PostIds : index[p] # NoObj => index'[p] = index[p] \/ phase' = "down"]_vars
  <2> SUFFICES ASSUME TypeOK, [Next]_vars, NEW p \in PostIds, index[p] # NoObj
               PROVE  index'[p] = index[p] \/ phase' = "down"
    OBVIOUS
  <2>insert. ASSUME NEW t \in Threads, Insert(t)
             PROVE  index'[p] = index[p]
    BY <2>insert DEF Insert, TypeOK
  <2>exit. FreeAllPosts => phase' = "down"
    BY DEF FreeAllPosts
  <2>request. ASSUME NEW t \in Threads,
                     StartPreload(t) \/ StartGetPost(t) \/ StartListing(t) \/ (Run(t) /\ ~Insert(t))
              PROVE  index' = index
    BY <2>request DEF StartPreload, StartGetPost, StartListing, Run, Lookup, Alloc, AllocFails,
       CheckRefresh, ReadLisp, ReadTex, FileMissing, LispMalformed, RefreshAborts,
       InsertFails, Destroy, NextPost, LockPost, StoreVars, PutRef
  <2>other. ASSUME \/ EnterService
                   \/ StopService
                   \/ \E q \in PostIds, f \in Files : EditFile(q, f)
                   \/ vars' = vars
            PROVE  index' = index
    BY <2>other DEF EnterService, StopService, EditFile, vars
  <2> QED
    BY <2>insert, <2>exit, <2>request, <2>other DEF Next, Ended
<1>2. QED
  BY <1>1, TypeCorrect, PTL DEF Spec, IndexKeeps

-----------------------------------------------------------------------------
(* Startup.  It cannot run into index_insert_post's -EEXIST if no two       *)
(* entries of posts/ have the same id: each id is then loaded by one        *)
(* thread, and before that it is neither in the index nor under way.        *)

Distinct == \A d, e \in Dirents : DirId[d] = DirId[e] => d = e

\* on the way to the index, where load_post has a post, and where it has not
WithPost == {"check", "lisp", "tex", "insert"}
Before == {"lookup", "alloc"} \cup WithPost

\* all requests are preloads, and no two are for the same post
PreloadInv ==
  /\ abort # "eexist"
  /\ \A t \in Threads :
       /\ todo[t] = {}
       /\ pc[t] # "idle" => kind[t] = "preload" /\ pc[t] \in Before \cup {"destroy", "put"}
       /\ pc[t] \in {"check", "lisp", "tex"} => ctx[t] = "load"
       /\ pc[t] \in WithPost => postId[cur[t]] = want[t]
       /\ pc[t] \in Before =>
            /\ index[want[t]] = NoObj
            /\ \A d \in pending : DirId[d] # want[t]
            /\ \A u \in Threads : pc[u] \in Before /\ want[u] = want[t] => u = t
  /\ \A d \in pending : index[DirId[d]] = NoObj

StartupInv == phase = "load" /\ Distinct => PreloadInv

\* t goes on, in the index there is nothing new
LEMMA WorkerStep ==
  ASSUME PreloadInv, NEW t \in Threads,
         UNCHANGED <<todo, pending, index>>, abort' # "eexist",
         \A u \in Threads \ {t} : /\ pc'[u] = pc[u] /\ kind'[u] = kind[u] /\ want'[u] = want[u]
                                  /\ ctx'[u] = ctx[u]
                                  /\ pc[u] \in WithPost => postId'[cur'[u]] = postId[cur[u]],
         pc'[t] # "idle" => kind'[t] = "preload" /\ pc'[t] \in Before \cup {"destroy", "put"},
         pc'[t] \in {"check", "lisp", "tex"} => ctx'[t] = "load",
         pc'[t] \in WithPost => postId'[cur'[t]] = want'[t],
         pc'[t] \in Before => pc[t] \in Before /\ want'[t] = want[t]
  PROVE  PreloadInv'
<1> USE DEF PreloadInv
<1>1. \A u \in Threads : pc'[u] \in Before => pc[u] \in Before /\ want'[u] = want[u]
  OBVIOUS
<1>2. \A u \in Threads :
        /\ todo'[u] = {}
        /\ pc'[u] # "idle" => kind'[u] = "preload" /\ pc'[u] \in Before \cup {"destroy", "put"}
        /\ pc'[u] \in {"check", "lisp", "tex"} => ctx'[u] = "load"
        /\ pc'[u] \in WithPost => postId'[cur'[u]] = want'[u]
  OBVIOUS
<1>3. \A u \in Threads : pc'[u] \in Before =>
        /\ index'[want'[u]] = NoObj
        /\ \A d \in pending' : DirId[d] # want'[u]
        /\ \A v \in Threads : pc'[v] \in Before /\ want'[v] = want'[u] => v = u
  BY <1>1
<1> QED BY <1>2, <1>3

\* what a thread loads is a post id
LEMMA WantIsId ==
  ASSUME IInv, PreloadInv, NEW t \in Threads, pc[t] \in Before
  PROVE  want[t] \in PostIds
<1>1. CASE pc[t] \in {"lookup", "alloc"}
  BY <1>1 DEF IInv, ControlInv
<1>2. CASE pc[t] \in WithPost
  <2>1. cur[t] \in Objs /\ refcnt[cur[t]] > 0
    BY <1>2, Held DEF WithPost, IInv, ControlInv
  <2> QED BY <1>2, <2>1 DEF PreloadInv, IInv, IdInv
<1> QED BY <1>1, <1>2 DEF Before

LEMMA StartupStep ==
  ASSUME IInv, StartupInv, [Next]_vars
  PROVE  StartupInv'
<1> SUFFICES ASSUME phase' = "load", Distinct PROVE PreloadInv'
  BY DEF StartupInv, Distinct
<1>1. TypeOK /\ ControlInv
  BY DEF IInv
<1>2. phase = "load"
  <2>1. ASSUME NEW t \in Threads, Run(t) PROVE phase = "load"
    BY <2>1 DEF Run, Lookup, Alloc, AllocFails, CheckRefresh, ReadLisp, ReadTex, FileMissing,
                LispMalformed, RefreshAborts, Insert, InsertFails, Destroy, NextPost, LockPost,
                StoreVars, PutRef, procVars
  <2>2. ASSUME NEW t \in Threads, StartPreload(t) \/ StartGetPost(t) \/ StartListing(t)
        PROVE  phase = "load"
    BY <2>2 DEF StartPreload, StartGetPost, StartListing, procVars
  <2>3. CASE EnterService \/ StopService \/ FreeAllPosts \/ Ended \/ UNCHANGED vars
    BY <2>3 DEF EnterService, StopService, FreeAllPosts, Ended, vars, procVars
  <2>4. ASSUME NEW p \in PostIds, NEW f \in Files, EditFile(p, f) PROVE phase = "load"
    BY <2>4 DEF EditFile, procVars
  <2> QED BY <2>1, <2>2, <2>3, <2>4 DEF Next
<1>3. PreloadInv
  BY <1>2 DEF StartupInv
<1>4. /\ pc \in [Threads -> Stages] /\ want \in [Threads -> PostIds \cup {NoPost}]
      /\ kind \in [Threads -> {"none", "preload", "story", "preview", "listing"}]
      /\ ctx \in [Threads -> {"load", "serve"}] /\ cur \in [Threads -> Objs \cup {NoObj}]
      /\ postId \in [Objs -> PostIds \cup {NoPost}]
      /\ index \in [PostIds -> Objs \cup {NoObj}] /\ pending \subseteq Dirents
  BY <1>1 DEF TypeOK
<1>5. \A t \in Threads : pc[t] # "idle" => kind[t] = "preload" /\ pc[t] \in Before \cup {"destroy", "put"}
  BY <1>3 DEF PreloadInv
<1>6. \A t \in Threads : pc[t] \in {"check", "lisp", "tex"} => ctx[t] = "load"
  BY <1>3 DEF PreloadInv
<1>7. \A t \in Threads : pc[t] \in WithPost => postId[cur[t]] = want[t]
  BY <1>3 DEF PreloadInv
<1>8. abort # "eexist" /\ \A t \in Threads : todo[t] = {}
  BY <1>3 DEF PreloadInv
<1> USE DEF WithPost, Before, diskVars, postVars, threadVars, procVars
<1>9. ASSUME NEW t \in Threads, StartPreload(t) PROVE PreloadInv'
  <2>1. PICK d \in pending : pending' = pending \ {d} /\ Begin(t, "preload", DirId[d], "lookup")
    BY <1>9 DEF StartPreload
  <2>2. UNCHANGED <<postId, index, ctx, cur, todo, abort>>
    BY <1>9 DEF StartPreload
  <2>3. /\ kind'[t] = "preload" /\ want'[t] = DirId[d] /\ pc'[t] = "lookup"
        /\ \A u \in Threads \ {t} : kind'[u] = kind[u] /\ want'[u] = want[u] /\ pc'[u] = pc[u]
    BY <1>4, <2>1 DEF Begin
  <2>4. index[DirId[d]] = NoObj /\ \A e \in pending' : DirId[e] # DirId[d]
    BY <1>3, <1>4, <2>1 DEF PreloadInv, Distinct
  <2>5. \A u \in Threads : pc[u] \in Before => want[u] # DirId[d]
    BY <1>3, <2>1 DEF PreloadInv
  <2>6. \A u \in Threads : pc'[u] \in Before =>
          /\ index'[want'[u]] = NoObj
          /\ \A e \in pending' : DirId[e] # want'[u]
          /\ \A v \in Threads : pc'[v] \in Before /\ want'[v] = want'[u] => v = u
    <3>1. ASSUME NEW u \in Threads \ {t}, pc[u] \in Before
          PROVE  /\ index[want[u]] = NoObj /\ \A e \in pending' : DirId[e] # want[u]
                 /\ \A v \in Threads \ {t} : pc[v] \in Before /\ want[v] = want[u] => v = u
      BY <1>3, <2>1, <3>1 DEF PreloadInv
    <3> QED BY <2>2, <2>3, <2>4, <2>5, <3>1
  <2>7. \A u \in Threads :
          /\ todo'[u] = {}
          /\ pc'[u] # "idle" => kind'[u] = "preload" /\ pc'[u] \in Before \cup {"destroy", "put"}
          /\ pc'[u] \in {"check", "lisp", "tex"} => ctx'[u] = "load"
          /\ pc'[u] \in WithPost => postId'[cur'[u]] = want'[u]
    BY <1>5, <1>6, <1>7, <1>8, <2>2, <2>3
  <2>8. abort' # "eexist" /\ \A e \in pending' : index'[DirId[e]] = NoObj
    BY <1>3, <2>1, <2>2 DEF PreloadInv
  <2> QED BY <2>6, <2>7, <2>8 DEF PreloadInv
<1>10. ASSUME NEW t \in Threads, Lookup(t) PROVE PreloadInv'
  <2>1. pc[t] = "lookup" /\ index[want[t]] = NoObj
    BY <1>3, <1>10 DEF Lookup, At, PreloadInv
  <2>2. /\ pc' = [pc EXCEPT ![t] = "alloc"]
        /\ UNCHANGED <<cur, todo, pending, index, abort, kind, want, ctx, postId>>
    BY <1>10, <2>1 DEF Lookup
  <2> QED BY <1>3, <1>4, <1>5, <1>8, <2>1, <2>2, WorkerStep
<1>11. ASSUME NEW t \in Threads, Alloc(t) PROVE PreloadInv'
  <2>1. PICK o \in Objs : /\ refcnt[o] = 0 /\ postId' = [postId EXCEPT ![o] = want[t]]
                          /\ cur' = [cur EXCEPT ![t] = o]
    BY <1>11 DEF Alloc
  <2>2. /\ pc[t] = "alloc" /\ pc' = [pc EXCEPT ![t] = "check"] /\ ctx' = [ctx EXCEPT ![t] = "load"]
        /\ UNCHANGED <<todo, pending, index, abort, kind, want>>
    BY <1>11 DEF Alloc, At
  <2>3. \A u \in Threads : cur[u] # o
    BY <2>1, FreeUnheld DEF Holders
  <2>4. \A u \in Threads \ {t} : pc[u] \in WithPost => postId'[cur'[u]] = postId[cur[u]]
    <3>1. \A u \in Threads : pc[u] \in WithPost => cur[u] \in Objs
      BY <1>1, <1>4 DEF ControlInv
    <3> QED BY <1>4, <2>1, <2>3, <3>1
  <2>5. pc'[t] = "check" /\ ctx'[t] = "load" /\ postId'[cur'[t]] = want[t]
    BY <1>4, <2>1, <2>2
  <2>6. \A u \in Threads \ {t} : pc'[u] = pc[u] /\ ctx'[u] = ctx[u]
    BY <1>4, <2>2
  <2> QED BY <1>3, <1>5, <1>8, <2>2, <2>4, <2>5, <2>6, WorkerStep
<1>12. ASSUME NEW t \in Threads, CheckRefresh(t) \/ ReadLisp(t) \/ ReadTex(t) PROVE PreloadInv'
  <2>1. /\ pc[t] \in {"check", "lisp", "tex"} /\ pc' = [pc EXCEPT ![t] = pc'[t]]
        /\ pc'[t] \in {"lisp", "tex", "insert"}
        /\ UNCHANGED <<cur, todo, pending, index, abort, kind, want, ctx, postId>>
    BY <1>4, <1>6, <1>12 DEF CheckRefresh, ReadLisp, ReadTex, At, Refreshed
  <2> QED BY <1>3, <1>4, <1>5, <1>6, <1>7, <1>8, <2>1, WorkerStep
<1>13. ASSUME NEW t \in Threads, FileMissing(t) \/ LispMalformed(t) PROVE PreloadInv'
  <2>1. pc[t] \in {"lisp", "tex"} /\ ctx[t] = "load"
    BY <1>6, <1>13 DEF FileMissing, LispMalformed, At, Files
  <2>2. /\ pc' = [pc EXCEPT ![t] = "destroy"]
        /\ UNCHANGED <<cur, todo, pending, index, abort, kind, want, ctx, postId>>
    BY <1>13, <2>1 DEF FileMissing, LispMalformed, RefreshFails
  <2> QED BY <1>3, <1>4, <1>5, <1>8, <2>1, <2>2, WorkerStep
<1>14. ASSUME NEW t \in Threads, Insert(t) PROVE PreloadInv'
  <2>1. pc[t] = "insert" /\ UNCHANGED <<cur, todo, pending, kind, want, ctx, postId>>
    BY <1>14 DEF Insert, At
  <2>2. postId[cur[t]] = want[t] /\ index[want[t]] = NoObj /\ Loaded(t) = "put"
    BY <1>3, <1>5, <1>7, <2>1 DEF PreloadInv, Loaded
  <2>3. pc' = [pc EXCEPT ![t] = "put"] /\ abort' = abort
    BY <1>14, <2>2 DEF Insert
  <2>4. CASE index' = index
    BY <1>3, <1>4, <1>5, <1>8, <2>1, <2>3, <2>4, WorkerStep
  <2>5. CASE index' = [index EXCEPT ![want[t]] = cur[t]]
    <3>1. \A p \in PostIds : p # want[t] => index'[p] = index[p]
      BY <1>4, <2>5
    <3>2. \A d \in pending : DirId[d] \in PostIds /\ DirId[d] # want[t] /\ index[DirId[d]] = NoObj
      BY <1>3, <1>4, <2>1, ConstantsAssumption DEF PreloadInv
    <3>3. pc'[t] = "put" /\ \A u \in Threads \ {t} : pc'[u] = pc[u]
      BY <1>4, <2>3
    <3>4. ASSUME NEW u \in Threads, pc'[u] \in Before
          PROVE  /\ index'[want'[u]] = NoObj
                 /\ \A d \in pending' : DirId[d] # want'[u]
                 /\ \A v \in Threads : pc'[v] \in Before /\ want'[v] = want'[u] => v = u
      <4>1. u # t /\ pc[u] \in Before
        BY <3>3, <3>4
      <4>2. /\ want[u] # want[t] /\ index[want[u]] = NoObj
            /\ \A d \in pending : DirId[d] # want[u]
            /\ \A v \in Threads : pc[v] \in Before /\ want[v] = want[u] => v = u
        BY <1>3, <2>1, <4>1 DEF PreloadInv
      <4>3. want[u] \in PostIds
        BY <1>3, <4>1, WantIsId
      <4>4. index'[want[u]] = NoObj
        BY <3>1, <4>2, <4>3
      <4>5. \A v \in Threads : pc'[v] \in Before => pc[v] \in Before
        BY <3>3
      <4> QED BY <2>1, <4>2, <4>4, <4>5
    <3>5. \A u \in Threads :
            /\ todo'[u] = {}
            /\ pc'[u] # "idle" => kind'[u] = "preload" /\ pc'[u] \in Before \cup {"destroy", "put"}
            /\ pc'[u] \in {"check", "lisp", "tex"} => ctx'[u] = "load"
            /\ pc'[u] \in WithPost => postId'[cur'[u]] = want'[u]
      BY <1>5, <1>6, <1>7, <1>8, <2>1, <3>3
    <3>6. abort' # "eexist" /\ \A d \in pending' : index'[DirId[d]] = NoObj
      BY <1>8, <2>1, <2>3, <3>1, <3>2
    <3> QED BY <3>4, <3>5, <3>6 DEF PreloadInv
  <2> QED BY <1>14, <2>2, <2>4, <2>5 DEF Insert
<1>15. ASSUME NEW t \in Threads, AllocFails(t) \/ Destroy(t) \/ PutRef(t) PROVE PreloadInv'
  <2>1. /\ Finish(t) /\ UNCHANGED <<todo, pending, index, abort, ctx, postId>>
        /\ \A u \in Threads \ {t} : cur'[u] = cur[u]
    BY <1>4, <1>8, <1>15 DEF AllocFails, Destroy, PutRef
  <2>2. pc'[t] = "idle" /\ \A u \in Threads \ {t} : pc'[u] = pc[u] /\ kind'[u] = kind[u] /\ want'[u] = want[u]
    BY <1>4, <2>1 DEF Finish
  <2> QED BY <1>3, <1>8, <2>1, <2>2, WorkerStep
<1>16. CASE UNCHANGED <<cur, todo, pending, index, kind, want, ctx, postId, pc>> /\ abort' # "eexist"
  BY <1>3, <1>16 DEF PreloadInv
<1>17. ASSUME NEW t \in Threads, RefreshAborts(t) \/ InsertFails(t) PROVE PreloadInv'
  BY <1>16, <1>17 DEF RefreshAborts, InsertFails
<1>18. ASSUME NEW t \in Threads
       PROVE  ~StartGetPost(t) /\ ~StartListing(t) /\ ~NextPost(t) /\ ~LockPost(t) /\ ~StoreVars(t)
  BY <1>2, <1>5 DEF StartGetPost, StartListing, NextPost, LockPost, StoreVars, At
<1>19. CASE \E p \in PostIds, f \in Files : EditFile(p, f)
  BY <1>8, <1>16, <1>19 DEF EditFile
<1>20. CASE UNCHANGED vars
  BY <1>8, <1>16, <1>20 DEF vars
<1>21. ~EnterService /\ ~StopService /\ ~FreeAllPosts
  BY <1>2 DEF EnterService, StopService, FreeAllPosts
<1> QED BY <1>9, <1>10, <1>11, <1>12, <1>13, <1>14, <1>15, <1>17, <1>18, <1>19, <1>20, <1>21
        DEF Next, Run, Ended

\* load_all_posts and load_post: no assertion of the index fails at startup.
THEOREM StartupIsSafe == Spec => []StartupInsertsOnce
<1>1. ASSUME Init PROVE StartupInv
  <2>1. /\ abort = "none" /\ pending = Dirents /\ index = [p \in PostIds |-> NoObj]
        /\ pc = [t \in Threads |-> "idle"] /\ todo = [t \in Threads |-> {}]
    BY <1>1 DEF Init
  <2>2. \A t \in Threads : pc[t] = "idle" /\ todo[t] = {}
    BY <2>1
  <2>3. \A d \in pending : index[DirId[d]] = NoObj
    BY <2>1, ConstantsAssumption
  <2> QED BY <2>1, <2>2, <2>3 DEF StartupInv, PreloadInv, Before, WithPost
<1>2. IInv /\ StartupInv => StartupInsertsOnce
  BY DEF StartupInv, PreloadInv, Distinct, StartupInsertsOnce
<1>3. IInv /\ StartupInv /\ [Next]_vars => StartupInv'
  BY StartupStep
<1> QED BY <1>1, <1>2, <1>3, Invariance, PTL DEF Spec
=============================================================================
