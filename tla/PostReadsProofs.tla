-------------------------- MODULE PostReadsProofs --------------------------
(***************************************************************************)
(* PostCache implements PostReads, for any number of threads, posts and    *)
(* struct posts: behind the cache every request reads the files for        *)
(* itself.                                                                 *)
(***************************************************************************)
EXTENDS PostCacheProofs

Working == {"lock", "check", "lisp", "tex", "store"}

\* a request of each kind, and what its thread has at hand
KindOK(t) ==
  /\ kind[t] = "none" <=> pc[t] = "idle"
  /\ kind[t] # "listing" => todo[t] = {} /\ pc[t] # "next"
  /\ kind[t] = "preview" => pc[t] # "lookup"
  /\ kind[t] = "preload" =>
       /\ pc[t] \notin {"lock", "store"}
       /\ pc[t] \in {"check", "lisp", "tex"} => ctx[t] = "load"
  /\ kind[t] = "listing" =>
       /\ pc[t] \in Working \cup {"next", "put"}
       /\ pc[t] \in {"check", "lisp", "tex"} => ctx[t] = "serve"
       /\ \A o \in Objs : t \in Holders(o) => Indexed(o)
  /\ kind[t] \in {"preload", "story", "preview"} =>
       /\ want[t] \in PostIds
       /\ cur[t] \in Objs => /\ postId[cur[t]] = want[t]
                             /\ preview[cur[t]] <=> kind[t] = "preview"

KindInv == \A t \in Threads : KindOK(t)

\* nothing is newer than the files
RevInv ==
  \A o \in Objs : refcnt[o] > 0 =>
    \A f \in Files : files[o][f] <= rev[postId[o]][f] /\ content[o][f] <= rev[postId[o]][f]

Step(t) == StartPreload(t) \/ StartGetPost(t) \/ StartListing(t) \/ Run(t)

-----------------------------------------------------------------------------
(* What a step leaves alone *)

\* what a thread u sees of its own state and posts
Kept(u) ==
  /\ pc'[u] = pc[u] /\ kind'[u] = kind[u] /\ want'[u] = want[u] /\ ctx'[u] = ctx[u]
  /\ cur'[u] = cur[u] /\ todo'[u] = todo[u] /\ start'[u] = start[u]
  /\ \A o \in Objs : u \in Holders(o) => postId'[o] = postId[o] /\ preview'[o] = preview[o]
  /\ pc[u] = "store" => content'[cur[u]] = content[cur[u]]

\* Only Alloc makes a post another one, and it takes one that nobody has;
\* only the two reads change a post's data, and no other thread copies it then.
LEMMA Others ==
  ASSUME IInv, NEW t \in Threads, Step(t), NEW u \in Threads, u # t
  PROVE  Kept(u)
<1>1. TypeOK /\ ControlInv
  BY DEF IInv
<1>2. CASE Alloc(t)
  <2>1. PICK o \in Objs :
          /\ refcnt[o] = 0
          /\ postId' = [postId EXCEPT ![o] = want[t]]
          /\ preview' = [preview EXCEPT ![o] = (kind[t] = "preview")]
          /\ content' = [content EXCEPT ![o] = NoFiles]
          /\ cur' = [cur EXCEPT ![t] = o]
    BY <1>2 DEF Alloc
  <2>2. u \notin Holders(o)
    BY <2>1, FreeUnheld
  <2>3. pc[u] = "store" => cur[u] # o
    BY <2>2, Held
  <2> QED BY <1>1, <1>2, <2>1, <2>2, <2>3 DEF Kept, Alloc, TypeOK, Holders, threadVars
<1>3. CASE ReadLisp(t) \/ ReadTex(t)
  <2>1. pc[t] \in {"lisp", "tex"} /\ cur[t] \in Objs
    BY <1>3, Held DEF ReadLisp, ReadTex, At
  <2>2. pc[u] = "store" => cur[u] # cur[t] /\ cur[u] \in Objs
    BY <2>1, Alone, Held DEF Loading, Locking, IInv, TypeOK
  <2>3. PICK f \in Files : Take(t, f)
    BY <1>3 DEF ReadLisp, ReadTex, Files
  <2>4. pc[u] = "store" => content'[cur[u]] = content[cur[u]]
    BY <1>1, <2>1, <2>2, <2>3 DEF Take, TypeOK
  <2>5. /\ UNCHANGED <<postId, preview, kind, want, ctx, cur, todo, start>>
        /\ pc'[u] = pc[u]
    BY <1>1, <1>3 DEF ReadLisp, ReadTex, TypeOK, threadVars
  <2> QED BY <2>4, <2>5 DEF Kept
<1>4. CASE CheckRefresh(t) \/ FileMissing(t) \/ LispMalformed(t) \/ RefreshAborts(t)
  BY <1>1, <1>4 DEF Kept, CheckRefresh, FileMissing, LispMalformed, RefreshAborts, RefreshFails, TypeOK,
                    threadVars, postVars
<1>5. CASE Lookup(t) \/ AllocFails(t) \/ Destroy(t) \/ PutRef(t)
  BY <1>1, <1>5 DEF Kept, Lookup, AllocFails, Destroy, PutRef, Finish, TypeOK, threadVars, postVars
<1>6. CASE Insert(t) \/ InsertFails(t) \/ NextPost(t) \/ LockPost(t) \/ StoreVars(t)
  BY <1>1, <1>6 DEF Kept, Insert, InsertFails, NextPost, LockPost, StoreVars, TypeOK, threadVars, postVars
<1>7. CASE StartPreload(t) \/ StartListing(t)
  BY <1>1, <1>7 DEF Kept, StartPreload, StartListing, Begin, TypeOK, postVars
<1>8. CASE StartGetPost(t)
  <2>1. PICK p \in PostIds, k \in {"story", "preview"}, s \in {"lookup", "alloc"} : Begin(t, k, p, s)
    BY <1>8 DEF StartGetPost
  <2> QED BY <1>1, <1>8, <2>1 DEF Kept, StartGetPost, Begin, TypeOK, postVars
<1> QED BY <1>2, <1>3, <1>4, <1>5, <1>6, <1>7, <1>8 DEF Step, Run

\* what was indexed still is
LEMMA StaysIndexed ==
  ASSUME IInv, NEW t \in Threads, Step(t), NEW o \in Objs, Indexed(o)
  PROVE  Indexed(o)'
<1>1. PICK p \in PostIds : index[p] = o
  BY DEF Indexed
<1>2. index'[p] = o
  <2>1. CASE Insert(t)
    BY <1>1, <2>1, ConstantsAssumption DEF Insert, IInv, TypeOK
  <2>2. CASE ~Insert(t)
    <3>1. index' = index
      BY <2>2 DEF Step, Run, StartPreload, StartGetPost, StartListing, Lookup, Alloc, AllocFails,
                  CheckRefresh, ReadLisp, ReadTex, FileMissing, LispMalformed, RefreshAborts,
                  InsertFails, Destroy, NextPost, LockPost, StoreVars, PutRef
    <3> QED BY <1>1, <3>1
  <2> QED BY <2>1, <2>2
<1> QED BY <1>2 DEF Indexed

-----------------------------------------------------------------------------
(* KindInv *)

LEMMA OthersKind ==
  ASSUME IInv, NEW t \in Threads, Step(t), NEW u \in Threads, u # t, KindOK(u)
  PROVE  KindOK(u)'
<1>1. Kept(u)
  BY Others
<1>2. \A o \in Objs : u \in Holders(o)' <=> u \in Holders(o)
  BY <1>1 DEF Kept, Holders
<1>3. \A o \in Objs : Indexed(o) => Indexed(o)'
  BY StaysIndexed
<1>4. cur[u] \in Objs => u \in Holders(cur[u])
  BY DEF Holders
<1> QED BY <1>1, <1>2, <1>3, <1>4 DEF KindOK, Kept

\* the step of a request's own thread
LEMMA OwnKind ==
  ASSUME IInv, NEW t \in Threads, KindOK(t), Step(t)
  PROVE  KindOK(t)'
<1>1. TypeOK /\ ControlInv /\ IndexSound
  BY DEF IInv
<1>2. \A o \in Objs : Indexed(o) => Indexed(o)'
  BY StaysIndexed
<1> USE ConstantsAssumption DEF KindOK, Working
<1>3. CASE StartPreload(t)
  <2>1. PICK d \in Dirents : Begin(t, "preload", DirId[d], "lookup")
    BY <1>1, <1>3 DEF StartPreload, TypeOK
  <2> QED BY <1>1, <1>3, <2>1 DEF StartPreload, At, Begin, TypeOK, ControlInv
<1>4. CASE StartGetPost(t)
  <2>1. PICK p \in PostIds : Begin(t, "story", p, "lookup") \/ Begin(t, "preview", p, "alloc")
    BY <1>4 DEF StartGetPost
  <2> QED BY <1>1, <1>4, <2>1 DEF StartGetPost, At, Begin, TypeOK, ControlInv
<1>5. CASE StartListing(t)
  <2>1. PICK S \in SUBSET {o \in Objs : Indexed(o) /\ listed[o]} : todo' = [todo EXCEPT ![t] = S]
    BY <1>5 DEF StartListing
  <2>2. pc[t] = "idle" /\ cur[t] = NoObj /\ cur' = cur /\ index' = index
    BY <1>1, <1>5 DEF StartListing, At, ControlInv
  <2>3. \A o \in Objs : t \in Holders(o)' => o \in S
    BY <1>1, <2>1, <2>2 DEF Holders, TypeOK
  <2>4. kind'[t] = "listing" /\ pc'[t] = "next"
    BY <1>1, <1>5 DEF StartListing, Begin, TypeOK
  <2> QED BY <1>2, <2>3, <2>4
<1>6. CASE Lookup(t)
  <2>1. pc[t] = "lookup" /\ want[t] \in PostIds /\ kind[t] \in {"preload", "story"} /\ todo[t] = {}
    BY <1>1, <1>6 DEF Lookup, At, ControlInv, TypeOK
  <2>2. UNCHANGED <<kind, want, todo, postId, preview>>
    BY <1>6 DEF Lookup, threadVars, postVars
  <2>3. CASE index[want[t]] # NoObj
    <3>1. cur'[t] = index[want[t]] /\ pc'[t] = IF kind[t] = "preload" THEN "put" ELSE "lock"
      BY <1>1, <1>6, <2>3 DEF Lookup, Loaded, TypeOK
    <3>2. postId[index[want[t]]] = want[t] /\ ~preview[index[want[t]]]
      BY <1>1, <2>1, <2>3 DEF IndexSound
    <3> QED BY <2>1, <2>2, <3>1, <3>2
  <2>4. CASE index[want[t]] = NoObj
    <3>1. cur'[t] = cur[t] /\ cur[t] = NoObj /\ pc'[t] = "alloc"
      BY <1>1, <1>6, <2>1, <2>4 DEF Lookup, TypeOK, ControlInv
    <3> QED BY <2>1, <2>2, <3>1
  <2> QED BY <2>3, <2>4
<1>7. CASE Alloc(t)
  <2>1. pc[t] = "alloc" /\ kind[t] \in {"preload", "story", "preview"} /\ todo[t] = {}
    BY <1>1, <1>7 DEF Alloc, At, TypeOK
  <2>2. PICK o \in Objs :
          /\ cur' = [cur EXCEPT ![t] = o]
          /\ postId' = [postId EXCEPT ![o] = want[t]]
          /\ preview' = [preview EXCEPT ![o] = (kind[t] = "preview")]
    BY <1>7 DEF Alloc
  <2>3. cur'[t] = o /\ postId'[o] = want[t] /\ (preview'[o] <=> kind[t] = "preview")
    BY <1>1, <2>2 DEF TypeOK
  <2>4. /\ kind' = kind /\ want' = want /\ todo' = todo
        /\ pc'[t] = "check" /\ ctx'[t] = "load"
    BY <1>1, <1>7 DEF Alloc, TypeOK
  <2> QED BY <2>1, <2>3, <2>4
<1>8. CASE AllocFails(t) \/ Destroy(t)
  <2>1. todo[t] = {} /\ todo' = todo /\ pc'[t] = "idle" /\ kind'[t] = "none"
    BY <1>1, <1>8 DEF AllocFails, Destroy, At, Finish, TypeOK, ControlInv, Loading
  <2> QED BY <2>1
<1>9. CASE CheckRefresh(t)
  BY <1>1, <1>2, <1>9, Held DEF CheckRefresh, At, Refreshed, TypeOK, threadVars, Holders
<1>10. CASE ReadLisp(t) \/ ReadTex(t)
  BY <1>1, <1>2, <1>10, Held DEF ReadLisp, ReadTex, At, Refreshed, TypeOK, threadVars, Holders
<1>11. CASE FileMissing(t) \/ LispMalformed(t) \/ RefreshAborts(t)
  BY <1>1, <1>2, <1>11, Held DEF FileMissing, LispMalformed, RefreshAborts, RefreshFails, At, Files, TypeOK,
                                  threadVars, postVars, Holders
<1>12. CASE Insert(t) \/ InsertFails(t)
  BY <1>1, <1>2, <1>12, Held DEF Insert, InsertFails, At, Loaded, TypeOK, threadVars, postVars, Holders
<1>13. CASE NextPost(t)
  BY <1>1, <1>2, <1>13 DEF NextPost, At, TypeOK, threadVars, postVars, Holders
<1>14. CASE LockPost(t) \/ StoreVars(t)
  BY <1>1, <1>2, <1>14, Held DEF LockPost, StoreVars, At, TypeOK, threadVars, postVars, Holders
<1>15. CASE PutRef(t)
  BY <1>1, <1>2, <1>15, Held DEF PutRef, Finish, At, TypeOK, threadVars, postVars, Holders
<1> QED BY <1>3, <1>4, <1>5, <1>6, <1>7, <1>8, <1>9, <1>10, <1>11, <1>12, <1>13, <1>14, <1>15 DEF Step, Run

LEMMA KindStep == IInv /\ KindInv /\ [Next]_vars => KindInv'
<1> SUFFICES ASSUME IInv, KindInv, [Next]_vars PROVE KindInv'
  OBVIOUS
<1>1. ASSUME NEW t \in Threads, Step(t) PROVE KindInv'
  BY <1>1, OthersKind, OwnKind DEF KindInv
<1>2. ASSUME UNCHANGED <<pc, kind, want, ctx, cur, todo, postId, preview, index>> PROVE KindInv'
  BY <1>2 DEF KindInv, KindOK, Holders, Indexed
<1>3. CASE EnterService \/ StopService
  BY <1>2, <1>3 DEF EnterService, StopService, threadVars, postVars
<1>4. CASE FreeAllPosts
  BY <1>4 DEF FreeAllPosts, AllIdle, threadVars, KindInv, KindOK
<1>5. ASSUME NEW p \in PostIds, NEW f \in Files, EditFile(p, f) PROVE KindInv'
  BY <1>2, <1>5 DEF EditFile, threadVars, postVars
<1>6. CASE Ended \/ UNCHANGED vars
  BY <1>2, <1>6 DEF Ended, vars
<1> QED BY <1>1, <1>3, <1>4, <1>5, <1>6 DEF Next, Step

-----------------------------------------------------------------------------
(* RevInv *)

LEMMA RevStep == IInv /\ RevInv /\ [Next]_vars => RevInv'
<1> SUFFICES ASSUME IInv, RevInv, [Next]_vars, NEW o \in Objs, refcnt'[o] > 0
             PROVE  (\A f \in Files : files[o][f] <= rev[postId[o]][f]
                                      /\ content[o][f] <= rev[postId[o]][f])'
  BY DEF RevInv
<1> DEFINE Bounded == \A f \in Files : files[o][f] <= rev[postId[o]][f]
                                       /\ content[o][f] <= rev[postId[o]][f]
<1>1. TypeOK /\ TypeOK' /\ IdInv /\ RefcountExact
  BY InductiveInv DEF IInv
<1>2. \A p \in PostIds, f \in Files : rev[p][f] \in Nat /\ rev'[p][f] \in Nat
  BY <1>1, ConstantsAssumption DEF TypeOK
<1>3. refcnt[o] > 0 => postId[o] \in PostIds /\ Bounded
  BY <1>1 DEF RevInv, IdInv
<1>4. ASSUME refcnt[o] > 0, UNCHANGED <<rev, postId, files, content>> PROVE Bounded'
  BY <1>3, <1>4
<1>5. ASSUME NEW t \in Threads, Alloc(t) PROVE Bounded'
  <2>1. PICK x \in Objs :
          /\ refcnt' = [refcnt EXCEPT ![x] = 1]
          /\ postId' = [postId EXCEPT ![x] = want[t]]
          /\ files' = [files EXCEPT ![x] = NoFiles]
          /\ content' = [content EXCEPT ![x] = NoFiles]
    BY <1>5 DEF Alloc
  <2>2. rev' = rev /\ want[t] \in PostIds
    BY <1>5 DEF Alloc, diskVars, At, IInv, ControlInv
  <2>3. CASE o = x
    BY <1>1, <1>2, <2>1, <2>2, <2>3 DEF TypeOK, NoFiles
  <2>4. CASE o # x
    <3>1. refcnt[o] > 0 /\ postId'[o] = postId[o] /\ files'[o] = files[o] /\ content'[o] = content[o]
      BY <1>1, <2>1, <2>4 DEF TypeOK
    <3> QED BY <1>3, <2>2, <3>1
  <2> QED BY <2>3, <2>4
<1>6. ASSUME NEW t \in Threads, CheckRefresh(t) PROVE Bounded'
  <2>1. UNCHANGED <<rev, refcnt, postId, content>> /\ (files' = files \/ files' = [files EXCEPT ![cur[t]] = NoFiles])
    BY <1>6 DEF CheckRefresh, diskVars
  <2>2. files'[o] = files[o] \/ files'[o] = NoFiles
    BY <1>1, <2>1 DEF TypeOK
  <2>3. \A f \in Files : NoFiles[f] = 0
    BY DEF NoFiles
  <2> QED BY <1>2, <1>3, <2>1, <2>2, <2>3
<1>7. ASSUME NEW t \in Threads, ReadLisp(t) \/ ReadTex(t) \/ LispMalformed(t) PROVE Bounded'
  <2>1. /\ UNCHANGED <<rev, refcnt, postId>>
        /\ \E g \in Files : Record(t, g) /\ (Take(t, g) \/ UNCHANGED content)
    BY <1>7 DEF ReadLisp, ReadTex, LispMalformed, diskVars, Files
  <2>2. PICK g \in Files : Record(t, g) /\ (Take(t, g) \/ UNCHANGED content)
    BY <2>1
  <2>3. \A f \in Files : /\ files'[o][f] \in {files[o][f], rev[postId[o]][f]}
                         /\ content'[o][f] \in {content[o][f], rev[postId[o]][f]}
    BY <1>1, <2>2 DEF Record, Take, TypeOK, Revs
  <2> QED BY <1>2, <1>3, <2>1, <2>3
<1>8. ASSUME NEW t \in Threads, Lookup(t) \/ Insert(t) \/ StartListing(t) PROVE Bounded'
  <2>1. UNCHANGED <<rev, postId, files, content>>
    BY <1>8 DEF Lookup, Insert, StartListing, diskVars, postVars
  <2>2. refcnt[o] > 0
    <3>1. CASE refcnt'[o] = refcnt[o]
      BY <3>1
    <3>2. CASE Lookup(t) /\ refcnt'[o] # refcnt[o]
      <4>1. o = index[want[t]] /\ want[t] \in PostIds
        BY <1>1, <3>2 DEF Lookup, TypeOK, At, IInv, ControlInv
      <4> QED BY <1>1, <4>1, Counting DEF Indexed
    <3>3. CASE Insert(t) /\ refcnt'[o] # refcnt[o]
      <4>1. o = cur[t] /\ pc[t] = "insert"
        BY <1>1, <3>3 DEF Insert, TypeOK, At
      <4> QED BY <4>1, Held
    <3>4. CASE StartListing(t) /\ refcnt'[o] # refcnt[o]
      <4>1. Indexed(o)
        BY <3>4 DEF StartListing
      <4> QED BY <1>1, <4>1, Counting
    <3> QED BY <1>8, <3>1, <3>2, <3>3, <3>4
  <2> QED BY <1>4, <2>1, <2>2
<1>9. ASSUME NEW t \in Threads, Destroy(t) \/ PutRef(t) PROVE Bounded'
  <2>1. UNCHANGED <<rev, postId, files, content>>
    BY <1>9 DEF Destroy, PutRef, diskVars, postVars
  <2>2. refcnt' = [refcnt EXCEPT ![cur[t]] = 0] \/ refcnt' = [refcnt EXCEPT ![cur[t]] = @ - 1]
    BY <1>9 DEF Destroy, PutRef
  <2>3. refcnt[o] \in Nat /\ refcnt'[o] \in {refcnt[o], 0, refcnt[o] - 1}
    BY <1>1, <2>2 DEF TypeOK
  <2>4. refcnt[o] > 0
    BY <2>3
  <2> QED BY <1>4, <2>1, <2>4
<1>10. CASE FreeAllPosts
  <2>1. UNCHANGED <<rev, postId, files, content>>
    BY <1>10 DEF FreeAllPosts, diskVars, postVars
  <2>2. refcnt[o] > 0
    BY <1>1, <1>10 DEF FreeAllPosts, TypeOK
  <2> QED BY <1>4, <2>1, <2>2
<1>11. ASSUME NEW p \in PostIds, NEW f \in Files, EditFile(p, f) PROVE Bounded'
  <2>1. UNCHANGED <<refcnt, postId, files, content>>
    BY <1>11 DEF EditFile, postVars
  <2>2. \A q \in PostIds, g \in Files : rev'[q][g] >= rev[q][g]
    BY <1>1, <1>2, <1>11 DEF EditFile, TypeOK
  <2>3. \A g \in Files : files[o][g] \in Nat /\ content[o][g] \in Nat
    BY <1>1, ConstantsAssumption DEF TypeOK, Revs
  <2> QED BY <1>2, <1>3, <2>1, <2>2, <2>3
<1>12. ASSUME UNCHANGED <<rev, refcnt, postId, files, content>> PROVE Bounded'
  BY <1>4, <1>12
<1>13. ASSUME NEW t \in Threads,
              \/ StartPreload(t) \/ StartGetPost(t) \/ AllocFails(t) \/ FileMissing(t) \/ RefreshAborts(t)
              \/ InsertFails(t) \/ NextPost(t) \/ LockPost(t) \/ StoreVars(t)
       PROVE  Bounded'
  BY <1>12, <1>13 DEF StartPreload, StartGetPost, AllocFails, FileMissing, RefreshAborts, InsertFails,
                      NextPost, LockPost, StoreVars, diskVars, postVars
<1>14. CASE EnterService \/ StopService \/ Ended \/ UNCHANGED vars
  BY <1>12, <1>14 DEF EnterService, StopService, Ended, vars, diskVars, postVars
<1> QED BY <1>5, <1>6, <1>7, <1>8, <1>9, <1>10, <1>11, <1>13, <1>14 DEF Next, Run

-----------------------------------------------------------------------------
(* Requests and pages *)

\* the request and the page of a thread that is left alone
LEMMA SameReader ==
  ASSUME IInv, NEW u \in Threads, Kept(u)
  PROVE  Asked'[u] = Asked[u] /\ Page'[u] = Page[u]
<1>1. TypeOK /\ ControlInv
  BY DEF IInv
<1>2. pc[u] \in {"lock", "check", "lisp", "tex", "store"} => cur[u] \in Objs
  BY Held
<1>3. \A o \in Objs : o \in todo[u] \/ o = cur[u] => postId'[o] = postId[o]
  BY DEF Kept, Holders
<1>4. todo[u] \subseteq Objs
  BY <1>1 DEF TypeOK
<1>5. Left(u)' = Left(u)
  <2> DEFINE S == todo[u] \cup (IF pc[u] \in {"lock", "check", "lisp", "tex", "store"} THEN {cur[u]} ELSE {})
  <2>1. S' = S
    BY DEF Kept
  <2>2. \A o \in S : postId'[o] = postId[o]
    BY <1>2, <1>3, <1>4
  <2> HIDE DEF S
  <2>3. {postId[o] : o \in S}' = {postId[o] : o \in S}
    BY <2>1, <2>2
  <2> USE DEF S
  <2>4. Left(u) = IF kind[u] = "listing" THEN {postId[o] : o \in S}
                  ELSE IF pc[u] = "put" THEN {} ELSE {want[u]}
    BY DEF Left
  <2>5. Left(u)' = IF kind'[u] = "listing" THEN {postId[o] : o \in S}'
                   ELSE IF pc'[u] = "put" THEN {} ELSE {want'[u]}
    BY DEF Left
  <2> HIDE DEF S
  <2> QED BY <2>3, <2>4, <2>5 DEF Kept
<1>6. Asked'[u] = Asked[u]
  BY <1>5 DEF Kept, Asked
<1>7. pc[u] = "store" => Sources(cur[u])' = Sources(cur[u]) /\ postId'[cur[u]] = postId[cur[u]]
  BY <1>2 DEF Kept, Sources, Holders
<1>8. Page'[u] = Page[u]
  BY <1>7 DEF Kept, Page
<1> QED BY <1>6, <1>8

\* a step concerns its own thread's request and page only
LEMMA OneReader ==
  ASSUME IInv, NEW t \in Threads, Step(t)
  PROVE  /\ Asked' = [Asked EXCEPT ![t] = Asked'[t]]
         /\ Page' = [Page EXCEPT ![t] = Page'[t]]
<1>1. \A u \in Threads : u # t => Asked'[u] = Asked[u] /\ Page'[u] = Page[u]
  BY Others, SameReader
<1>2. Asked' = [u \in Threads |-> Asked'[u]] /\ Asked = [u \in Threads |-> Asked[u]]
  BY DEF Asked
<1>3. Page' = [u \in Threads |-> Page'[u]] /\ Page = [u \in Threads |-> Page[u]]
  BY DEF Page
<1> QED BY <1>1, <1>2, <1>3

\* the fields of a request
LEMMA Serving ==
  ASSUME NEW t \in Threads, kind[t] \notin {"none", "preload"}
  PROVE  /\ Asked[t] = [kind |-> kind[t], left |-> Left(t), since |-> start[t]]
         /\ Asked[t].kind = kind[t] /\ Asked[t].left = Left(t) /\ Asked[t].since = start[t]
         /\ Asked[t] # Reads!NoRequest
<1>1. Asked[t] = [kind |-> kind[t], left |-> Left(t), since |-> start[t]]
  BY DEF Asked
<1>2. Reads!NoRequest.kind = "none"
  BY DEF Reads!NoRequest
<1> QED BY <1>1, <1>2

\* the posts of a listing are in the index, under their ids
LEMMA ListedApart ==
  ASSUME IInv, NEW o \in Objs, Indexed(o)
  PROVE  index[postId[o]] = o /\ ~preview[o]
BY ConstantsAssumption DEF IInv, IndexSound, Indexed

\* previews are shown to those who asked for one
LEMMA PartsAre ==
  ASSUME IInv, KindInv, NEW t \in Threads, kind[t] \notin {"none", "preload"}, cur[t] \in Objs
  PROVE  Sources(cur[t]) = Reads!Parts(kind[t])
<1>1. kind[t] \in {"story", "preview", "listing"} /\ KindOK(t)
  BY DEF IInv, TypeOK, KindInv
<1>2. CASE kind[t] = "listing"
  <2>1. Indexed(cur[t])
    BY <1>1, <1>2 DEF KindOK, Holders
  <2> QED BY <1>2, <2>1, ListedApart DEF Sources, Reads!Parts, Reads!Files, Files
<1>3. CASE kind[t] # "listing"
  BY <1>1, <1>3 DEF KindOK, Sources, Reads!Parts, Reads!Files, Files
<1> QED BY <1>2, <1>3

LEMMA Shows ==
  ASSUME IInv, IInv', KindInv, KindInv', RevInv', NEW t \in Threads, Step(t),
         pc[t] \in {"check", "tex"}, pc'[t] = "store",
         UNCHANGED <<rev, refcnt, kind, want, todo, cur, start, postId, preview>>
  PROVE  Reads!Show(t)
<1>1. KindOK(t) /\ kind[t] \notin {"none", "preload"}
  BY DEF KindInv, KindOK
<1>2. cur[t] \in Objs /\ postId[cur[t]] \in PostIds /\ refcnt'[cur[t]] > 0
  BY Held
<1> DEFINE o == cur[t]
           p == postId[o]
           parts == Reads!Parts(kind[t])
           data == [f \in parts |-> content'[o][f]]
<1>3. Sources(o) = parts /\ Sources(o)' = parts
  BY <1>1, <1>2, PartsAre DEF Sources
<1>4. parts \subseteq Files
  BY DEF Reads!Parts, Reads!Files, Files
<1>5. \A f \in parts : /\ content'[o][f] \in Nat /\ start[t][p][f] \in Nat /\ rev[p][f] \in Nat
  BY <1>2, <1>4, ConstantsAssumption DEF IInv, TypeOK, Revs
<1>6. \A f \in parts : content'[o][f] >= start[t][p][f]
  BY <1>2, <1>3 DEF IInv, FreshInv
<1>7. \A f \in parts : content'[o][f] <= rev[p][f]
  BY <1>2, <1>4 DEF RevInv
<1>8. \A f \in parts : data[f] \in start[t][p][f]..rev[p][f]
  BY <1>5, <1>6, <1>7
<1>9. p \in Left(t)
  <2>1. CASE kind[t] = "listing"
    BY <2>1 DEF Left
  <2>2. CASE kind[t] # "listing"
    BY <1>1, <1>2, <2>2 DEF Left, KindOK, IInv, TypeOK
  <2> QED BY <2>1, <2>2
<1>10. Asked' = Asked
  <2>1. Left(t)' = Left(t)
    BY <1>1 DEF Left
  <2>2. Asked'[t] = Asked[t]
    BY <2>1 DEF Asked
  <2>3. Asked = [u \in Threads |-> Asked[u]]
    BY DEF Asked
  <2> QED BY <2>2, <2>3, OneReader
<1>11. Page[t] = Reads!NoPage /\ Page'[t] = [post |-> p, data |-> data]
  BY <1>3 DEF Page, Reads!NoPage
<1>12. Page' = [Page EXCEPT ![t] = [post |-> p, data |-> data]]
  BY <1>11, OneReader
<1>13. data \in [parts -> UNION {start[t][p][f]..rev[p][f] : f \in parts}]
  BY <1>8
<1>14. Asked[t] # Reads!NoRequest /\ Page'[t] # Reads!NoPage
  <2>1. Reads!NoPage.post = "none" /\ DOMAIN Reads!NoPage = {"post"}
    BY DEF Reads!NoPage
  <2>2. DOMAIN Page'[t] = {"post", "data"}
    BY <1>11
  <2>3. {"post"} # {"post", "data"}
    OBVIOUS
  <2>4. Page'[t] # Reads!NoPage
    BY <2>1, <2>2, <2>3
  <2>5. Asked[t] # Reads!NoRequest
    BY <1>1, Serving
  <2> QED BY <2>4, <2>5
<1>15. /\ Asked[t].kind = kind[t] /\ Asked[t].left = Left(t) /\ Asked[t].since = start[t]
  BY <1>1, Serving
<1>16. parts = Reads!Parts(Asked[t].kind)
  BY <1>15
<1> HIDE DEF data, p, parts
<1>17. \E d \in [parts -> UNION {Asked[t].since[p][f]..rev[p][f] : f \in parts}] :
         /\ \A f \in parts : d[f] \in Asked[t].since[p][f]..rev[p][f]
         /\ Page' = [Page EXCEPT ![t] = [post |-> p, data |-> d]]
  BY <1>8, <1>12, <1>13, <1>15
<1>18. p \in Asked[t].left
  BY <1>9, <1>15
<1>19. \E q \in Asked[t].left :
         \E d \in [parts -> UNION {Asked[t].since[q][f]..rev[q][f] : f \in parts}] :
           /\ \A f \in parts : d[f] \in Asked[t].since[q][f]..rev[q][f]
           /\ Page' = [Page EXCEPT ![t] = [post |-> q, data |-> d]]
  BY <1>17, <1>18, Zenon
<1> QED BY <1>10, <1>11, <1>14, <1>16, <1>19, Zenon DEF Reads!Show

LEMMA HasShown ==
  ASSUME IInv, KindInv, NEW t \in Threads, StoreVars(t)
  PROVE  Reads!Shown(t)
<1>1. pc[t] = "store" /\ pc'[t] = "put" /\ UNCHANGED <<rev, kind, want, todo, cur, start, postId, preview>>
  BY DEF StoreVars, At, IInv, TypeOK, diskVars, threadVars, postVars
<1>2. KindOK(t) /\ kind[t] \notin {"none", "preload"} /\ cur[t] \in Objs
  BY <1>1, Held DEF KindInv, KindOK
<1>3. Page[t] = [post |-> postId[cur[t]], data |-> [f \in Sources(cur[t]) |-> content[cur[t]][f]]]
      /\ Page'[t] = Reads!NoPage
  BY <1>1 DEF Page, Reads!NoPage
<1>4. Left(t)' = Left(t) \ {postId[cur[t]]}
  <2>1. CASE kind[t] = "listing"
    <3>1. Left(t) = {postId[o] : o \in todo[t] \cup {cur[t]}} /\ Left(t)' = {postId[o] : o \in todo[t]}
      BY <1>1, <2>1 DEF Left
    <3>2. todo[t] \subseteq Objs /\ cur[t] \notin todo[t]
      BY DEF IInv, TypeOK, ControlInv
    <3>3. \A o \in todo[t] \cup {cur[t]} : o \in Objs /\ Indexed(o)
      BY <1>2, <2>1, <3>2 DEF KindOK, Holders
    <3>4. \A o \in todo[t] : postId[o] # postId[cur[t]]
      BY <3>2, <3>3, ListedApart
    <3> QED BY <3>1, <3>4
  <2>2. CASE kind[t] # "listing"
    BY <1>1, <1>2, <2>2 DEF Left, KindOK, IInv, TypeOK
  <2> QED BY <2>1, <2>2
<1>5. Asked[t] = [kind |-> kind[t], left |-> Left(t), since |-> start[t]]
      /\ Asked'[t] = [kind |-> kind[t], left |-> Left(t)', since |-> start[t]]
  BY <1>1, <1>2 DEF Asked
<1>6. Step(t)
  BY DEF Step, Run
<1>7. Page[t].post = postId[cur[t]] /\ Page[t] # Reads!NoPage
  BY <1>3 DEF Reads!NoPage
<1>8. Asked'[t] = [Asked[t] EXCEPT !.left = @ \ {Page[t].post}]
  BY <1>4, <1>5, <1>7
<1>9. Asked' = [Asked EXCEPT ![t].left = @ \ {Page[t].post}]
  BY <1>6, <1>8, OneReader
<1> QED BY <1>1, <1>3, <1>6, <1>7, <1>9, OneReader DEF Reads!Shown

\* the request is over
LEMMA Leaves ==
  ASSUME IInv, KindInv, NEW t \in Threads, Step(t), rev' = rev,
         kind[t] \notin {"none", "preload"}, kind[t] = "listing" => Left(t) = {},
         pc[t] # "store", pc'[t] = "idle", kind'[t] = "none"
  PROVE  Reads!Leave(t)
<1>1. Asked'[t] = Reads!NoRequest /\ Asked[t] # Reads!NoRequest
  BY Serving DEF Asked, Reads!NoRequest
<1>2. Page[t] = Reads!NoPage /\ Page'[t] = Page[t]
  BY DEF Page, Reads!NoPage
<1>3. Asked' = [Asked EXCEPT ![t] = Reads!NoRequest]
  BY <1>1, OneReader
<1>4. Page' = Page
  <2>1. Page = [u \in Threads |-> Page[u]]
    BY DEF Page
  <2> QED BY <1>2, <2>1, OneReader
<1> QED BY <1>1, <1>2, <1>3, <1>4, Serving DEF Reads!Leave

\* nothing is asked or shown
LEMMA Silent ==
  ASSUME IInv, NEW t \in Threads, Step(t), Asked'[t] = Asked[t], Page'[t] = Page[t]
  PROVE  Asked' = Asked /\ Page' = Page
<1>1. Asked = [u \in Threads |-> Asked[u]] /\ Page = [u \in Threads |-> Page[u]]
  BY DEF Asked, Page
<1> QED BY <1>1, OneReader

Kinds == {"story", "preview", "listing"}

LEMMA Asks ==
  ASSUME IInv, KindInv, NEW t \in Threads, Step(t),
         pc[t] = "idle", pc'[t] \notin {"idle", "store"}, rev' = rev,
         kind'[t] \in Kinds, start'[t] = rev, Left(t)' \in SUBSET PostIds,
         kind'[t] # "listing" => \E p \in PostIds : Left(t)' = {p}
  PROVE  Reads!Ask(t)
<1>1. Asked[t] = Reads!NoRequest
  BY DEF KindInv, KindOK, Asked, Reads!NoRequest
<1>2. Asked'[t] = [kind |-> kind'[t], left |-> Left(t)', since |-> rev]
  BY DEF Asked, Kinds
<1>3. Page'[t] = Page[t]
  BY DEF Page
<1>4. Page' = Page
  <2>1. Page = [u \in Threads |-> Page[u]]
    BY DEF Page
  <2> QED BY <1>3, <2>1, OneReader
<1>5. Asked' = [Asked EXCEPT ![t] = [kind |-> kind'[t], left |-> Left(t)', since |-> rev]]
  BY <1>2, OneReader
<1>6. Asked'[t] # Reads!NoRequest
  <2>1. Reads!NoRequest.kind = "none"
    BY DEF Reads!NoRequest
  <2>2. Asked'[t].kind = kind'[t] /\ kind'[t] # "none"
    BY <1>2 DEF Kinds
  <2> QED BY <2>1, <2>2
<1> QED BY <1>1, <1>4, <1>5, <1>6, Zenon DEF Reads!Ask, Reads!Kinds, Kinds

\* what a step of a thread is to the requests
LEMMA StepReads ==
  ASSUME IInv, IInv', KindInv, KindInv', RevInv', NEW t \in Threads, Step(t)
  PROVE  Reads!Ask(t) \/ Reads!Show(t) \/ Reads!Shown(t) \/ Reads!Leave(t)
         \/ UNCHANGED <<rev, Asked, Page>>
<1>1. TypeOK /\ ControlInv /\ KindOK(t)
  BY DEF IInv, KindInv
<1> DEFINE Quiet == Asked'[t] = Asked[t] /\ Page'[t] = Page[t]
<1>2. rev' = rev
  BY DEF Step, Run, StartPreload, StartGetPost, StartListing, Lookup, Alloc, AllocFails, CheckRefresh,
         ReadLisp, ReadTex, FileMissing, LispMalformed, RefreshAborts, Insert, InsertFails, Destroy,
         NextPost, LockPost, StoreVars, PutRef, diskVars
<1>3. ASSUME Quiet PROVE UNCHANGED <<rev, Asked, Page>>
  BY <1>2, <1>3, Silent
<1>4. ASSUME UNCHANGED <<kind, want, start>>, pc[t] # "store", pc'[t] # "store",
             kind[t] \notin {"none", "preload"} => Left(t)' = Left(t)
      PROVE  Quiet
  BY <1>4 DEF Asked, Page
<1>5. CASE StartPreload(t)
  <2>1. pc[t] = "idle" /\ pc'[t] = "lookup" /\ kind[t] = "none" /\ kind'[t] = "preload"
    BY <1>1, <1>5 DEF StartPreload, At, Begin, TypeOK, KindOK
  <2>2. Quiet
    BY <2>1 DEF Asked, Page
  <2> QED BY <1>3, <2>2
<1>6. CASE StartGetPost(t)
  <2>1. PICK p \in PostIds : Begin(t, "story", p, "lookup") \/ Begin(t, "preview", p, "alloc")
    BY <1>6 DEF StartGetPost
  <2>2. /\ pc[t] = "idle" /\ pc'[t] \in {"lookup", "alloc"} /\ kind'[t] \in {"story", "preview"}
        /\ want'[t] = p /\ start'[t] = rev
    BY <1>1, <1>6, <2>1 DEF StartGetPost, At, Begin, TypeOK
  <2>3. Left(t)' = {p}
    BY <2>2 DEF Left
  <2> QED BY <1>2, <2>2, <2>3, Asks DEF Kinds
<1>7. CASE StartListing(t)
  <2>1. PICK S \in SUBSET {o \in Objs : Indexed(o) /\ listed[o]} : todo' = [todo EXCEPT ![t] = S]
    BY <1>7 DEF StartListing
  <2>2. /\ pc[t] = "idle" /\ pc'[t] = "next" /\ kind'[t] = "listing" /\ start'[t] = rev
        /\ postId' = postId /\ todo'[t] = S
    BY <1>1, <1>7, <2>1 DEF StartListing, At, Begin, TypeOK, postVars
  <2>3. Left(t)' = {postId[o] : o \in S}
    BY <2>2 DEF Left
  <2>4. \A o \in S : postId[o] \in PostIds
    BY Counting DEF IInv, IdInv
  <2> QED BY <1>2, <2>2, <2>3, <2>4, Asks DEF Kinds
<1>8. CASE Lookup(t)
  <2>1. pc[t] = "lookup" /\ UNCHANGED <<kind, want, start>> /\ kind[t] \in {"preload", "story"}
    BY <1>1, <1>8 DEF Lookup, At, threadVars, KindOK, Working, TypeOK
  <2>2. pc'[t] \in {Loaded(t), "alloc"}
    BY <1>1, <1>8 DEF Lookup, TypeOK
  <2>3. pc'[t] # "store" /\ (kind[t] = "story" => pc'[t] # "put")
    BY <2>1, <2>2 DEF Loaded
  <2>4. kind[t] = "story" => Left(t)' = Left(t)
    BY <2>1, <2>3 DEF Left
  <2> QED BY <1>3, <1>4, <2>1, <2>3, <2>4
<1>9. CASE Alloc(t)
  <2>1. pc[t] = "alloc" /\ pc'[t] = "check" /\ UNCHANGED <<kind, want, start>> /\ kind[t] # "listing"
    BY <1>1, <1>9 DEF Alloc, At, KindOK, Working, TypeOK
  <2>2. Left(t)' = Left(t)
    BY <2>1 DEF Left
  <2> QED BY <1>3, <1>4, <2>1, <2>2
<1>10. CASE AllocFails(t) \/ Destroy(t)
  <2>1. pc[t] \in {"alloc", "destroy"} /\ pc'[t] = "idle" /\ kind'[t] = "none" /\ kind[t] \notin {"none", "listing"}
    BY <1>1, <1>10 DEF AllocFails, Destroy, At, Finish, KindOK, Working, TypeOK
  <2>2. CASE kind[t] = "preload"
    <3>1. Quiet
      BY <2>1, <2>2 DEF Asked, Page
    <3> QED BY <1>3, <3>1
  <2>3. CASE kind[t] # "preload"
    BY <1>2, <2>1, <2>3, Leaves
  <2> QED BY <2>2, <2>3
<1>11. CASE CheckRefresh(t) \/ ReadLisp(t) \/ ReadTex(t)
  <2>1. /\ pc[t] \in {"check", "lisp", "tex"}
        /\ pc'[t] \in {"lisp", "tex", Refreshed(t)}
        /\ UNCHANGED <<refcnt, kind, want, todo, cur, start, postId, preview>>
    BY <1>1, <1>11 DEF CheckRefresh, ReadLisp, ReadTex, At, threadVars, TypeOK
  <2>2. CASE pc'[t] = "store"
    <3>1. pc[t] \in {"check", "tex"}
      BY <1>1, <1>11, <2>2 DEF CheckRefresh, ReadLisp, ReadTex, At, TypeOK
    <3> QED BY <1>2, <2>1, <2>2, <3>1, Shows
  <2>3. CASE pc'[t] # "store"
    <3>1. kind[t] = "listing" => pc'[t] \in {"lisp", "tex"}
      BY <1>1, <2>1, <2>3 DEF Refreshed, KindOK
    <3>2. Left(t)' = Left(t)
      BY <2>1, <2>3, <3>1 DEF Left, Refreshed
    <3> QED BY <1>3, <1>4, <2>1, <2>3, <3>2
  <2> QED BY <2>2, <2>3
<1>12. CASE FileMissing(t) \/ LispMalformed(t) \/ RefreshAborts(t)
  <2>1. /\ pc[t] \in {"lisp", "tex"}
        /\ pc'[t] = pc[t] \/ (pc'[t] = "destroy" /\ ctx[t] = "load")
        /\ UNCHANGED <<kind, want, todo, cur, start, postId>>
    BY <1>1, <1>12 DEF FileMissing, LispMalformed, RefreshAborts, RefreshFails, At, Files, threadVars,
                       postVars, TypeOK
  <2>2. kind[t] = "listing" => pc'[t] = pc[t]
    BY <1>1, <2>1 DEF KindOK
  <2>3. Left(t)' = Left(t)
    BY <2>1, <2>2 DEF Left
  <2> QED BY <1>3, <1>4, <2>1, <2>3
<1>13. CASE Insert(t) \/ InsertFails(t)
  <2>1. /\ pc[t] = "insert" /\ pc'[t] \in {"insert", Loaded(t)}
        /\ UNCHANGED <<kind, want, start>> /\ kind[t] # "listing"
    BY <1>1, <1>13 DEF Insert, InsertFails, At, threadVars, KindOK, Working, TypeOK
  <2>2. pc'[t] # "store" /\ (kind[t] # "preload" => pc'[t] # "put")
    BY <2>1 DEF Loaded
  <2>3. kind[t] # "preload" => Left(t)' = Left(t)
    BY <2>1, <2>2 DEF Left
  <2> QED BY <1>3, <1>4, <2>1, <2>2, <2>3
<1>14. CASE NextPost(t)
  <2>1. PICK o \in todo[t] : cur' = [cur EXCEPT ![t] = o] /\ todo' = [todo EXCEPT ![t] = @ \ {o}]
    BY <1>14 DEF NextPost
  <2>2. /\ pc[t] = "next" /\ pc'[t] = "lock" /\ UNCHANGED <<kind, want, start, postId>>
        /\ kind[t] = "listing"
    BY <1>1, <1>14 DEF NextPost, At, threadVars, postVars, KindOK, TypeOK
  <2>3. cur'[t] = o /\ todo'[t] = todo[t] \ {o}
    BY <1>1, <2>1 DEF TypeOK
  <2>4. Left(t) = {postId[x] : x \in todo[t]} /\ Left(t)' = {postId[x] : x \in (todo[t] \ {o}) \cup {o}}
    BY <2>2, <2>3 DEF Left
  <2>5. (todo[t] \ {o}) \cup {o} = todo[t]
    OBVIOUS
  <2> QED BY <1>3, <1>4, <2>2, <2>4, <2>5
<1>15. CASE LockPost(t)
  <2>1. pc[t] = "lock" /\ pc'[t] = "check" /\ UNCHANGED <<kind, want, todo, cur, start, postId>>
    BY <1>1, <1>15 DEF LockPost, At, postVars, TypeOK
  <2>2. Left(t)' = Left(t)
    BY <2>1 DEF Left
  <2> QED BY <1>3, <1>4, <2>1, <2>2
<1>16. CASE StoreVars(t)
  BY <1>16, HasShown
<1>17. CASE PutRef(t)
  <2>1. pc[t] = "put" /\ todo' = todo /\ postId' = postId
    BY <1>17 DEF PutRef, At, postVars
  <2>2. CASE todo[t] = {}
    <3>1. pc'[t] = "idle" /\ kind'[t] = "none"
      BY <1>1, <1>17, <2>2 DEF PutRef, Finish, TypeOK
    <3>2. kind[t] = "listing" => Left(t) = {}
      BY <2>1, <2>2 DEF Left
    <3>3. CASE kind[t] = "preload"
      <4>1. Quiet
        BY <2>1, <3>1, <3>3 DEF Asked, Page
      <4> QED BY <1>3, <4>1
    <3>4. CASE kind[t] # "preload"
      <4>1. kind[t] # "none"
        BY <1>1, <2>1 DEF KindOK
      <4> QED BY <1>2, <2>1, <3>1, <3>2, <3>4, <4>1, Leaves
    <3> QED BY <3>3, <3>4
  <2>3. CASE todo[t] # {}
    <3>1. kind[t] = "listing" /\ pc'[t] = "next" /\ UNCHANGED <<kind, want, start>>
      BY <1>1, <1>17, <2>3 DEF PutRef, KindOK, TypeOK
    <3>2. Left(t)' = Left(t)
      BY <2>1, <3>1 DEF Left
    <3> QED BY <1>3, <1>4, <2>1, <3>1, <3>2
  <2> QED BY <2>2, <2>3
<1> QED BY <1>5, <1>6, <1>7, <1>8, <1>9, <1>10, <1>11, <1>12, <1>13, <1>14, <1>15, <1>16, <1>17
        DEF Step, Run

-----------------------------------------------------------------------------
(* The theorems *)

\* get_post, load_posts, __tq_load_post: what a thread has at hand fits the kind
\* of its request, and no post is newer than its files.
THEOREM KindsKept == Spec => [](KindInv /\ RevInv)
<1>1. Init => KindInv /\ RevInv
  BY DEF Init, KindInv, KindOK, RevInv
<1>2. IInv /\ KindInv /\ RevInv /\ [Next]_vars => (KindInv /\ RevInv)'
  BY KindStep, RevStep
<1> QED BY <1>1, <1>2, Invariance, PTL DEF Spec

\* get_post and load_posts: the cache behaves as if every request read the
\* files of the posts it shows for itself.
THEOREM CacheImplementsReads == Spec => ImplementsReads
<1>1. Init => Reads!Init
  BY DEF Init, Reads!Init, Asked, Page, Reads!NoRequest, Reads!NoPage, Files, Reads!Files
<1>2. ASSUME IInv, IInv', KindInv, KindInv', RevInv', [Next]_vars
      PROVE  Reads!Next \/ UNCHANGED <<rev, Asked, Page>>
  <2>1. ASSUME NEW t \in Threads, Step(t) PROVE Reads!Next \/ UNCHANGED <<rev, Asked, Page>>
    BY <1>2, <2>1, StepReads DEF Reads!Next
  <2>2. ASSUME UNCHANGED <<pc, kind, want, cur, todo, start, postId, preview, content>>
        PROVE  UNCHANGED <<Asked, Page>>
    <3>1. \A t \in Threads : Left(t)' = Left(t)
      BY <2>2 DEF Left
    <3>2. \A o : Sources(o)' = Sources(o)
      BY <2>2 DEF Sources
    <3> QED BY <2>2, <3>1, <3>2 DEF Asked, Page
  <2>3. CASE EnterService \/ StopService \/ FreeAllPosts \/ Ended \/ UNCHANGED vars
    BY <2>2, <2>3 DEF EnterService, StopService, FreeAllPosts, Ended, vars, diskVars, postVars, threadVars
  <2>4. ASSUME NEW p \in PostIds, NEW f \in Files, EditFile(p, f) PROVE Reads!Next
    <3>1. UNCHANGED <<Asked, Page>> /\ rev' = [rev EXCEPT ![p][f] = @ + 1]
      BY <2>2, <2>4 DEF EditFile, postVars, threadVars
    <3> QED BY <3>1 DEF Reads!Next, Reads!Edit, Reads!Files, Files
  <2> QED BY <1>2, <2>1, <2>3, <2>4 DEF Next, Step
<1> QED BY <1>1, <1>2, Invariance, KindsKept, PTL DEF Spec, Reads!Spec, Reads!vars, ImplementsReads
=============================================================================
