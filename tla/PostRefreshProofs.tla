------------------------- MODULE PostRefreshProofs -------------------------
(***************************************************************************)
(* Proofs about PostRefresh, for any comments, listings, versions of the   *)
(* files and number of edits: a recorded file is one that was there, with  *)
(* the revision that was read last, and no older than when the post was    *)
(* locked; and while the record is current the post is what the files say, *)
(* as far as the refresh has come.                                         *)
(***************************************************************************)
EXTENDS PostRefresh, FiniteSetTheorems, TLAPS

Stages == {"idle", "lisp", "meta", "text", "tex", "listing", "parsed", "serve", "failed"}

TypeInv ==
  /\ edits \in 0..MaxEdits
  /\ rev \in [Files -> Nat] /\ \A f \in Files : rev[f] \in 1..(edits + 1)
  /\ files \in [Files -> Revs]
  /\ reads \subseteq Files \X Revs
  /\ preview \in BOOLEAN /\ edited \in BOOLEAN
  /\ pc \in Stages
  /\ data[Lisp] # Missing => data[Lisp].comments \in Seq(Comments)
  /\ data[Tex] # Missing => data[Tex].listings \in Seq(Listings)
  /\ pc \in {"meta", "text"} => todo \in Seq(Comments) /\ todo # <<>>
  /\ pc = "listing" => todo \in Seq(Listings) /\ todo # <<>>

\* what was read well is recorded as it was read
ReadInv ==
  \A f \in Files, r \in Revs : <<f, r>> \in reads /\ ReadWell(f) => files[f] = r /\ r # 0

\* what is recorded is current, as long as nothing has been edited
CurrentInv ==
  ~edited /\ pc \notin {"idle", "failed"} =>
    \A f \in Files : files[f] # 0 => rev[f] <= files[f]

\* something is recorded once post.lisp has been read
RecordedInv ==
  ~preview /\ pc \in {"meta", "text", "tex", "listing", "parsed", "serve"} =>
    \E f \in Files : files[f] # 0

IInv == TypeInv /\ ReadInv /\ CurrentInv /\ RecordedInv

-----------------------------------------------------------------------------

LEMMA AreFiles ==
  /\ Lisp \in Files /\ Tex \in Files /\ Lisp # Tex
  /\ \A c \in Comments : Meta(c) \in Files /\ Text(c) \in Files
  /\ \A l \in Listings : Listing(l) \in Files
BY DEF Files, Lisp, Tex

\* what there may be in the two files of the author
LEMMA OwnContents ==
  /\ \A v \in Contents(Lisp) : v # Missing => v.comments \in Seq(Comments)
  /\ \A v \in Contents(Tex) : v # Missing => v.listings \in Seq(Listings)
<1>1. Lisp # Tex /\ Lisp \notin {Meta(c) : c \in Comments} /\ Tex \notin {Meta(c) : c \in Comments}
  BY DEF Lisp, Tex, Meta
<1>2. Contents(Lisp) = {Missing} \cup LispVersions
  BY <1>1 DEF Contents
<1>3. Contents(Tex) = {Missing} \cup TexVersions
  BY <1>1 DEF Contents
<1> QED BY <1>2, <1>3, RefreshAssumption

LEMMA InitIInv == Init => IInv
<1> SUFFICES ASSUME Init PROVE IInv
  OBVIOUS
<1>1. MaxEdits \in Nat
  BY RefreshAssumption
<1>2. edits \in 0..MaxEdits /\ rev \in [Files -> Nat] /\ \A f \in Files : rev[f] \in 1..(edits + 1)
  BY <1>1 DEF Init
<1>3. files \in [Files -> Revs]
  BY <1>1 DEF Init, NoFiles, Revs
<1>4. data[Lisp] \in Contents(Lisp) /\ data[Tex] \in Contents(Tex)
  BY AreFiles DEF Init, Lisp, Tex
<1>5. (data[Lisp] # Missing => data[Lisp].comments \in Seq(Comments))
      /\ (data[Tex] # Missing => data[Tex].listings \in Seq(Listings))
  BY <1>4, OwnContents
<1>6. TypeInv
  BY <1>2, <1>3, <1>5 DEF Init, TypeInv, Stages
<1> QED BY <1>6 DEF IInv, ReadInv, CurrentInv, RecordedInv, Init

-----------------------------------------------------------------------------
(* Reading a file *)

\* what a read that GetCachedFile makes does to the invariants
LEMMA ReadEffect ==
  ASSUME IInv, NEW f \in Files, GetCachedFile(f), UNCHANGED rev
  PROVE  /\ files' \in [Files -> Revs] /\ reads' \subseteq Files \X Revs
         /\ ReadInv'
         /\ (\A g \in Files : files[g] # 0 => rev[g] <= files[g])
              => \A g \in Files : files'[g] # 0 => rev[g] <= files'[g]
         /\ \A g \in Files : files[g] # 0 => files'[g] # 0
         /\ data[f] # Missing => files'[f] # 0
<1>1. /\ MaxEdits \in Nat /\ edits \in 0..MaxEdits /\ rev[f] \in 1..(edits + 1) /\ rev \in [Files -> Nat]
      /\ files \in [Files -> Revs] /\ reads \subseteq Files \X Revs
  BY RefreshAssumption DEF IInv, TypeInv
<1>2. rev[f] \in Revs /\ rev[f] # 0 /\ 0 \in Revs
  BY <1>1 DEF Revs
<1>3. ReadInv
  BY DEF IInv
<1>4. ASSUME NEW g \in Files, ReadWell(g)', reads \subseteq reads' PROVE ReadWell(g)
  BY <1>4 DEF ReadWell, Revs
<1>5. CASE data[f] = Missing
  <2>1. reads' = reads \cup {<<f, 0>>} /\ files' = files
    BY <1>5 DEF GetCachedFile
  <2>2. ~ReadWell(f)'
    BY <1>2, <2>1 DEF ReadWell, Revs
  <2>3. ASSUME NEW g \in Files, NEW r \in Revs, <<g, r>> \in reads', ReadWell(g)'
        PROVE  files'[g] = r /\ r # 0
    <3>1. g # f
      BY <2>2, <2>3
    <3>2. <<g, r>> \in reads
      BY <2>1, <2>3, <3>1
    <3> QED BY <1>3, <1>4, <2>1, <2>3, <3>2 DEF ReadInv
  <2>4. ReadInv'
    BY <2>3 DEF ReadInv, Revs
  <2> QED BY <1>1, <1>2, <1>5, <2>1, <2>4
<1>6. CASE data[f] # Missing
  <2>1. reads' = reads \cup {<<f, rev[f]>>} /\ files' = [files EXCEPT ![f] = rev[f]]
    BY <1>6 DEF GetCachedFile
  <2>2. files' \in [Files -> Revs] /\ files'[f] = rev[f] /\ \A g \in Files \ {f} : files'[g] = files[g]
    BY <1>1, <1>2, <2>1
  <2>3. ASSUME NEW g \in Files, NEW r \in Revs, <<g, r>> \in reads', ReadWell(g)'
        PROVE  files'[g] = r /\ r # 0
    <3>1. CASE g = f
      <4>1. <<f, rev[f]>> \in reads'
        BY <2>1
      <4>2. r = rev[f]
        BY <1>2, <2>3, <3>1, <4>1 DEF ReadWell, Revs
      <4> QED BY <1>2, <2>2, <3>1, <4>2
    <3>2. CASE g # f
      <4>1. <<g, r>> \in reads
        BY <2>1, <2>3, <3>2
      <4> QED BY <1>3, <1>4, <2>1, <2>2, <2>3, <3>2, <4>1 DEF ReadInv
    <3> QED BY <3>1, <3>2
  <2>4. ReadInv'
    BY <2>3 DEF ReadInv, Revs
  <2>5. \A g \in Files : files[g] # 0 => files'[g] # 0
    BY <1>2, <2>2
  <2>6. reads' \subseteq Files \X Revs
    BY <1>1, <1>2, <2>1
  <2>7. (\A g \in Files : files[g] # 0 => rev[g] <= files[g])
          => \A g \in Files : files'[g] # 0 => rev[g] <= files'[g]
    BY <1>1, <2>2
  <2> QED BY <1>2, <2>2, <2>4, <2>5, <2>6, <2>7
<1> QED BY <1>5, <1>6

\* and so what a step that reads one file needs to show
LEMMA ReadStep ==
  ASSUME IInv, NEW f \in Files, GetCachedFile(f), UNCHANGED <<diskVars, preview>>,
         pc \notin {"idle", "serve", "failed"}, pc' \in Stages \ {"idle", "failed"},
         pc = "lisp" => f = Lisp /\ data[Lisp] # Missing,
         pc' \in {"meta", "text"} => todo' \in Seq(Comments) /\ todo' # <<>>,
         pc' = "listing" => todo' \in Seq(Listings) /\ todo' # <<>>
  PROVE  IInv'
<1>1. UNCHANGED <<rev, data, edited, edits>>
  BY DEF diskVars
<1>2. /\ files' \in [Files -> Revs] /\ reads' \subseteq Files \X Revs
      /\ ReadInv'
      /\ (\A g \in Files : files[g] # 0 => rev[g] <= files[g])
           => \A g \in Files : files'[g] # 0 => rev[g] <= files'[g]
      /\ \A g \in Files : files[g] # 0 => files'[g] # 0
      /\ data[f] # Missing => files'[f] # 0
  BY <1>1, ReadEffect
<1>3. TypeInv'
  BY <1>1, <1>2 DEF IInv, TypeInv, Revs
<1>4. CurrentInv'
  BY <1>1, <1>2 DEF IInv, CurrentInv
<1>5. RecordedInv'
  <2>1. CASE pc = "lisp"
    BY <1>2, <2>1 DEF RecordedInv
  <2>2. CASE pc # "lisp"
    <3>1. pc \in Stages
      BY DEF IInv, TypeInv
    <3>2. ~preview' => \E g \in Files : files[g] # 0
      BY <2>2, <3>1 DEF IInv, RecordedInv, Stages
    <3> QED BY <1>2, <3>2 DEF RecordedInv
  <2> QED BY <2>1, <2>2
<1> QED BY <1>2, <1>3, <1>4, <1>5 DEF IInv

\* the rest of a loop
LEMMA Rest ==
  ASSUME NEW S, NEW s \in Seq(S), s # <<>>
  PROVE  Head(s) \in S /\ Tail(s) \in Seq(S)
OBVIOUS

LEMMA NextIInv ==
  ASSUME IInv, [Next]_vars
  PROVE  IInv'
<1>1. TypeInv /\ MaxEdits \in Nat
  BY RefreshAssumption DEF IInv
<1>2. CASE StartRefresh
  <2>1. UNCHANGED <<rev, data, edits, preview>> /\ edited' = FALSE
    BY <1>2 DEF StartRefresh
  <2>2. CASE MustRefresh /\ files' = NoFiles /\ reads' = {} /\ pc' = IF preview THEN "tex" ELSE "lisp"
    <3>1. files' \in [Files -> Revs] /\ \A f \in Files : files'[f] = 0
      BY <1>1, <2>2 DEF NoFiles, Revs
    <3>2. TypeInv'
      BY <1>1, <2>1, <2>2, <3>1 DEF TypeInv, Stages, Revs
    <3> QED BY <2>1, <2>2, <3>1, <3>2 DEF IInv, ReadInv, CurrentInv, RecordedInv
  <2>3. CASE ~MustRefresh /\ pc' = "serve" /\ UNCHANGED <<files, reads>>
    <3>1. TypeInv'
      BY <1>1, <2>1, <2>3 DEF TypeInv, Stages, Revs
    <3>2. ReadInv'
      BY <2>3 DEF IInv, ReadInv, ReadWell, Revs
    <3>3. files # NoFiles /\ \A f \in Files : files[f] # 0 => ~(rev[f] > files[f])
      BY <2>3 DEF MustRefresh
    <3>4. files \in [Files -> Nat] /\ rev \in [Files -> Nat]
      BY <1>1 DEF TypeInv, Revs
    <3>5. CurrentInv'
      BY <2>1, <2>3, <3>3, <3>4 DEF CurrentInv
    <3>6. \E f \in Files : files[f] # 0
      BY <3>3, <3>4 DEF NoFiles
    <3> QED BY <2>3, <3>1, <3>2, <3>5, <3>6 DEF IInv, RecordedInv
  <2> QED BY <1>2, <2>2, <2>3 DEF StartRefresh
<1>3. CASE ReadLisp
  <2>1. /\ pc = "lisp" /\ data[Lisp] # Missing /\ GetCachedFile(Lisp) /\ todo' = data[Lisp].comments
        /\ pc' = IF data[Lisp].comments = <<>> THEN "tex" ELSE "meta"
        /\ UNCHANGED <<diskVars, preview>>
    BY <1>3 DEF ReadLisp
  <2>2. data[Lisp].comments \in Seq(Comments)
    BY <1>1, <2>1 DEF TypeInv
  <2> QED BY <2>1, <2>2, ReadStep, AreFiles DEF Stages
<1>4. CASE ReadMeta
  <2>1. todo \in Seq(Comments) /\ todo # <<>>
    BY <1>1, <1>4 DEF ReadMeta, TypeInv
  <2>2. Head(todo) \in Comments /\ Tail(todo) \in Seq(Comments)
    BY <2>1, Rest
  <2>3. /\ pc = "meta" /\ GetCachedFile(Meta(Head(todo))) /\ UNCHANGED <<diskVars, preview>>
        /\ \/ pc' = "text" /\ todo' = todo
           \/ todo' = Tail(todo) /\ pc' = IF Tail(todo) = <<>> THEN "tex" ELSE "meta"
    BY <1>4 DEF ReadMeta, NextComment
  <2>4. Meta(Head(todo)) \in Files
    BY <2>2, AreFiles
  <2> QED BY <2>1, <2>2, <2>3, <2>4, ReadStep DEF Stages
<1>5. CASE ReadText
  <2>1. todo \in Seq(Comments) /\ todo # <<>>
    BY <1>1, <1>5 DEF ReadText, TypeInv
  <2>2. Head(todo) \in Comments /\ Tail(todo) \in Seq(Comments)
    BY <2>1, Rest
  <2>3. /\ pc = "text" /\ GetCachedFile(Text(Head(todo))) /\ UNCHANGED <<diskVars, preview>>
        /\ todo' = Tail(todo) /\ pc' = IF Tail(todo) = <<>> THEN "tex" ELSE "meta"
    BY <1>5 DEF ReadText, NextComment
  <2>4. Text(Head(todo)) \in Files
    BY <2>2, AreFiles
  <2> QED BY <2>2, <2>3, <2>4, ReadStep DEF Stages
<1>6. CASE ReadTex
  <2>1. /\ pc = "tex" /\ data[Tex] # Missing /\ GetCachedFile(Tex) /\ todo' = data[Tex].listings
        /\ pc' = IF data[Tex].listings = <<>> THEN "parsed" ELSE "listing"
        /\ UNCHANGED <<diskVars, preview>>
    BY <1>6 DEF ReadTex
  <2>2. data[Tex].listings \in Seq(Listings)
    BY <1>1, <2>1 DEF TypeInv
  <2> QED BY <2>1, <2>2, ReadStep, AreFiles DEF Stages
<1>7. CASE ReadListing
  <2>1. todo \in Seq(Listings) /\ todo # <<>>
    BY <1>1, <1>7 DEF ReadListing, TypeInv
  <2>2. Head(todo) \in Listings /\ Tail(todo) \in Seq(Listings)
    BY <2>1, Rest
  <2>3. /\ pc = "listing" /\ GetCachedFile(Listing(Head(todo))) /\ UNCHANGED <<diskVars, preview>>
        /\ todo' = Tail(todo) /\ pc' = IF Tail(todo) = <<>> THEN "parsed" ELSE "listing"
    BY <1>7 DEF ReadListing
  <2>4. Listing(Head(todo)) \in Files
    BY <2>2, AreFiles
  <2> QED BY <2>2, <2>3, <2>4, ReadStep DEF Stages
<1>8. CASE TakeParsed \/ RefreshFails \/ Serve \/ Ended
  <2>1. /\ UNCHANGED <<rev, data, edited, edits, preview, files, reads>>
        /\ \/ pc = "parsed" /\ pc' = "serve"
           \/ pc' \in {"failed", "idle"}
    BY <1>8 DEF TakeParsed, RefreshFails, Serve, Ended, diskVars, vars
  <2>2. TypeInv'
    BY <1>1, <2>1 DEF TypeInv, Stages, Revs
  <2>3. ReadInv'
    BY <2>1 DEF IInv, ReadInv, ReadWell, Revs
  <2> QED BY <2>1, <2>2, <2>3 DEF IInv, CurrentInv, RecordedInv
<1>9. ASSUME NEW f \in Files, EditFile(f) PROVE IInv'
  <2>1. /\ edits < MaxEdits /\ edits' = edits + 1 /\ rev' = [rev EXCEPT ![f] = rev[f] + 1]
        /\ edited' = TRUE /\ UNCHANGED <<preview, files, pc, todo, reads>>
    BY <1>9 DEF EditFile
  <2>2. PICK v \in Contents(f) : data' = [data EXCEPT ![f] = v]
    BY <1>9 DEF EditFile
  <2>3. edits' \in 0..MaxEdits
    BY <1>1, <2>1 DEF TypeInv
  <2>4. rev' \in [Files -> Nat] /\ \A g \in Files : rev'[g] \in 1..(edits' + 1)
    <3>1. /\ rev \in [Files -> Nat] /\ edits \in Nat
          /\ \A g \in Files : rev[g] \in 1..(edits + 1)
      BY <1>1 DEF TypeInv
    <3>2. /\ rev' \in [Files -> Nat] /\ rev'[f] = rev[f] + 1
          /\ \A g \in Files \ {f} : rev'[g] = rev[g]
      BY <2>1, <3>1
    <3> QED BY <2>1, <3>1, <3>2
  <2>5. /\ data'[Lisp] # Missing => data'[Lisp].comments \in Seq(Comments)
        /\ data'[Tex] # Missing => data'[Tex].listings \in Seq(Listings)
    <3>1. (data'[Lisp] = data[Lisp] \/ data'[Lisp] \in Contents(Lisp))
      BY <2>2
    <3>2. (data'[Tex] = data[Tex] \/ data'[Tex] \in Contents(Tex))
      BY <2>2
    <3> QED BY <1>1, <3>1, <3>2, OwnContents DEF TypeInv
  <2>6. TypeInv'
    BY <1>1, <2>1, <2>3, <2>4, <2>5 DEF TypeInv, Stages, Revs
  <2>7. ReadInv'
    BY <2>1 DEF IInv, ReadInv, ReadWell, Revs
  <2> QED BY <2>1, <2>6, <2>7 DEF IInv, CurrentInv, RecordedInv
<1>10. CASE UNCHANGED vars
  BY <1>10 DEF vars, IInv, TypeInv, ReadInv, ReadWell, CurrentInv, RecordedInv, Revs
<1> QED BY <1>2, <1>3, <1>4, <1>5, <1>6, <1>7, <1>8, <1>9, <1>10 DEF Next

-----------------------------------------------------------------------------
(* The theorems *)

\* The invariant is one of the specification.
THEOREM Invariance == Spec => []IInv
BY InitIInv, NextIInv, PTL DEF Spec

\* post_get_cached_file, must_refresh: whichever file went into the post and
\* has changed since, it is noticed.
THEOREM AlwaysNoticed == Spec => []ChangeNoticed
<1>1. IInv => ChangeNoticed
  <2> SUFFICES ASSUME IInv, NEW f \in Files, NEW r \in Revs,
                      <<f, r>> \in reads, ReadWell(f), rev[f] > r
               PROVE  MustRefresh
    BY DEF ChangeNoticed
  <2>1. files[f] = r /\ r # 0
    BY DEF IInv, ReadInv
  <2> QED BY <2>1 DEF MustRefresh
<1> QED BY <1>1, Invariance, PTL

\* post_remove_all_filenames, must_refresh: a refreshed post is not refreshed
\* again while nothing changes.
THEOREM AlwaysSettles == Spec => []RefreshSettles
<1>1. IInv => RefreshSettles
  <2> SUFFICES ASSUME IInv, pc = "serve", ~edited, ~preview PROVE ~MustRefresh
    BY DEF RefreshSettles
  <2>1. files \in [Files -> Nat] /\ rev \in [Files -> Nat]
    BY RefreshAssumption DEF IInv, TypeInv, Revs
  <2>2. \A f \in Files : files[f] # 0 => rev[f] <= files[f]
    BY DEF IInv, CurrentInv
  <2>3. files # NoFiles
    BY DEF IInv, RecordedInv, NoFiles
  <2> QED BY <2>1, <2>2, <2>3 DEF MustRefresh
<1> QED BY <1>1, Invariance, PTL

-----------------------------------------------------------------------------
(* The type invariant *)

DataInv ==
  /\ DOMAIN data = Files /\ \A f \in Files : data[f] \in Contents(f)
  /\ comments \in Seq([id : Comments, text : Revs])
  /\ body.tex \in Revs /\ body.listings \in Seq(Revs)
  /\ shown \in Seq(Revs)

LEMMA EmptyIsSeq == ASSUME NEW S PROVE <<>> \in Seq(S)
OBVIOUS

LEMMA InitDataInv == Init => DataInv
<1> SUFFICES ASSUME Init PROVE DataInv
  OBVIOUS
<1>1. 0 \in Revs
  BY RefreshAssumption DEF Revs
<1>2. /\ comments \in Seq([id : Comments, text : Revs])
      /\ body.tex \in Revs /\ body.listings \in Seq(Revs) /\ shown \in Seq(Revs)
  BY <1>1 DEF Init
<1>3. PICK lisp \in Contents(Lisp), t \in Contents(Tex),
           meta \in [Comments -> {Missing} \cup [moderated : BOOLEAN]],
           there \in SUBSET (Files \ ({Lisp, Tex} \cup {Meta(c) : c \in Comments})) :
        data = [f \in Files |-> CASE f = Lisp -> lisp
                                  [] f = Tex -> t
                                  [] f[1] = "meta.lisp" -> meta[f[2]]
                                  [] f \in there -> [text |-> TRUE]
                                  [] OTHER -> Missing]
  BY DEF Init
<1>4. ASSUME NEW f \in Files PROVE data[f] \in Contents(f)
  <2>1. CASE f = Lisp
    <3>1. f # Tex /\ f[1] # "meta.lisp" /\ f \notin there
      BY <2>1 DEF Lisp, Tex
    <3>2. data[f] = lisp
      BY <1>3, <2>1, <3>1
    <3> QED BY <1>3, <2>1, <3>2
  <2>2. CASE f = Tex
    BY <1>3, <2>2 DEF Lisp, Tex
  <2>3. CASE f \in {Meta(c) : c \in Comments}
    <3>1. PICK c \in Comments : f = <<"meta.lisp", c>>
      BY <2>3 DEF Meta
    <3>2. f # Lisp /\ f # Tex /\ f[1] = "meta.lisp" /\ f[2] = c
      BY <3>1 DEF Lisp, Tex
    <3>3. f \notin there
      BY <1>3, <2>3
    <3>4. data[f] = meta[c]
      BY <3>2, <3>3, <1>3
    <3>5. Contents(f) = {Missing} \cup [moderated : BOOLEAN]
      BY <2>3, <3>2 DEF Contents
    <3> QED BY <1>3, <3>4, <3>5
  <2>4. CASE f # Lisp /\ f # Tex /\ f \notin {Meta(c) : c \in Comments}
    <3>1. f[1] # "meta.lisp"
      <4>1. \/ \E c \in Comments : f = <<"text.txt", c>>
            \/ \E l \in Listings : f = <<"listing", l>>
        BY <2>4 DEF Files, Text, Listing
      <4> QED BY <4>1
    <3>2. data[f] \in {[text |-> TRUE], Missing}
      BY <1>3, <2>4, <3>1
    <3>3. Contents(f) = {Missing} \cup {[text |-> TRUE]}
      BY <2>4 DEF Contents
    <3> QED BY <3>2, <3>3
  <2> QED BY <2>1, <2>2, <2>3, <2>4
<1> QED BY <1>2, <1>3, <1>4 DEF DataInv

LEMMA NextDataInv ==
  ASSUME TypeInv, DataInv, [Next]_vars
  PROVE  DataInv'
<1>1. \A f \in Files : RevOf(f) \in Revs
  BY RefreshAssumption DEF TypeInv, RevOf, Revs
<1>2. Revs' = Revs
  BY DEF Revs
<1>3. ASSUME NEW f \in Files, EditFile(f) PROVE DataInv'
  <2>1. PICK v \in Contents(f) : data' = [data EXCEPT ![f] = v]
    BY <1>3 DEF EditFile
  <2>2. DOMAIN data' = Files /\ \A g \in Files : data'[g] \in Contents(g)
    BY <2>1 DEF DataInv
  <2> QED BY <1>2, <1>3, <2>2 DEF DataInv, EditFile
<1>4. CASE ReadText
  <2>1. todo \in Seq(Comments) /\ todo # <<>>
    BY <1>4 DEF ReadText, TypeInv
  <2>2. Head(todo) \in Comments
    BY <2>1, Rest
  <2>3. RevOf(Text(Head(todo))) \in Revs
    BY <1>1, <2>2, AreFiles
  <2>4. comments' = Append(comments, [id |-> Head(todo), text |-> RevOf(Text(Head(todo)))])
        /\ UNCHANGED <<data, body, shown>>
    BY <1>4 DEF ReadText, diskVars
  <2>5. comments' \in Seq([id : Comments, text : Revs])
    BY <2>2, <2>3, <2>4 DEF DataInv
  <2> QED BY <1>2, <2>4, <2>5 DEF DataInv
<1>5. CASE ReadListing
  <2>1. todo \in Seq(Listings) /\ todo # <<>>
    BY <1>5 DEF ReadListing, TypeInv
  <2>2. Head(todo) \in Listings
    BY <2>1, Rest
  <2>3. RevOf(Listing(Head(todo))) \in Revs
    BY <1>1, <2>2, AreFiles
  <2>4. shown' = Append(shown, RevOf(Listing(Head(todo)))) /\ UNCHANGED <<data, body, comments>>
    BY <1>5 DEF ReadListing, diskVars
  <2>5. shown' \in Seq(Revs)
    BY <2>3, <2>4 DEF DataInv
  <2> QED BY <1>2, <2>4, <2>5 DEF DataInv
<1>6. CASE TakeParsed
  <2>1. body' = [tex |-> files[Tex], listings |-> shown] /\ shown' = <<>> /\ UNCHANGED <<data, comments>>
    BY <1>6 DEF TakeParsed, diskVars
  <2>2. files[Tex] \in Revs
    BY AreFiles DEF TypeInv
  <2> QED BY <1>2, <2>1, <2>2 DEF DataInv
<1>7. CASE StartRefresh \/ ReadLisp \/ ReadMeta \/ ReadTex \/ RefreshFails \/ Serve \/ Ended \/ UNCHANGED vars
  <2>1. /\ data' = data /\ body' = body
        /\ comments' = comments \/ comments' = <<>>
        /\ shown' = shown \/ shown' = <<>>
    BY <1>7 DEF StartRefresh, ReadLisp, ReadMeta, ReadTex, RefreshFails, Serve, Ended, vars, diskVars
  <2>2. comments' \in Seq([id : Comments, text : Revs])
    <3>1. comments \in Seq([id : Comments, text : Revs])
      BY DEF DataInv
    <3>2. <<>> \in Seq([id : Comments, text : Revs])
      BY EmptyIsSeq
    <3> QED BY <2>1, <3>1, <3>2, Zenon
  <2>3. shown' \in Seq(Revs)
    <3>1. shown \in Seq(Revs)
      BY DEF DataInv
    <3>2. <<>> \in Seq(Revs)
      BY EmptyIsSeq
    <3> QED BY <2>1, <3>1, <3>2, Zenon
  <2>4. \A f \in Files : Contents(f)' = Contents(f)
    BY DEF Contents
  <2> QED BY <1>2, <2>1, <2>2, <2>3, <2>4 DEF DataInv
<1> QED BY <1>3, <1>4, <1>5, <1>6, <1>7 DEF Next

\* struct post as the refresh fills it: every field keeps its type, and the
\* loops over comments and listings have an element to work on.
THEOREM TypeCorrect == Spec => []TypeOK
<1>1. TypeInv /\ DataInv => TypeOK
  <2> SUFFICES ASSUME TypeInv, DataInv PROVE TypeOK
    OBVIOUS
  <2>1. rev \in [Files -> Revs \ {0}]
    <3>1. \A f \in Files : rev[f] \in Revs \ {0}
      BY RefreshAssumption DEF TypeInv, Revs
    <3> QED BY <3>1 DEF TypeInv
  <2> QED BY <2>1 DEF TypeOK, TypeInv, DataInv, Stages
<1>2. IInv => TypeInv
  BY DEF IInv
<1>3. TypeInv /\ DataInv /\ [Next]_vars => DataInv'
  BY NextDataInv
<1> QED BY <1>1, <1>2, <1>3, InitDataInv, Invariance, PTL DEF Spec
-----------------------------------------------------------------------------
(* What is served is what is on disk *)

\* what is recorded has been read, and was there
RecordInv ==
  \A f \in Files : files[f] # 0 =>
    /\ files[f] <= rev[f] /\ <<f, files[f]>> \in reads
    /\ rev[f] = files[f] => data[f] # Missing

\* nothing that is recorded has changed, so what was read is what is there
Current == ~preview /\ AllReadWell /\ \A f \in Files : files[f] # 0 => rev[f] = files[f]

\* the first n comments of post.lisp are taken, and their files recorded
CommentsDone(n) ==
  /\ CommentsTaken(n)
  /\ \A i \in 1..n : /\ files[Meta(data[Lisp].comments[i])] # 0
                     /\ Moderated(i) => files[Text(data[Lisp].comments[i])] # 0

\* seq shows the first n listings of post.tex, and their files are recorded
ListingsDone(n, seq) ==
  /\ Len(seq) = n
  /\ \A i \in 1..n : /\ files[Listing(data[Tex].listings[i])] # 0
                     /\ seq[i] = rev[Listing(data[Tex].listings[i])]

\* todo is what the loop over s has left after n rounds
Left(s, n) == n + Len(todo) = Len(s) /\ \A i \in 1..Len(todo) : todo[i] = s[n + i]

LispDone == files[Lisp] # 0 /\ CommentsDone(Len(data[Lisp].comments))

MetaInv ==
  pc \in {"meta", "text"} =>
    /\ files[Lisp] # 0 /\ tags = data[Lisp].tags
    /\ \E n \in 0..Len(data[Lisp].comments) :
         /\ Left(data[Lisp].comments, n) /\ CommentsDone(n)
         /\ pc = "text" => files[Meta(data[Lisp].comments[n + 1])] # 0 /\ Moderated(n + 1)

TexInv ==
  pc \in {"tex", "listing", "parsed"} => LispDone /\ tags = data[Lisp].tags

ListingInv ==
  pc \in {"listing", "parsed"} =>
    /\ files[Tex] # 0 /\ tex = data[Tex]
    /\ pc = "listing" => \E n \in 0..Len(data[Tex].listings) :
                           Left(data[Tex].listings, n) /\ ListingsDone(n, shown)
    /\ pc = "parsed" => ListingsDone(Len(data[Tex].listings), shown)

BuiltInv ==
  (pc \in {"idle", "serve"} /\ files # NoFiles) =>
    /\ LispDone /\ files[Tex] # 0
    /\ tags = data[Lisp].tags \cup data[Tex].tags
    /\ body = [tex |-> rev[Tex], listings |-> body.listings]
    /\ ListingsDone(Len(data[Tex].listings), body.listings)

DiskInv == Current => MetaInv /\ TexInv /\ ListingInv /\ BuiltInv

\* how many of the first comments are shown
LEMMA Places ==
  ASSUME NEW n \in Nat
  PROVE  /\ Place(0) = 0 /\ Place(n) \in Nat
         /\ Place(n + 1) = Place(n) + (IF Moderated(n + 1) THEN 1 ELSE 0)
         /\ \A i \in 1..n : Moderated(i) => Place(i) \in 1..Place(n)
<1> DEFINE S(k) == {j \in 1..k : Moderated(j)}
<1>1. ASSUME NEW k \in Nat PROVE IsFiniteSet(S(k)) /\ Place(k) = Cardinality(S(k)) /\ Place(k) \in Nat
  <2>1. IsFiniteSet(1..k)
    BY FS_Interval
  <2>2. S(k) \in SUBSET (1..k)
    OBVIOUS
  <2> QED BY <2>1, <2>2, FS_Subset, FS_CardinalityType DEF Place
<1>2. S(0) = {}
  OBVIOUS
<1>3. Place(0) = 0
  BY <1>2, FS_EmptySet DEF Place
<1>4. ASSUME NEW k \in Nat, Moderated(k + 1) PROVE Place(k + 1) = Place(k) + 1
  <2>1. S(k + 1) = S(k) \cup {k + 1} /\ k + 1 \notin S(k)
    BY <1>4
  <2>2. Place(k + 1) = Cardinality(S(k + 1))
    BY <1>1
  <2> HIDE DEF S
  <2>3. Cardinality(S(k + 1)) = Cardinality(S(k)) + 1
    BY <1>1, <2>1, FS_AddElement
  <2> QED BY <1>1, <2>2, <2>3
<1>5. ASSUME ~Moderated(n + 1) PROVE Place(n + 1) = Place(n)
  <2>1. S(n + 1) = S(n)
    BY <1>5
  <2>2. n + 1 \in Nat
    OBVIOUS
  <2> HIDE DEF S
  <2> QED BY <1>1, <2>1, <2>2
<1>6. ASSUME NEW i \in 1..n, Moderated(i) PROVE Place(i) \in 1..Place(n)
  <2>1. S(i) \in SUBSET S(n) /\ i \in Nat /\ i - 1 \in Nat
    OBVIOUS
  <2> HIDE DEF S
  <2>2. Place(i) <= Place(n)
    BY <1>1, <2>1, FS_Subset
  <2>3. Place((i - 1) + 1) = Place(i - 1) + 1
    BY <1>4, <1>6, <2>1
  <2>4. Place(i) = Place(i - 1) + 1 /\ Place(i - 1) \in Nat
    BY <1>1, <2>1, <2>3
  <2> QED BY <1>1, <2>1, <2>2, <2>4
<1>7. Place(n) \in Nat
  BY <1>1
<1>8. Place(n + 1) = Place(n) + (IF Moderated(n + 1) THEN 1 ELSE 0)
  BY <1>4, <1>5, <1>7
<1> QED BY <1>3, <1>6, <1>7, <1>8

LEMMA SameComments ==
  ASSUME UNCHANGED data
  PROVE  /\ \A i : Place(i)' = Place(i)
         /\ \A i : Moderated(i)' <=> Moderated(i)
BY DEF Place, Moderated

\* the files of the record stay as they are, and stay in it
RecordKept ==
  \A f \in Files : files[f] # 0 => files'[f] # 0 /\ data'[f] = data[f] /\ rev'[f] = rev[f]

\* and so does what the post has of them
LEMMA CommentsKept ==
  ASSUME RecordKept, comments' = comments, files[Lisp] # 0,
         data[Lisp].comments \in Seq(Comments), NEW n \in 0..Len(data[Lisp].comments), CommentsDone(n)
  PROVE  CommentsDone(n)' /\ \A i \in 1..n : Moderated(i)' <=> Moderated(i)
<1> DEFINE c(i) == data[Lisp].comments[i]
<1>1. data'[Lisp] = data[Lisp]
  BY AreFiles DEF RecordKept
<1>2. \A i \in 1..n : /\ Meta(c(i)) \in Files /\ Text(c(i)) \in Files
                      /\ files[Meta(c(i))] # 0 /\ (Moderated(i) => files[Text(c(i))] # 0)
  BY AreFiles DEF CommentsDone
<1>3. \A i \in 1..n : Moderated(i)' <=> Moderated(i)
  BY <1>1, <1>2 DEF RecordKept, Moderated
<1>4. ASSUME NEW k \in 0..n PROVE Place(k)' = Place(k)
  <2>1. {i \in 1..k : Moderated(i)'} = {i \in 1..k : Moderated(i)}
    BY <1>3
  <2> QED BY <2>1 DEF Place
<1>5. ASSUME NEW i \in 1..n, Moderated(i)
      PROVE  comments[Place(i)] = [id |-> c(i), text |-> rev'[Text(c(i))]]
  BY <1>2, <1>5 DEF CommentsDone, CommentsTaken, RecordKept
<1>6. CommentsTaken(n)'
  <2>1. Len(comments') = Place(n)' /\ \A i \in 1..n : i \in 0..n
    BY <1>4 DEF CommentsDone, CommentsTaken
  <2>2. \A i \in 1..n : Moderated(i)' =>
           comments'[Place(i)'] = [id |-> data'[Lisp].comments[i],
                                   text |-> rev'[Text(data'[Lisp].comments[i])]]
    BY <1>1, <1>3, <1>4, <1>5, <2>1
  <2> QED BY <2>1, <2>2 DEF CommentsTaken
<1>7. ASSUME NEW i \in 1..n
      PROVE  /\ files'[Meta(data'[Lisp].comments[i])] # 0
             /\ Moderated(i)' => files'[Text(data'[Lisp].comments[i])] # 0
  BY <1>1, <1>2, <1>3 DEF RecordKept
<1> QED BY <1>3, <1>6, <1>7 DEF CommentsDone

LEMMA LispKept ==
  ASSUME RecordKept, comments' = comments, data[Lisp].comments \in Seq(Comments), LispDone
  PROVE  LispDone'
<1> DEFINE n == Len(data[Lisp].comments)
<1>1. n \in 0..n /\ CommentsDone(n) /\ files'[Lisp] # 0 /\ files[Lisp] # 0
  BY AreFiles DEF LispDone, RecordKept
<1>2. n' = n
  BY <1>1, AreFiles DEF RecordKept
<1> HIDE DEF n
<1>3. CommentsDone(n)'
  BY <1>1, <1>2, CommentsKept DEF n
<1> QED BY <1>1, <1>3 DEF LispDone, n

LEMMA ListingsKept ==
  ASSUME RecordKept, data[Tex].listings \in Seq(Listings),
         NEW n \in 0..Len(data[Tex].listings), NEW seq, ListingsDone(n, seq)
  PROVE  /\ Len(seq) = n
         /\ \A i \in 1..n : /\ files'[Listing(data[Tex].listings[i])] # 0
                            /\ seq[i] = rev'[Listing(data[Tex].listings[i])]
<1>1. \A i \in 1..n : Listing(data[Tex].listings[i]) \in Files
  BY AreFiles
<1> QED BY <1>1 DEF ListingsDone, RecordKept

\* After a read that leaves the record current the record was current before
\* it, and the file is there and recorded: a file read twice, with an edit in
\* between, is not read well.
LEMMA ReadBack ==
  ASSUME IInv, RecordInv, NEW f \in Files, GetCachedFile(f), UNCHANGED <<rev, data, preview>>
  PROVE  /\ RecordInv'
         /\ Current' => /\ Current /\ data[f] # Missing /\ files'[f] = rev[f] /\ files'[f] # 0
                        /\ RecordKept
<1>1. /\ rev[f] \in Revs /\ rev[f] # 0 /\ 0 \in Revs /\ rev \in [Files -> Nat]
      /\ files \in [Files -> Revs] /\ files \in [Files -> Nat]
  BY RefreshAssumption DEF IInv, TypeInv, Revs
<1>2. reads \subseteq reads'
  BY DEF GetCachedFile
<1>3. CASE data[f] = Missing
  <2>1. <<f, 0>> \in reads' /\ files' = files
    BY <1>3 DEF GetCachedFile
  <2>2. ~Current'
    BY <1>1, <2>1 DEF Current, AllReadWell, ReadWell, Revs
  <2> QED BY <1>2, <2>1, <2>2 DEF RecordInv
<1>4. CASE data[f] # Missing
  <2>1. <<f, rev[f]>> \in reads' /\ files' = [files EXCEPT ![f] = rev[f]]
    BY <1>4 DEF GetCachedFile
  <2>2. files'[f] = rev[f] /\ \A g \in Files \ {f} : files'[g] = files[g]
    BY <1>1, <2>1
  <2>3. RecordInv'
    BY <1>1, <1>2, <1>4, <2>1, <2>2 DEF RecordInv
  <2>4. ASSUME Current' PROVE Current
    <3>1. AllReadWell
      BY <1>2, <2>4 DEF Current, AllReadWell, ReadWell, Revs
    <3>2. ASSUME files[f] # 0 PROVE files[f] = rev[f]
      <4>1. <<f, files[f]>> \in reads' /\ files[f] \in Revs
        BY <1>1, <1>2, <3>2 DEF RecordInv
      <4>2. ReadWell(f)'
        BY <2>4 DEF Current, AllReadWell
      <4> QED BY <1>1, <2>1, <4>1, <4>2 DEF ReadWell, Revs
    <3>3. ASSUME NEW g \in Files, files[g] # 0 PROVE rev[g] = files[g]
      <4>1. CASE g # f
        BY <2>2, <2>4, <3>3, <4>1 DEF Current
      <4> QED BY <3>2, <3>3, <4>1
    <3> QED BY <2>4, <3>1, <3>3 DEF Current
  <2>5. RecordKept
    BY <1>1, <2>2 DEF RecordKept
  <2> QED BY <1>1, <1>4, <2>2, <2>3, <2>4, <2>5
<1> QED BY <1>3, <1>4

\* one more comment is done with
LEMMA CommentNext ==
  ASSUME TypeInv, UNCHANGED <<data, rev>>, RecordKept,
         data[Lisp] # Missing, NEW n \in Nat, n + 1 \in 1..Len(data[Lisp].comments), CommentsDone(n),
         files'[Meta(data[Lisp].comments[n + 1])] # 0,
         comments \in Seq([id : Comments, text : Revs]),
         \/ ~Moderated(n + 1) /\ comments' = comments
         \/ /\ Moderated(n + 1) /\ files'[Text(data[Lisp].comments[n + 1])] # 0
            /\ comments' = Append(comments, [id |-> data[Lisp].comments[n + 1],
                                             text |-> rev[Text(data[Lisp].comments[n + 1])]])
  PROVE  CommentsDone(n + 1)'
<1> DEFINE c(i) == data[Lisp].comments[i]
<1>1. /\ \A i \in 1..(n + 1) : c(i) \in Comments
      /\ \A i \in 1..(n + 1) : Meta(c(i)) \in Files /\ Text(c(i)) \in Files
  <2>1. data[Lisp].comments \in Seq(Comments)
    BY DEF TypeInv
  <2> QED BY <2>1, AreFiles
<1>2. \A i \in 1..n : i \in 1..(n + 1) /\ i # n + 1
  OBVIOUS
<1>3. \A i \in 1..(n + 1) : i \in 1..n \/ i = n + 1
  OBVIOUS
<1>4. /\ Len(comments) = Place(n)
      /\ \A i \in 1..n : Moderated(i) => comments[Place(i)] = [id |-> c(i), text |-> rev[Text(c(i))]]
      /\ \A i \in 1..n : files[Meta(c(i))] # 0 /\ (Moderated(i) => files[Text(c(i))] # 0)
  BY DEF CommentsDone, CommentsTaken
<1>5. \A i \in 1..(n + 1) : files'[Meta(c(i))] # 0 /\ (Moderated(i) => files'[Text(c(i))] # 0)
  BY <1>1, <1>2, <1>3, <1>4 DEF RecordKept
<1>6. Len(comments') = Place(n + 1)
  <2>1. CASE Moderated(n + 1)
    <3>1. Len(comments') = Len(comments) + 1
      BY <2>1
    <3> QED BY <1>4, <2>1, <3>1, Places
  <2>2. CASE ~Moderated(n + 1)
    BY <1>4, <2>2, Places
  <2> QED BY <2>1, <2>2
<1>7. ASSUME NEW i \in 1..(n + 1), Moderated(i)
      PROVE  comments'[Place(i)] = [id |-> c(i), text |-> rev[Text(c(i))]]
  <2>1. CASE i \in 1..n
    <3>1. Place(i) \in 1..Len(comments)
      BY <1>4, <1>7, <2>1, Places
    <3>2. comments'[Place(i)] = comments[Place(i)]
      BY <3>1
    <3> QED BY <1>4, <1>7, <2>1, <3>2
  <2>2. CASE i = n + 1
    <3>1. Place(i) = Len(comments) + 1
      BY <1>4, <1>7, <2>2, Places
    <3>2. comments' = Append(comments, [id |-> c(i), text |-> rev[Text(c(i))]])
      BY <1>7, <2>2
    <3> QED BY <3>1, <3>2
  <2> QED BY <1>3, <2>1, <2>2
<1>8. \A i : Place(i)' = Place(i) /\ (Moderated(i)' <=> Moderated(i))
  BY SameComments
<1>9. CommentsTaken(n + 1)'
  BY <1>6, <1>7, <1>8 DEF CommentsTaken
<1> QED BY <1>5, <1>8, <1>9 DEF CommentsDone

LEMMA EmptyLen == Len(<<>>) = 0
OBVIOUS

\* the next element of a loop, and the loop after it
LEMMA LeftNext ==
  ASSUME NEW S, NEW s \in Seq(S), todo \in Seq(S), todo # <<>>, NEW n \in 0..Len(s), Left(s, n)
  PROVE  /\ Head(todo) = s[n + 1] /\ n + 1 \in 1..Len(s)
         /\ Tail(todo) = <<>> => n + 1 = Len(s)
         /\ n + 1 + Len(Tail(todo)) = Len(s)
         /\ \A i \in 1..Len(Tail(todo)) : Tail(todo)[i] = s[n + 1 + i]
<1>1. n + Len(todo) = Len(s) /\ \A i \in 1..Len(todo) : todo[i] = s[n + i]
  BY DEF Left
<1>2. Len(todo) \in Nat \ {0} /\ Len(Tail(todo)) = Len(todo) - 1 /\ Len(s) \in Nat
  OBVIOUS
<1>3. Head(todo) = todo[1] /\ 1 \in 1..Len(todo)
  BY <1>2
<1>4. ASSUME NEW i \in 1..Len(Tail(todo)) PROVE Tail(todo)[i] = s[n + 1 + i]
  <2>1. i + 1 \in 1..Len(todo) /\ Tail(todo)[i] = todo[i + 1]
    BY <1>2
  <2>2. todo[i + 1] = s[n + (i + 1)] /\ n + (i + 1) = n + 1 + i
    BY <1>1, <2>1
  <2> QED BY <2>1, <2>2
<1>5. Tail(todo) = <<>> => Len(Tail(todo)) = 0
  BY EmptyLen, Zenon
<1>6. Head(todo) = s[n + 1] /\ n + 1 \in 1..Len(s)
  BY <1>1, <1>2, <1>3
<1> QED BY <1>1, <1>2, <1>4, <1>5, <1>6

LEMMA StepDiskInv ==
  ASSUME IInv, DataInv, RecordInv, DiskInv, [Next]_vars
  PROVE  RecordInv' /\ DiskInv'
<1>1. TypeInv /\ MaxEdits \in Nat
  BY RefreshAssumption DEF IInv
<1>2. /\ files \in [Files -> Nat] /\ rev \in [Files -> Nat]
      /\ comments \in Seq([id : Comments, text : Revs]) /\ shown \in Seq(Revs)
  BY <1>1 DEF TypeInv, Revs, DataInv
<1>3. /\ data[Lisp] # Missing => data[Lisp].comments \in Seq(Comments)
      /\ data[Tex] # Missing => data[Tex].listings \in Seq(Listings)
  BY <1>1 DEF TypeInv
<1>4. (files[Lisp] # 0 /\ Current => data[Lisp] # Missing) /\ (files[Tex] # 0 /\ Current => data[Tex] # Missing)
  BY AreFiles DEF RecordInv, Current
<1>5. Place(0) = 0
  BY Places
<1>6. CASE StartRefresh
  <2>1. UNCHANGED <<rev, data, preview, tags, comments, body>> /\ pc = "idle"
    BY <1>6 DEF StartRefresh, diskVars
  <2>2. CASE MustRefresh /\ files' = NoFiles /\ reads' = {} /\ pc' = IF preview THEN "tex" ELSE "lisp"
    <3>1. \A f \in Files : files'[f] = 0
      BY <2>2 DEF NoFiles
    <3>2. RecordInv'
      BY <3>1 DEF RecordInv
    <3> QED BY <2>1, <2>2, <3>2 DEF DiskInv, Current, MetaInv, TexInv, ListingInv, BuiltInv
  <2>3. CASE ~MustRefresh /\ pc' = "serve" /\ UNCHANGED <<files, reads>>
    <3>1. RecordInv'
      BY <2>1, <2>3 DEF RecordInv
    <3>2. Current' => Current
      BY <2>1, <2>3 DEF Current, AllReadWell, ReadWell, Revs
    <3>3. Current => BuiltInv'
      <4>1. LispDone' <=> LispDone
        BY <2>1, <2>3, SameComments DEF LispDone, CommentsDone, CommentsTaken
      <4> QED BY <2>1, <2>3, <4>1 DEF DiskInv, BuiltInv, ListingsDone, NoFiles
    <3> QED BY <2>3, <3>1, <3>2, <3>3 DEF DiskInv, MetaInv, TexInv, ListingInv
  <2> QED BY <1>6, <2>2, <2>3 DEF StartRefresh
<1>7. CASE ReadLisp
  <2>1. /\ GetCachedFile(Lisp) /\ UNCHANGED <<rev, data, preview>> /\ data[Lisp] # Missing
        /\ tags' = data[Lisp].tags /\ comments' = <<>> /\ todo' = data[Lisp].comments
        /\ pc' = IF data[Lisp].comments = <<>> THEN "tex" ELSE "meta"
    BY <1>7 DEF ReadLisp, diskVars
  <2>2. RecordInv' /\ (Current' => files'[Lisp] # 0)
    BY <2>1, AreFiles, ReadBack
  <2>3. CommentsDone(0)'
    BY <1>5, <2>1, SameComments DEF CommentsDone, CommentsTaken
  <2>4. CASE data[Lisp].comments = <<>>
    BY <2>1, <2>2, <2>3, <2>4 DEF DiskInv, MetaInv, TexInv, ListingInv, BuiltInv, LispDone
  <2>5. CASE data[Lisp].comments # <<>>
    <3>1. Left(data[Lisp].comments, 0)' /\ 0 \in 0..Len(data[Lisp].comments)
      BY <1>3, <2>1 DEF Left
    <3>2. Current' => MetaInv'
      BY <2>1, <2>2, <2>3, <2>5, <3>1 DEF MetaInv
    <3> QED BY <2>1, <2>2, <2>5, <3>2 DEF DiskInv, TexInv, ListingInv, BuiltInv
  <2> QED BY <2>4, <2>5
<1>8. CASE ReadMeta
  <2>1. /\ pc = "meta" /\ todo \in Seq(Comments) /\ todo # <<>>
        /\ GetCachedFile(Meta(Head(todo))) /\ UNCHANGED <<rev, data, preview, tags, comments>>
        /\ \/ data[Meta(Head(todo))].moderated /\ pc' = "text" /\ todo' = todo
           \/ /\ ~data[Meta(Head(todo))].moderated /\ todo' = Tail(todo)
              /\ pc' = IF Tail(todo) = <<>> THEN "tex" ELSE "meta"
    BY <1>1, <1>8 DEF ReadMeta, NextComment, TypeInv, diskVars
  <2>2. Meta(Head(todo)) \in Files
    BY <2>1, Rest, AreFiles
  <2>3. RecordInv'
    BY <2>1, <2>2, ReadBack
  <2> SUFFICES ASSUME Current' PROVE DiskInv'
    BY <2>3 DEF DiskInv
  <2>4. /\ Current /\ files'[Meta(Head(todo))] # 0
        /\ RecordKept
    BY <2>1, <2>2, ReadBack
  <2>5. files[Lisp] # 0 /\ tags = data[Lisp].tags
    BY <2>1, <2>4 DEF DiskInv, MetaInv
  <2>6. data[Lisp] # Missing /\ data[Lisp].comments \in Seq(Comments) /\ files'[Lisp] # 0
    BY <1>3, <1>4, <2>4, <2>5, AreFiles DEF RecordKept
  <2>7. PICK n \in 0..Len(data[Lisp].comments) : Left(data[Lisp].comments, n) /\ CommentsDone(n)
    BY <2>1, <2>4 DEF DiskInv, MetaInv
  <2>8. /\ Head(todo) = data[Lisp].comments[n + 1] /\ n + 1 \in 1..Len(data[Lisp].comments)
        /\ Tail(todo) = <<>> => n + 1 = Len(data[Lisp].comments)
        /\ n + 1 + Len(Tail(todo)) = Len(data[Lisp].comments)
        /\ \A i \in 1..Len(Tail(todo)) : Tail(todo)[i] = data[Lisp].comments[n + 1 + i]
    BY <2>1, <2>6, <2>7, LeftNext
  <2>9. Moderated(n + 1) <=> data[Meta(Head(todo))].moderated
    BY <2>8 DEF Moderated
  <2>10. CASE Moderated(n + 1)
    <3>1. pc' = "text" /\ todo' = todo
      BY <2>1, <2>9, <2>10
    <3>2. CommentsDone(n)'
      BY <2>1, <2>4, <2>5, <2>6, <2>7, CommentsKept
    <3>3. Left(data[Lisp].comments, n)'
      BY <2>1, <2>7, <3>1 DEF Left
    <3>4. Moderated(n + 1)' /\ files'[Meta(data'[Lisp].comments[n + 1])] # 0
      BY <2>1, <2>4, <2>8, <2>10, SameComments
    <3>5. MetaInv'
      BY <2>1, <2>5, <2>6, <2>7, <3>1, <3>2, <3>3, <3>4 DEF MetaInv
    <3> QED BY <3>1, <3>5 DEF DiskInv, TexInv, ListingInv, BuiltInv
  <2>11. CASE ~Moderated(n + 1)
    <3>1. todo' = Tail(todo) /\ pc' = IF Tail(todo) = <<>> THEN "tex" ELSE "meta"
      BY <2>1, <2>9, <2>11
    <3>2. files'[Meta(data[Lisp].comments[n + 1])] # 0
      BY <2>4, <2>8
    <3>3. CommentsDone(n + 1)'
      <4>1. n \in Nat /\ UNCHANGED <<data, rev>> /\ comments' = comments
        BY <2>1
      <4> QED BY <1>1, <1>2, <2>4, <2>6, <2>7, <2>8, <2>11, <3>2, <4>1, CommentNext, Zenon
    <3>4. CASE Tail(todo) = <<>>
      BY <2>1, <2>5, <2>6, <2>8, <3>1, <3>3, <3>4 DEF DiskInv, MetaInv, TexInv, ListingInv, BuiltInv, LispDone
    <3>5. CASE Tail(todo) # <<>>
      <4>1. Left(data[Lisp].comments, n + 1)'
        BY <2>1, <2>8, <3>1 DEF Left
      <4>2. MetaInv'
        <5>1. /\ pc' = "meta" /\ files'[Lisp] # 0 /\ tags' = data'[Lisp].tags
              /\ n + 1 \in 0..Len(data'[Lisp].comments)
          BY <2>1, <2>5, <2>6, <2>8, <3>1, <3>5
        <5> QED BY <3>3, <4>1, <5>1 DEF MetaInv
      <4> QED BY <3>1, <3>5, <4>2 DEF DiskInv, TexInv, ListingInv, BuiltInv
    <3> QED BY <3>4, <3>5
  <2> QED BY <2>10, <2>11
<1>9. CASE ReadText
  <2>1. /\ pc = "text" /\ todo \in Seq(Comments) /\ todo # <<>>
        /\ GetCachedFile(Text(Head(todo))) /\ UNCHANGED <<rev, data, preview, tags>>
        /\ comments' = Append(comments, [id |-> Head(todo), text |-> RevOf(Text(Head(todo)))])
        /\ todo' = Tail(todo) /\ pc' = IF Tail(todo) = <<>> THEN "tex" ELSE "meta"
    BY <1>1, <1>9 DEF ReadText, NextComment, TypeInv, diskVars
  <2>2. Text(Head(todo)) \in Files
    BY <2>1, Rest, AreFiles
  <2>3. RecordInv'
    BY <2>1, <2>2, ReadBack
  <2> SUFFICES ASSUME Current' PROVE DiskInv'
    BY <2>3 DEF DiskInv
  <2>4. /\ Current /\ files'[Text(Head(todo))] # 0 /\ data[Text(Head(todo))] # Missing
        /\ RecordKept
    BY <2>1, <2>2, ReadBack
  <2>5. files[Lisp] # 0 /\ tags = data[Lisp].tags
    BY <2>1, <2>4 DEF DiskInv, MetaInv
  <2>6. data[Lisp] # Missing /\ data[Lisp].comments \in Seq(Comments) /\ files'[Lisp] # 0
    BY <1>3, <1>4, <2>4, <2>5, AreFiles DEF RecordKept
  <2>7. PICK n \in 0..Len(data[Lisp].comments) :
          /\ Left(data[Lisp].comments, n) /\ CommentsDone(n)
          /\ files[Meta(data[Lisp].comments[n + 1])] # 0 /\ Moderated(n + 1)
    BY <2>1, <2>4 DEF DiskInv, MetaInv
  <2>8. /\ Head(todo) = data[Lisp].comments[n + 1] /\ n + 1 \in 1..Len(data[Lisp].comments)
        /\ Tail(todo) = <<>> => n + 1 = Len(data[Lisp].comments)
        /\ n + 1 + Len(Tail(todo)) = Len(data[Lisp].comments)
        /\ \A i \in 1..Len(Tail(todo)) : Tail(todo)[i] = data[Lisp].comments[n + 1 + i]
    BY <2>1, <2>6, <2>7, LeftNext
  <2>9. Head(todo) \in Comments /\ Meta(Head(todo)) \in Files
    BY <2>1, Rest, AreFiles
  <2>10. /\ files'[Meta(data[Lisp].comments[n + 1])] # 0 /\ files'[Text(data[Lisp].comments[n + 1])] # 0
         /\ comments' = Append(comments, [id |-> data[Lisp].comments[n + 1],
                                          text |-> rev[Text(data[Lisp].comments[n + 1])]])
    BY <2>1, <2>4, <2>7, <2>8, <2>9 DEF RevOf, RecordKept
  <2>11. CommentsDone(n + 1)'
    <3>1. n \in Nat /\ UNCHANGED <<data, rev>>
      BY <2>1
    <3> QED BY <1>1, <1>2, <2>4, <2>6, <2>7, <2>8, <2>10, <3>1, CommentNext, Zenon
  <2>12. CASE Tail(todo) = <<>>
    BY <2>1, <2>5, <2>6, <2>8, <2>11, <2>12 DEF DiskInv, MetaInv, TexInv, ListingInv, BuiltInv, LispDone
  <2>13. CASE Tail(todo) # <<>>
    <3>1. Left(data[Lisp].comments, n + 1)'
      BY <2>1, <2>8 DEF Left
    <3>2. MetaInv'
      <4>1. /\ pc' = "meta" /\ files'[Lisp] # 0 /\ tags' = data'[Lisp].tags
            /\ n + 1 \in 0..Len(data'[Lisp].comments)
        BY <2>1, <2>5, <2>6, <2>8, <2>13
      <4> QED BY <2>11, <3>1, <4>1 DEF MetaInv
    <3> QED BY <2>1, <2>13, <3>2 DEF DiskInv, TexInv, ListingInv, BuiltInv
  <2> QED BY <2>12, <2>13
<1>10. CASE ReadTex
  <2>1. /\ pc = "tex" /\ data[Tex] # Missing
        /\ GetCachedFile(Tex) /\ UNCHANGED <<rev, data, preview, tags, comments>>
        /\ tex' = data[Tex] /\ todo' = data[Tex].listings /\ shown' = <<>>
        /\ pc' = IF data[Tex].listings = <<>> THEN "parsed" ELSE "listing"
    BY <1>10 DEF ReadTex, diskVars
  <2>2. RecordInv'
    BY <2>1, AreFiles, ReadBack
  <2> SUFFICES ASSUME Current' PROVE DiskInv'
    BY <2>2 DEF DiskInv
  <2>3. Current /\ files'[Tex] # 0 /\ RecordKept
    BY <2>1, AreFiles, ReadBack
  <2>4. LispDone /\ tags = data[Lisp].tags
    BY <2>1, <2>3 DEF DiskInv, TexInv
  <2>5. LispDone' /\ tags' = data'[Lisp].tags
    <3>1. data[Lisp].comments \in Seq(Comments)
      BY <1>3, <1>4, <2>3, <2>4 DEF LispDone
    <3> QED BY <2>1, <2>3, <2>4, <3>1, LispKept
  <2>6. Len(shown') = 0
    BY <2>1, EmptyLen, Zenon
  <2>7. CASE data[Tex].listings = <<>>
    <3>1. Len(data'[Tex].listings) = 0
      BY <2>1, <2>7, EmptyLen, Zenon
    <3>2. ListingsDone(Len(data[Tex].listings), shown)'
      BY <2>1, <2>6, <3>1 DEF ListingsDone
    <3> QED BY <2>1, <2>3, <2>5, <2>7, <3>2 DEF DiskInv, MetaInv, TexInv, ListingInv, BuiltInv
  <2>8. CASE data[Tex].listings # <<>>
    <3>1. Left(data[Tex].listings, 0)' /\ 0 \in 0..Len(data'[Tex].listings)
      BY <1>3, <2>1 DEF Left
    <3>2. ListingsDone(0, shown)'
      BY <2>6 DEF ListingsDone
    <3>3. pc' = "listing" /\ tex' = data'[Tex]
      BY <2>1, <2>8
    <3>4. ListingInv'
      BY <2>3, <3>1, <3>2, <3>3 DEF ListingInv
    <3> QED BY <2>5, <3>3, <3>4 DEF DiskInv, MetaInv, TexInv, BuiltInv
  <2> QED BY <2>7, <2>8
<1>11. CASE ReadListing
  <2> DEFINE s == data[Tex].listings
  <2>1. /\ pc = "listing" /\ todo \in Seq(Listings) /\ todo # <<>>
        /\ GetCachedFile(Listing(Head(todo))) /\ UNCHANGED <<rev, data, preview, tags, comments, tex>>
        /\ shown' = Append(shown, RevOf(Listing(Head(todo))))
        /\ todo' = Tail(todo) /\ pc' = IF Tail(todo) = <<>> THEN "parsed" ELSE "listing"
    BY <1>1, <1>11 DEF ReadListing, TypeInv, diskVars
  <2>2. Listing(Head(todo)) \in Files
    BY <2>1, Rest, AreFiles
  <2>3. RecordInv'
    BY <2>1, <2>2, ReadBack
  <2> SUFFICES ASSUME Current' PROVE DiskInv'
    BY <2>3 DEF DiskInv
  <2>4. /\ Current /\ files'[Listing(Head(todo))] # 0 /\ data[Listing(Head(todo))] # Missing
        /\ RecordKept
    BY <2>1, <2>2, ReadBack
  <2>5. /\ LispDone /\ tags = data[Lisp].tags /\ files[Tex] # 0 /\ tex = data[Tex]
        /\ \E n \in 0..Len(s) : Left(s, n) /\ ListingsDone(n, shown)
    BY <2>1, <2>4 DEF DiskInv, TexInv, ListingInv
  <2>6. LispDone' /\ tags' = data'[Lisp].tags
    <3>1. data[Lisp].comments \in Seq(Comments)
      BY <1>3, <1>4, <2>4, <2>5 DEF LispDone
    <3> QED BY <2>1, <2>4, <2>5, <3>1, LispKept
  <2>7. data[Tex] # Missing /\ s \in Seq(Listings) /\ files'[Tex] # 0 /\ tex' = data'[Tex]
    BY <1>3, <1>4, <2>1, <2>4, <2>5, AreFiles DEF RecordKept
  <2>8. PICK n \in 0..Len(s) : Left(s, n) /\ ListingsDone(n, shown)
    BY <2>5
  <2>9. /\ Head(todo) = s[n + 1] /\ n + 1 \in 1..Len(s)
        /\ Tail(todo) = <<>> => n + 1 = Len(s)
        /\ n + 1 + Len(Tail(todo)) = Len(s)
        /\ \A i \in 1..Len(Tail(todo)) : Tail(todo)[i] = s[n + 1 + i]
    BY <2>1, <2>7, <2>8, LeftNext
  <2>10. /\ Len(shown) = n
         /\ \A i \in 1..n : files'[Listing(s[i])] # 0 /\ shown[i] = rev[Listing(s[i])]
    BY <2>1, <2>4, <2>7, <2>8, ListingsKept
  <2>11. ListingsDone(n + 1, shown)'
    <3>1. shown' = Append(shown, rev[Listing(s[n + 1])])
      BY <2>1, <2>4, <2>9 DEF RevOf
    <3>2. Len(shown') = n + 1
      BY <1>2, <2>10, <3>1
    <3>3. ASSUME NEW i \in 1..(n + 1)
          PROVE  files'[Listing(s[i])] # 0 /\ shown'[i] = rev[Listing(s[i])]
      <4>1. CASE i = n + 1
        BY <1>2, <2>4, <2>9, <2>10, <3>1, <4>1
      <4>2. CASE i # n + 1
        <5>1. i \in 1..n
          BY <4>2
        <5>2. shown'[i] = shown[i]
          BY <1>2, <2>10, <3>1, <5>1
        <5> QED BY <2>10, <5>1, <5>2
      <4> QED BY <4>1, <4>2
    <3> QED BY <2>1, <3>2, <3>3 DEF ListingsDone
  <2>12. CASE Tail(todo) = <<>>
    <3>1. pc' = "parsed" /\ n + 1 = Len(data'[Tex].listings)
      BY <2>1, <2>9, <2>12
    <3>2. ListingsDone(Len(data[Tex].listings), shown)'
      BY <2>11, <3>1
    <3> QED BY <2>6, <2>7, <3>1, <3>2 DEF DiskInv, MetaInv, TexInv, ListingInv, BuiltInv
  <2>13. CASE Tail(todo) # <<>>
    <3>1. pc' = "listing" /\ n + 1 \in 0..Len(data'[Tex].listings)
      BY <2>1, <2>9, <2>13
    <3>2. ListingInv'
      <4>1. Left(s, n + 1)'
        BY <2>1, <2>9 DEF Left
      <4> QED BY <2>7, <2>11, <3>1, <4>1 DEF ListingInv
    <3> QED BY <2>6, <3>1, <3>2 DEF DiskInv, MetaInv, TexInv, BuiltInv
  <2> QED BY <2>12, <2>13
<1>12. CASE TakeParsed
  <2>1. /\ pc = "parsed" /\ pc' = "serve" /\ UNCHANGED <<rev, data, preview, files, reads, comments>>
        /\ tags' = tags \cup tex.tags /\ body' = [tex |-> files[Tex], listings |-> shown]
    BY <1>12 DEF TakeParsed, diskVars
  <2>2. RecordInv' /\ (Current' <=> Current)
    BY <2>1 DEF RecordInv, Current, AllReadWell, ReadWell, Revs
  <2> SUFFICES ASSUME Current PROVE DiskInv'
    BY <2>2 DEF DiskInv
  <2>3. /\ LispDone /\ tags = data[Lisp].tags /\ files[Tex] # 0 /\ tex = data[Tex]
        /\ ListingsDone(Len(data[Tex].listings), shown)
    BY <2>1 DEF DiskInv, TexInv, ListingInv
  <2>4. LispDone'
    <3>1. data[Lisp].comments \in Seq(Comments)
      BY <1>3, <1>4, <2>3 DEF LispDone
    <3> QED BY <2>1, <2>3, <3>1, LispKept DEF RecordKept
  <2>5. files'[Tex] # 0 /\ tags' = data'[Lisp].tags \cup data'[Tex].tags
    BY <2>1, <2>3
  <2>6. body' = [tex |-> rev'[Tex], listings |-> shown] /\ body'.listings = shown
    BY <2>1, <2>3, AreFiles DEF Current
  <2>7. ListingsDone(Len(data[Tex].listings), body.listings)'
    BY <2>1, <2>3, <2>6 DEF ListingsDone
  <2> QED BY <2>1, <2>4, <2>5, <2>6, <2>7 DEF DiskInv, MetaInv, TexInv, ListingInv, BuiltInv
<1>13. CASE RefreshFails \/ Serve \/ Ended \/ UNCHANGED vars
  <2>1. /\ UNCHANGED <<rev, data, preview, files, reads, tags, comments, body, todo, tex, shown>>
        /\ pc' = "failed" \/ pc' = pc \/ (pc = "serve" /\ pc' = "idle")
    BY <1>13 DEF RefreshFails, Serve, Ended, vars, diskVars
  <2>2. RecordInv' /\ (Current' <=> Current)
    BY <2>1 DEF RecordInv, Current, AllReadWell, ReadWell, Revs
  <2>3. /\ \A i : Place(i)' = Place(i) /\ (Moderated(i)' <=> Moderated(i))
        /\ NoFiles' = NoFiles
    BY <2>1, SameComments DEF NoFiles
  <2>4. /\ \A n : CommentsDone(n)' <=> CommentsDone(n)
        /\ LispDone' <=> LispDone
    BY <2>1, <2>3 DEF CommentsDone, CommentsTaken, LispDone
  <2>5. Current => MetaInv'
    BY <2>1, <2>3, <2>4 DEF DiskInv, MetaInv, Left
  <2>6. Current => TexInv'
    BY <2>1, <2>4 DEF DiskInv, TexInv
  <2>7. Current => ListingInv'
    BY <2>1 DEF DiskInv, ListingInv, Left, ListingsDone
  <2>8. Current => BuiltInv'
    BY <2>1, <2>3, <2>4 DEF DiskInv, BuiltInv, ListingsDone
  <2> QED BY <2>2, <2>5, <2>6, <2>7, <2>8 DEF DiskInv
<1>14. ASSUME NEW f \in Files, EditFile(f) PROVE RecordInv' /\ DiskInv'
  <2>1. /\ rev' = [rev EXCEPT ![f] = rev[f] + 1]
        /\ UNCHANGED <<preview, files, reads, tags, comments, body, pc, todo, tex, shown>>
    BY <1>14 DEF EditFile
  <2>2. PICK v : data' = [data EXCEPT ![f] = v]
    BY <1>14 DEF EditFile
  <2>3. /\ rev'[f] = rev[f] + 1 /\ \A g \in Files \ {f} : rev'[g] = rev[g]
        /\ \A g \in Files \ {f} : data'[g] = data[g]
    BY <1>2, <2>1, <2>2
  <2>4. \A g \in Files : files[g] # 0 => files[g] <= rev[g]
    BY DEF RecordInv
  <2>5. RecordInv'
    <3> SUFFICES ASSUME NEW g \in Files, files[g] # 0
                 PROVE  /\ files[g] <= rev'[g] /\ <<g, files[g]>> \in reads
                        /\ rev'[g] = files[g] => data'[g] # Missing
      BY <2>1 DEF RecordInv
    <3>1. CASE g = f
      BY <1>2, <2>3, <2>4, <3>1 DEF RecordInv
    <3>2. CASE g # f
      BY <2>3, <3>2 DEF RecordInv
    <3> QED BY <3>1, <3>2
  <2> SUFFICES ASSUME Current' PROVE DiskInv'
    BY <2>5 DEF DiskInv
  <2>6. files[f] = 0
    BY <1>2, <2>1, <2>3, <2>4 DEF Current
  <2>7. RecordKept
    BY <2>1, <2>3, <2>6 DEF RecordKept
  <2>8. Current
    <3>1. AllReadWell /\ ~preview
      BY <2>1 DEF Current, AllReadWell, ReadWell, Revs
    <3>2. \A g \in Files : files[g] # 0 => rev[g] = files[g]
      BY <2>1, <2>3, <2>6 DEF Current
    <3> QED BY <3>1, <3>2 DEF Current
  <2>9. MetaInv /\ TexInv /\ ListingInv /\ BuiltInv
    BY <2>8 DEF DiskInv
  <2>10. files[Lisp] # 0 => data'[Lisp] = data[Lisp] /\ data[Lisp].comments \in Seq(Comments)
    BY <1>3, <1>4, <2>7, <2>8, AreFiles DEF RecordKept
  <2>11. files[Tex] # 0 => /\ data'[Tex] = data[Tex] /\ rev'[Tex] = rev[Tex]
                           /\ data[Tex].listings \in Seq(Listings)
    BY <1>3, <1>4, <2>7, <2>8, AreFiles DEF RecordKept
  <2>12. LispDone => LispDone' /\ files[Lisp] # 0
    <3>1. LispDone => files[Lisp] # 0
      BY DEF LispDone
    <3> QED BY <2>1, <2>7, <2>10, <3>1, LispKept
  <2>13. ASSUME files[Tex] # 0, NEW n \in 0..Len(data[Tex].listings), NEW seq, ListingsDone(n, seq)
         PROVE  /\ Len(seq) = n
                /\ \A i \in 1..n : /\ files'[Listing(data'[Tex].listings[i])] # 0
                                   /\ seq[i] = rev'[Listing(data'[Tex].listings[i])]
    BY <2>7, <2>11, <2>13, ListingsKept
  <2>14. MetaInv'
    <3> SUFFICES ASSUME pc \in {"meta", "text"} PROVE MetaInv'
      BY <2>1 DEF MetaInv
    <3>1. files[Lisp] # 0 /\ tags = data[Lisp].tags
      BY <2>9 DEF MetaInv
    <3>2. PICK n \in 0..Len(data[Lisp].comments) :
            /\ Left(data[Lisp].comments, n) /\ CommentsDone(n)
            /\ pc = "text" => files[Meta(data[Lisp].comments[n + 1])] # 0 /\ Moderated(n + 1)
      BY <2>9 DEF MetaInv
    <3>3. CommentsDone(n)'
      BY <2>1, <2>7, <2>10, <3>1, <3>2, CommentsKept
    <3>4. Left(data[Lisp].comments, n)'
      BY <2>1, <2>10, <3>1, <3>2 DEF Left
    <3>5. ASSUME pc = "text" PROVE files'[Meta(data'[Lisp].comments[n + 1])] # 0 /\ Moderated(n + 1)'
      <4>1. todo \in Seq(Comments) /\ todo # <<>>
        BY <1>1, <3>5 DEF TypeInv
      <4>2. n + 1 \in 1..Len(data[Lisp].comments)
        BY <2>10, <3>1, <3>2, <4>1, LeftNext
      <4>3. Meta(data[Lisp].comments[n + 1]) \in Files
        BY <2>10, <3>1, <4>2, AreFiles
      <4> QED BY <2>1, <2>7, <2>10, <3>1, <3>2, <3>5, <4>3 DEF RecordKept, Moderated
    <3>6. files'[Lisp] # 0 /\ tags' = data'[Lisp].tags /\ n \in 0..Len(data'[Lisp].comments) /\ pc' = pc
      BY <2>1, <2>10, <3>1
    <3> QED BY <3>3, <3>4, <3>5, <3>6 DEF MetaInv
  <2>15. TexInv'
    BY <2>1, <2>9, <2>10, <2>12 DEF TexInv
  <2>16. ListingInv'
    <3> SUFFICES ASSUME pc \in {"listing", "parsed"} PROVE ListingInv'
      BY <2>1 DEF ListingInv
    <3>1. files[Tex] # 0 /\ tex = data[Tex]
      BY <2>9 DEF ListingInv
    <3>2. ASSUME pc = "listing"
          PROVE  \E n \in 0..Len(data'[Tex].listings) : Left(data[Tex].listings, n)' /\ ListingsDone(n, shown)'
      <4>1. PICK n \in 0..Len(data[Tex].listings) : Left(data[Tex].listings, n) /\ ListingsDone(n, shown)
        BY <2>9, <3>2 DEF ListingInv
      <4>2. Left(data[Tex].listings, n)' /\ n \in 0..Len(data'[Tex].listings)
        BY <2>1, <2>11, <3>1, <4>1 DEF Left
      <4>3. ListingsDone(n, shown)'
        BY <2>1, <2>13, <3>1, <4>1 DEF ListingsDone
      <4> QED BY <4>2, <4>3
    <3>3. ASSUME pc = "parsed" PROVE ListingsDone(Len(data[Tex].listings), shown)'
      <4>1. ListingsDone(Len(data[Tex].listings), shown)
        BY <2>9, <3>3 DEF ListingInv
      <4> QED BY <2>1, <2>11, <2>13, <3>1, <4>1 DEF ListingsDone
    <3> QED BY <2>1, <2>11, <3>1, <3>2, <3>3 DEF ListingInv
  <2>17. BuiltInv'
    <3> SUFFICES ASSUME pc \in {"idle", "serve"}, files # NoFiles PROVE BuiltInv'
      BY <2>1 DEF BuiltInv, NoFiles
    <3>1. /\ LispDone /\ files[Tex] # 0 /\ tags = data[Lisp].tags \cup data[Tex].tags
          /\ body = [tex |-> rev[Tex], listings |-> body.listings]
          /\ ListingsDone(Len(data[Tex].listings), body.listings)
      BY <2>9 DEF BuiltInv
    <3>2. ListingsDone(Len(data[Tex].listings), body.listings)'
      BY <2>1, <2>11, <2>13, <3>1 DEF ListingsDone
    <3> QED BY <2>1, <2>10, <2>11, <2>12, <3>1, <3>2 DEF BuiltInv
  <2> QED BY <2>14, <2>15, <2>16, <2>17 DEF DiskInv
<1> QED BY <1>6, <1>7, <1>8, <1>9, <1>10, <1>11, <1>12, <1>13, <1>14 DEF Next

LEMMA InitDiskInv == Init => RecordInv /\ DiskInv
<1> SUFFICES ASSUME Init PROVE RecordInv /\ DiskInv
  OBVIOUS
<1>1. pc = "idle" /\ files = NoFiles
  BY DEF Init
<1> QED BY <1>1 DEF RecordInv, DiskInv, MetaInv, TexInv, ListingInv, BuiltInv, NoFiles

\* post_refresh under the post lock: whatever was edited before or between,
\* if nothing changed while the caller had the lock, it serves the tags, the
\* moderated comments in order and the body that are on disk.
THEOREM AlwaysAsOnDisk == Spec => []ServedAsOnDisk
<1>1. IInv /\ DataInv /\ RecordInv /\ DiskInv => ServedAsOnDisk
  <2> SUFFICES ASSUME IInv, DataInv, RecordInv, DiskInv, pc = "serve", ~edited, ~preview, AllReadWell
               PROVE  /\ tags = data[Lisp].tags \cup data[Tex].tags
                      /\ CommentsTaken(Len(data[Lisp].comments))
                      /\ body = [tex |-> rev[Tex],
                                 listings |-> [i \in DOMAIN data[Tex].listings |->
                                                 rev[Listing(data[Tex].listings[i])]]]
    BY DEF ServedAsOnDisk
  <2>1. files \in [Files -> Nat] /\ rev \in [Files -> Nat]
    BY RefreshAssumption DEF IInv, TypeInv, Revs
  <2>2. \A f \in Files : files[f] # 0 => rev[f] = files[f]
    <3>1. \A f \in Files : files[f] # 0 => rev[f] <= files[f]
      BY DEF IInv, CurrentInv
    <3>2. \A f \in Files : files[f] # 0 => files[f] <= rev[f]
      BY DEF RecordInv
    <3> QED BY <2>1, <3>1, <3>2
  <2>3. Current /\ files # NoFiles
    BY <2>2 DEF Current, IInv, RecordedInv, NoFiles
  <2>4. /\ LispDone /\ files[Tex] # 0
        /\ tags = data[Lisp].tags \cup data[Tex].tags
        /\ body = [tex |-> rev[Tex], listings |-> body.listings]
        /\ ListingsDone(Len(data[Tex].listings), body.listings)
    BY <2>3 DEF DiskInv, BuiltInv
  <2>5. data[Tex].listings \in Seq(Listings) /\ body.listings \in Seq(Revs)
    BY <2>2, <2>4, AreFiles DEF RecordInv, IInv, TypeInv, DataInv
  <2>6. body.listings = [i \in DOMAIN data[Tex].listings |-> rev[Listing(data[Tex].listings[i])]]
    BY <2>4, <2>5 DEF ListingsDone
  <2> QED BY <2>4, <2>6 DEF LispDone, CommentsDone
<1>2. RecordInv /\ DiskInv /\ IInv /\ DataInv /\ [Next]_vars => (RecordInv /\ DiskInv)'
  BY StepDiskInv
<1>3. IInv => TypeInv
  BY DEF IInv
<1>4. TypeInv /\ DataInv /\ [Next]_vars => DataInv'
  BY NextDataInv
<1> QED BY <1>1, <1>2, <1>3, <1>4, InitDiskInv, InitDataInv, Invariance, PTL DEF Spec
=============================================================================
