---------------------------- MODULE PostRefresh ----------------------------
(***************************************************************************)
(* post_refresh of one post, file by file (post.c, listing.c): which files *)
(* a post is built from, which of them are recorded in post->files, and    *)
(* what must_refresh concludes from them later.                            *)
(*                                                                         *)
(* The caller holds post->lock, so refreshes of the post do not overlap    *)
(* (see PostCache); an author edits the files between any two reads.       *)
(* Every read returns the file's current revision, and                     *)
(* file_cache_has_newer knows of every change after it, a removal          *)
(* included.                                                               *)
(***************************************************************************)
EXTENDS Naturals, Sequences, FiniteSets

CONSTANTS
  Comments,      \* comment ids
  Listings,      \* the files that \listing commands name
  LispVersions,  \* what post.lisp may say: [tags, comments]
  TexVersions,   \* what post.tex may say: [tags, image, listings]
  NoImage,       \* post.tex has no \twitterimg
  Missing,       \* there is no such file
  MaxEdits       \* bound: edits in a behaviour

Lisp == <<"post.lisp">>
Tex == <<"post.tex">>
Meta(c) == <<"meta.lisp", c>>
Text(c) == <<"text.txt", c>>
Listing(l) == <<"listing", l>>

Files == {Lisp, Tex} \cup {Meta(c) : c \in Comments} \cup {Text(c) : c \in Comments}
           \cup {Listing(l) : l \in Listings}

\* what the author may leave in a file
Contents(f) ==
  {Missing} \cup CASE f = Lisp -> LispVersions
                   [] f = Tex -> TexVersions
                   [] f \in {Meta(c) : c \in Comments} -> [moderated : BOOLEAN]
                   [] OTHER -> {[text |-> TRUE]}

ASSUME RefreshAssumption ==
  /\ \A v \in LispVersions : v.comments \in Seq(Comments)
  /\ \A v \in TexVersions : v.listings \in Seq(Listings)
  /\ MaxEdits \in Nat

VARIABLES
  rev, data,     \* the revision and contents of every file
  preview,
  files,         \* post->files: the revision of each recorded file, 0: not recorded
  tags,          \* post->tags
  comments,      \* post->comments: [id, text], text being a revision of the
                 \* comment's text.txt, or 0 for the "could not load" message
  image,         \* post->twitter_img
  body,          \* post->body: the revision of post.tex and what its \listings
                 \* show: a revision, or 0 for the "Failed to read" message
  pc, todo,      \* the running refresh: what it reads next
  tex, shown,    \* the post.tex being parsed and the \listings expanded so far
  reads,         \* history: <<file, revision>> of every read of the last
                 \* refresh; revision 0: the file was not there
  edited,        \* history: a file has changed since the caller took the lock
  edits

diskVars == <<rev, data, edited, edits>>
vars == <<rev, data, preview, files, tags, comments, image, body, pc, todo,
          tex, shown, reads, edited, edits>>

NoFiles == [f \in Files |-> 0]

Init ==
  /\ rev = [f \in Files |-> 1]
  /\ \E lisp \in Contents(Lisp), t \in Contents(Tex),
        meta \in [Comments -> {Missing} \cup [moderated : BOOLEAN]],
        there \in SUBSET (Files \ ({Lisp, Tex} \cup {Meta(c) : c \in Comments})) :
       data = [f \in Files |-> CASE f = Lisp -> lisp
                                 [] f = Tex -> t
                                 [] f[1] = "meta.lisp" -> meta[f[2]]
                                 [] f \in there -> [text |-> TRUE]
                                 [] OTHER -> Missing]
  /\ preview \in BOOLEAN
  /\ files = NoFiles
  /\ tags = {}
  /\ comments = <<>>
  /\ image = NoImage
  /\ body = [tex |-> 0, listings |-> <<>>]
  /\ pc = "idle"
  /\ todo = <<>>
  /\ tex = Missing
  /\ shown = <<>>
  /\ reads = {}
  /\ edited = FALSE
  /\ edits = 0

-----------------------------------------------------------------------------

\* (mutant) only the post's own two files are compared
MustRefreshOwn ==
  preview \/ files = NoFiles \/ \E f \in {Lisp, Tex} : files[f] # 0 /\ rev[f] > files[f]

MustRefresh == preview \/ files = NoFiles \/ \E f \in Files : files[f] # 0 /\ rev[f] > files[f]

\* (mutant) the old file names are kept
StartRefreshKeeps ==
  /\ pc = "idle"
  /\ pc' = IF ~MustRefresh THEN "serve" ELSE IF preview THEN "tex" ELSE "lisp"
  /\ reads' = IF MustRefresh THEN {} ELSE reads
  /\ edited' = FALSE
  /\ UNCHANGED <<rev, data, edits, preview, files, tags, comments, image, body, todo, tex, shown>>

\* post_lock, must_refresh and post_remove_all_filenames
StartRefresh ==
  /\ pc = "idle"
  /\ edited' = FALSE
  /\ \/ /\ MustRefresh
        /\ files' = NoFiles
        /\ reads' = {}
        /\ pc' = IF preview THEN "tex" ELSE "lisp"
     \/ /\ ~MustRefresh
        /\ pc' = "serve"
        /\ UNCHANGED <<files, reads>>
  /\ UNCHANGED <<rev, data, edits, preview, tags, comments, image, body, todo,
                 tex, shown>>

\* post_get_cached_file: only a file that is there is recorded
GetCachedFile(f) ==
  IF data[f] = Missing
  THEN reads' = reads \cup {<<f, 0>>} /\ UNCHANGED files
  ELSE reads' = reads \cup {<<f, rev[f]>>} /\ files' = [files EXCEPT ![f] = rev[f]]

\* what a read of f contributes to the post
RevOf(f) == IF data[f] = Missing THEN 0 ELSE rev[f]

\* (mutant) the comments of the previous refresh stay
ReadLispAppends ==
  /\ pc = "lisp"
  /\ data[Lisp] # Missing
  /\ GetCachedFile(Lisp)
  /\ tags' = data[Lisp].tags
  /\ todo' = data[Lisp].comments
  /\ pc' = IF data[Lisp].comments = <<>> THEN "tex" ELSE "meta"
  /\ UNCHANGED <<diskVars, preview, comments, image, body, tex, shown>>

\* __refresh_published, up to the comments
ReadLisp ==
  /\ pc = "lisp"
  /\ data[Lisp] # Missing
  /\ GetCachedFile(Lisp)
  /\ tags' = data[Lisp].tags
  /\ comments' = <<>>
  /\ todo' = data[Lisp].comments
  /\ pc' = IF data[Lisp].comments = <<>> THEN "tex" ELSE "meta"
  /\ UNCHANGED <<diskVars, preview, image, body, tex, shown>>

\* the loop of post_add_comments goes on, or ends
NextComment ==
  /\ todo' = Tail(todo)
  /\ pc' = IF Tail(todo) = <<>> THEN "tex" ELSE "meta"

\* post_add_comment: meta.lisp says whether the comment is moderated
ReadMeta ==
  /\ pc = "meta"
  /\ data[Meta(Head(todo))] # Missing
  /\ GetCachedFile(Meta(Head(todo)))
  /\ \/ /\ data[Meta(Head(todo))].moderated
        /\ pc' = "text"
        /\ UNCHANGED todo
     \/ /\ ~data[Meta(Head(todo))].moderated
        /\ NextComment
  /\ UNCHANGED <<diskVars, preview, tags, comments, image, body, tex, shown>>

\* load_comment
ReadText ==
  /\ pc = "text"
  /\ GetCachedFile(Text(Head(todo)))
  /\ comments' = Append(comments, [id |-> Head(todo), text |-> RevOf(Text(Head(todo)))])
  /\ NextComment
  /\ UNCHANGED <<diskVars, preview, tags, image, body, tex, shown>>

\* __load_post_body: the text is parsed as it was when it was read
ReadTex ==
  /\ pc = "tex"
  /\ data[Tex] # Missing
  /\ GetCachedFile(Tex)
  /\ tex' = data[Tex]
  /\ todo' = data[Tex].listings
  /\ shown' = <<>>
  /\ pc' = IF data[Tex].listings = <<>> THEN "parsed" ELSE "listing"
  /\ UNCHANGED <<diskVars, preview, tags, comments, image, body>>

\* __process_listing
ReadListing ==
  /\ pc = "listing"
  /\ GetCachedFile(Listing(Head(todo)))
  /\ shown' = Append(shown, RevOf(Listing(Head(todo))))
  /\ todo' = Tail(todo)
  /\ pc' = IF Tail(todo) = <<>> THEN "parsed" ELSE "listing"
  /\ UNCHANGED <<diskVars, preview, tags, comments, image, body, tex>>

\* the end of __do_load_post_body_fmt3: the post takes what the parser found
TakeParsed ==
  /\ pc = "parsed"
  /\ tags' = tags \cup tex.tags
  /\ image' = IF tex.image = NoImage THEN image ELSE tex.image
  /\ body' = [tex |-> files[Tex], listings |-> shown]
  /\ tex' = Missing
  /\ shown' = <<>>
  /\ pc' = "serve"
  /\ UNCHANGED <<diskVars, preview, files, comments, todo, reads>>

\* no post.lisp or post.tex: post_refresh fails; no meta.lisp: an assertion.
\* The post is given up, or the daemon ends (see PostCache)
RefreshFails ==
  /\ \/ pc = "lisp" /\ data[Lisp] = Missing
     \/ pc = "tex" /\ data[Tex] = Missing
     \/ pc = "meta" /\ data[Meta(Head(todo))] = Missing
  /\ pc' = "failed"
  /\ UNCHANGED <<diskVars, preview, files, tags, comments, image, body, todo,
                 tex, shown, reads>>

\* __store_vars and post_unlock
Serve ==
  /\ pc = "serve"
  /\ pc' = "idle"
  /\ UNCHANGED <<diskVars, preview, files, tags, comments, image, body, todo,
                 tex, shown, reads>>

\* the author changes, adds or removes a file
EditFile(f) ==
  /\ pc # "failed"
  /\ edits < MaxEdits
  /\ edits' = edits + 1
  /\ rev' = [rev EXCEPT ![f] = @ + 1]
  /\ \E v \in Contents(f) \ {data[f]} : data' = [data EXCEPT ![f] = v]
  /\ edited' = TRUE
  /\ UNCHANGED <<preview, files, tags, comments, image, body, pc, todo, tex,
                 shown, reads>>

Ended ==
  /\ pc = "failed"
  /\ UNCHANGED vars

Next ==
  \/ StartRefresh \/ ReadLisp \/ ReadMeta \/ ReadText \/ ReadTex \/ ReadListing
  \/ TakeParsed \/ RefreshFails \/ Serve
  \/ \E f \in Files : EditFile(f)
  \/ Ended

Spec == Init /\ [][Next]_vars

-----------------------------------------------------------------------------
(* What must hold *)

Revs == 0..(MaxEdits + 1)

\* Type invariant; the loops over the comments and the listings have an
\* element to work on.
TypeOK ==
  /\ rev \in [Files -> Revs \ {0}]
  /\ \A f \in Files : data[f] \in Contents(f)
  /\ preview \in BOOLEAN
  /\ files \in [Files -> Revs]
  /\ comments \in Seq([id : Comments, text : Revs])
  /\ body.tex \in Revs /\ body.listings \in Seq(Revs)
  /\ pc \in {"idle", "lisp", "meta", "text", "tex", "listing", "parsed", "serve", "failed"}
  /\ pc \in {"meta", "text"} => todo \in Seq(Comments) \ {<<>>}
  /\ pc = "listing" => todo \in Seq(Listings) \ {<<>>}
  /\ reads \in SUBSET (Files \X Revs)
  /\ edited \in BOOLEAN
  /\ edits \in 0..MaxEdits

\* the last refresh found f, and found it the same if it read it twice
ReadWell(f) == \A r, s \in Revs : <<f, r>> \in reads /\ <<f, s>> \in reads => r = s /\ r # 0

AllReadWell == \A f \in Files : ReadWell(f)

\* A file that changed after it went into the post is noticed: whatever the
\* file and whenever the edit came, the next caller refreshes.  (A file that
\* was missing, or that the refresh read twice with an edit in between, may
\* go unnoticed: hence ReadWell.)
ChangeNoticed ==
  pc \in {"idle", "serve"} =>
    \A f \in Files, r \in Revs :
      (<<f, r>> \in reads /\ ReadWell(f) /\ rev[f] > r) => MustRefresh

\* the i-th comment of post.lisp may be shown; it is then the Place(i)-th shown
Moderated(i) == data[Meta(data[Lisp].comments[i])].moderated

Place(i) == Cardinality({j \in 1..i : Moderated(j)})

\* the comments up to the n-th of post.lisp have become those of the post
CommentsTaken(n) ==
  /\ Len(comments) = Place(n)
  /\ \A i \in 1..n : Moderated(i) =>
       comments[Place(i)] = [id |-> data[Lisp].comments[i],
                             text |-> rev[Text(data[Lisp].comments[i])]]

\* If no file changed while the caller had the lock, the post it shows is
\* what the files say: the comments that post.lisp lists and their meta.lisp
\* lets through, in that order, with their texts; the tags of both files;
\* the body with its listings.  Nothing of an earlier version is left.
ServedAsOnDisk ==
  (pc = "serve" /\ ~edited /\ ~preview /\ AllReadWell) =>
    /\ tags = data[Lisp].tags \cup data[Tex].tags
    /\ CommentsTaken(Len(data[Lisp].comments))
    /\ body = [tex |-> rev[Tex],
               listings |-> [i \in DOMAIN data[Tex].listings |->
                               rev[Listing(data[Tex].listings[i])]]]

\* Refreshing settles: if nothing changes, the next caller need not refresh
\* the post again, even when files it used to be made of are now different.
RefreshSettles == (pc = "serve" /\ ~edited /\ ~preview) => ~MustRefresh
=============================================================================
