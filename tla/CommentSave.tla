---------------------------- MODULE CommentSave ----------------------------
(***************************************************************************)
(* comment.c: a visitor's comment is checked and then saved as a directory *)
(* under pending-comments/, which is built under a name ending in W and    *)
(* renamed when it is complete.  Several SCGI workers do this at a time;   *)
(* any system call may fail, and the process may die anywhere.             *)
(*                                                                         *)
(* One step is one system call or one use of memory the workers share.     *)
(* xmkdir, write_file and xrename are those of POSIX: mkdir fails if the   *)
(* name exists, rename fails if the target is a directory that is not      *)
(* empty.  All comments are for one post: the post id only makes names     *)
(* differ more.                                                            *)
(***************************************************************************)
EXTENDS Integers, FiniteSets

CONSTANTS
  Workers,
  Forms,              \* what visitors submit, see Form
  Word,               \* 2^64
  MinThink, MaxThink, \* config.comment_min_think and _max_think, as times
  Captcha,            \* comment_captcha_a + comment_captcha_b
  None,
  StartClock, MaxClock, MaxRequests, MaxCrashes   \* bounds

\* A field of the form is not there, there and empty, or filled in; a number
\* may be Absent.  "request" is what save_comment makes of the request as a
\* whole: no user agent, no address or body, a form that does not parse or
\* has no proper post id, or none of these.
Absent == -1
Field == {"absent", "blank", "filled"}
Form == [request : {"no agent", "internal", "generic", "none"},
         empty : Field, date : 0..(Word - 1) \cup {Absent}, captcha : Nat \cup {Absent},
         email : Field, author : Field, comment : Field, url : Field]

ASSUME CommentAssumption ==
  /\ Forms \subseteq Form
  /\ Word \in Nat
  /\ MinThink \in Nat /\ MaxThink \in MinThink..(Word - 1)
  /\ MaxClock \in 0..(Word - 1)
  /\ StartClock \in MaxThink..MaxClock   \* 1970 is longer ago than MaxThink

VARIABLES
  clock,     \* gettime()
  nonce,     \* write_out_comment's static counter
  dirs,      \* pending-comments/: [name, work, text, meta], text and meta being
             \* the request that the file is of, 0: no file, -1: part of one
  requests,  \* the number of requests so far; a request's id
  crashes,
  pc, req, form, now, name, refs, err,   \* of each worker
  forms, arrival,  \* history: each request's form and spam_check's now
  answered   \* history: [request, err], err "none" if told it was saved

shared == <<nonce, dirs>>
world == <<clock, requests, crashes, forms, arrival, answered>>
local == <<req, form, now>>
vars == <<clock, nonce, dirs, requests, crashes, pc, req, form, now, name,
          refs, err, forms, arrival, answered>>

\* the string references save_comment passes to write_out_comment
Strings == {"author", "email", "url", "comment"}
NoRefs == [s \in Strings |-> 0]

Init ==
  /\ clock = StartClock
  /\ nonce = 0
  /\ dirs = {}
  /\ requests = 0
  /\ crashes = 0
  /\ pc = [w \in Workers |-> "idle"]
  /\ req = [w \in Workers |-> 0]
  /\ form = [w \in Workers |-> None]
  /\ now = [w \in Workers |-> 0]
  /\ name = [w \in Workers |-> None]
  /\ refs = [w \in Workers |-> NoRefs]
  /\ err = [w \in Workers |-> "none"]
  /\ forms = <<>>
  /\ arrival = <<>>
  /\ answered = {}

-----------------------------------------------------------------------------
(* The checks *)

\* (mutant) the difference, whichever time is the later
ThinkTimeAbs(t, d) == IF t >= d THEN t - d ELSE d - t

\* now - date, in uint64_t
ThinkTime(t, d) == (t - d) % Word

\* of a sequence of <<what is wrong, error>> the first that applies
FirstError(checks) ==
  LET wrong == {i \in DOMAIN checks : checks[i][1]}
  IN IF wrong = {} THEN "none"
     ELSE checks[CHOOSE i \in wrong : \A j \in wrong : i <= j][2]

SpamCheck(f, t) ==
  FirstError(<< <<f.empty # "blank", "generic">>,
                <<f.date = Absent, "generic">>,
                <<ThinkTime(t, f.date) \notin MinThink..MaxThink, "generic">>,
                <<f.captcha = Absent, "generic">>,
                <<f.captcha # Captcha, "captcha">> >>)

\* get_str of the fields in turn; only the url may be empty
GetStrings(f) ==
  FirstError(<< <<f.email = "absent", "generic">>,   <<f.email = "blank", "no email">>,
                <<f.author = "absent", "generic">>,  <<f.author = "blank", "no name">>,
                <<f.comment = "absent", "generic">>, <<f.comment = "blank", "no content">>,
                <<f.url = "absent", "generic">> >>)

\* save_comment up to get_strings
Submit(w) ==
  /\ pc[w] = "idle"
  /\ requests < MaxRequests
  /\ requests' = requests + 1
  /\ req' = [req EXCEPT ![w] = requests + 1]
  /\ \E f \in Forms :
       LET e == FirstError(<< <<f.request # "none", f.request>>,
                              <<SpamCheck(f, clock) # "none", SpamCheck(f, clock)>>,
                              <<GetStrings(f) # "none", GetStrings(f)>> >>)
       IN /\ form' = [form EXCEPT ![w] = f]
          /\ forms' = [r \in 1..(requests + 1) |-> IF r = requests + 1 THEN f ELSE forms[r]]
          /\ err' = [err EXCEPT ![w] = e]
          /\ pc' = [pc EXCEPT ![w] = IF e = "none" THEN "get_post" ELSE "done"]
          /\ refs' = [refs EXCEPT ![w] =
                        IF e # "none" THEN NoRefs
                        ELSE [s \in Strings |-> IF s = "url" /\ f.url = "blank" THEN 0 ELSE 1]]
  /\ arrival' = [r \in 1..(requests + 1) |-> IF r = requests + 1 THEN clock ELSE arrival[r]]
  /\ UNCHANGED <<clock, shared, crashes, now, name, answered>>

-----------------------------------------------------------------------------
(* write_out_comment *)

\* times[s] str_putrefs of string s; NULL has no count
Put(w, times) ==
  refs' = [refs EXCEPT ![w] =
             [s \in Strings |-> IF s = "url" /\ form[w].url = "blank" THEN 0
                                ELSE refs[w][s] - times[s]]]

Once(strings) == [s \in Strings |-> IF s \in strings THEN 1 ELSE 0]

\* the err label: every string is put, whatever was done with it before
Fail(w, e) ==
  /\ Put(w, Once(Strings))
  /\ err' = [err EXCEPT ![w] = e]
  /\ pc' = [pc EXCEPT ![w] = "done"]

GoTo(w, where) ==
  /\ pc' = [pc EXCEPT ![w] = where]
  /\ UNCHANGED err

\* get_post (see PostCache) finds the post, or does not
GetPost(w) ==
  /\ pc[w] = "get_post"
  /\ \/ GoTo(w, "gettime") /\ UNCHANGED refs
     \/ Fail(w, "generic")
  /\ UNCHANGED <<world, shared, local, name>>

\* gettime, and gmtime, which may fail; the date made of it is left out
GetTime(w) ==
  /\ pc[w] = "gettime"
  /\ now' = [now EXCEPT ![w] = clock]
  /\ \/ GoTo(w, "name") /\ UNCHANGED refs
     \/ Fail(w, "internal")
  /\ UNCHANGED <<world, nonce, dirs, req, form, name>>

\* the directory's name: the time, and atomic_inc(&nonce)
MakeName(w) ==
  /\ pc[w] = "name"
  /\ nonce' = nonce + 1
  /\ name' = [name EXCEPT ![w] = <<now[w], nonce + 1>>]
  /\ GoTo(w, "mkdir")
  /\ UNCHANGED <<world, dirs, req, form, now, refs>>

WorkDirs(n) == {d \in dirs : d.name = n /\ d.work}
FinalDirs(n) == {d \in dirs : d.name = n /\ ~d.work}

EmptyDir(n, work) == [name |-> n, work |-> work, text |-> 0, meta |-> 0]

\* xmkdir of the work directory
MakeDir(w) ==
  /\ pc[w] = "mkdir"
  /\ \/ /\ WorkDirs(name[w]) = {}
        /\ dirs' = dirs \cup {EmptyDir(name[w], TRUE)}
        /\ GoTo(w, "text") /\ UNCHANGED refs
     \/ Fail(w, "internal") /\ UNCHANGED dirs
  /\ UNCHANGED <<world, nonce, local, name>>

\* write_file into the work directory: opens the file, truncates and fills it
WriteIn(w, d) == dirs' = (dirs \ WorkDirs(name[w])) \cup {d}

\* write_file of text.txt; one that fails may leave a part of the file
WriteText(w) ==
  /\ pc[w] = "text"
  /\ \E d \in WorkDirs(name[w]) :
       \/ WriteIn(w, [d EXCEPT !.text = req[w]]) /\ GoTo(w, "meta") /\ UNCHANGED refs
       \/ Fail(w, "internal") /\ dirs' \in {dirs, (dirs \ {d}) \cup {[d EXCEPT !.text = -1]}}
  /\ UNCHANGED <<world, nonce, local, name>>

\* prep_meta_sexpr, which takes the references of the strings it is given,
\* also if it then fails
PrepMeta(w) ==
  /\ pc[w] = "meta"
  /\ LET taken == {"author", "email", "url"}
     IN \/ Put(w, Once(taken)) /\ GoTo(w, "write meta")
        \/ /\ Put(w, [s \in Strings |-> Once(taken)[s] + 1])
           /\ err' = [err EXCEPT ![w] = "internal"]
           /\ pc' = [pc EXCEPT ![w] = "done"]
  /\ UNCHANGED <<world, shared, local, name>>

\* (mutant) the result of write_file is ignored
WriteMetaUnchecked(w) ==
  /\ pc[w] = "write meta"
  /\ \E d \in WorkDirs(name[w]) :
       \E m \in {req[w], -1} : WriteIn(w, [d EXCEPT !.meta = m])
  /\ GoTo(w, "rename")
  /\ UNCHANGED <<world, nonce, local, name, refs>>

\* write_file of meta.lisp
WriteMeta(w) ==
  /\ pc[w] = "write meta"
  /\ \E d \in WorkDirs(name[w]) :
       \/ /\ WriteIn(w, [d EXCEPT !.meta = req[w]])
          /\ GoTo(w, "rename") /\ UNCHANGED refs
       \/ Fail(w, "internal") /\ dirs' \in {dirs, (dirs \ {d}) \cup {[d EXCEPT !.meta = -1]}}
  /\ UNCHANGED <<world, nonce, local, name>>

\* (mutant) rename as if the target were removed before
RenameReplaces(w) ==
  /\ pc[w] = "rename"
  /\ \E d \in WorkDirs(name[w]) :
       dirs' = (dirs \ ({d} \cup FinalDirs(name[w]))) \cup {[d EXCEPT !.work = FALSE]}
  /\ GoTo(w, "done")
  /\ UNCHANGED <<world, nonce, local, name, refs>>

\* (mutant) the result of xrename is ignored
RenameUnchecked(w) ==
  /\ pc[w] = "rename"
  /\ \E d \in WorkDirs(name[w]) :
       dirs' \in {dirs, (dirs \ {d}) \cup {[d EXCEPT !.work = FALSE]}}
  /\ GoTo(w, "done")
  /\ UNCHANGED <<world, nonce, local, name, refs>>

\* (mutant) something that may fail comes after the rename
RenameThenFail(w) ==
  /\ pc[w] = "rename"
  /\ \E d \in WorkDirs(name[w]) :
       /\ FinalDirs(name[w]) = {}
       /\ dirs' = (dirs \ {d}) \cup {[d EXCEPT !.work = FALSE]}
  /\ (GoTo(w, "done") /\ UNCHANGED refs) \/ Fail(w, "internal")
  /\ UNCHANGED <<world, nonce, local, name>>

\* xrename, the point at which the comment is published
Rename(w) ==
  /\ pc[w] = "rename"
  /\ \/ \E d \in WorkDirs(name[w]) :
          /\ FinalDirs(name[w]) = {}
          /\ dirs' = (dirs \ {d}) \cup {[d EXCEPT !.work = FALSE]}
          /\ GoTo(w, "done") /\ UNCHANGED refs
     \/ Fail(w, "internal") /\ UNCHANGED dirs
  /\ UNCHANGED <<world, nonce, local, name>>

\* blahg_comment: the page says that the comment was saved, or what was wrong
Answer(w) ==
  /\ pc[w] = "done"
  /\ answered' = answered \cup {[request |-> req[w], err |-> err[w]]}
  /\ pc' = [pc EXCEPT ![w] = "idle"]
  /\ err' = [err EXCEPT ![w] = "none"]
  /\ refs' = [refs EXCEPT ![w] = NoRefs]
  /\ req' = [req EXCEPT ![w] = 0]
  /\ form' = [form EXCEPT ![w] = None]
  /\ UNCHANGED <<clock, requests, crashes, forms, arrival, shared, now, name>>

-----------------------------------------------------------------------------

\* time passes
Tick ==
  /\ clock < MaxClock
  /\ clock' = clock + 1
  /\ UNCHANGED <<requests, crashes, forms, arrival, answered, shared, pc, local, name, refs, err>>

\* the process dies and is started again; the directories stay
Crash ==
  /\ crashes < MaxCrashes
  /\ crashes' = crashes + 1
  /\ nonce' = 0
  /\ pc' = [w \in Workers |-> "idle"]
  /\ req' = [w \in Workers |-> 0]
  /\ form' = [w \in Workers |-> None]
  /\ now' = [w \in Workers |-> 0]
  /\ name' = [w \in Workers |-> None]
  /\ refs' = [w \in Workers |-> NoRefs]
  /\ err' = [w \in Workers |-> "none"]
  /\ UNCHANGED <<clock, dirs, requests, forms, arrival, answered>>

\* the bounds are reached
Ended ==
  /\ requests = MaxRequests
  /\ \A w \in Workers : pc[w] = "idle"
  /\ UNCHANGED vars

Next ==
  \/ \E w \in Workers :
       \/ Submit(w) \/ GetPost(w) \/ GetTime(w) \/ MakeName(w) \/ MakeDir(w)
       \/ WriteText(w) \/ PrepMeta(w) \/ WriteMeta(w) \/ Rename(w) \/ Answer(w)
  \/ Tick \/ Crash \/ Ended

Spec == Init /\ [][Next]_vars

-----------------------------------------------------------------------------
(* What must hold *)

Results == {"none", "no agent", "generic", "captcha", "no email", "no name", "no content", "internal"}

\* Type invariant.  The counts of the string references are integers: see
\* RefsConsumed.
TypeOK ==
  /\ clock \in StartClock..MaxClock
  /\ nonce \in Nat
  /\ dirs \subseteq [name : Nat \X Nat, work : BOOLEAN, text : Int, meta : Int]
  /\ requests \in Nat
  /\ forms \in [1..requests -> Forms]
  /\ arrival \in [1..requests -> StartClock..MaxClock]
  /\ pc \in [Workers -> {"idle", "get_post", "gettime", "name", "mkdir", "text", "meta",
                         "write meta", "rename", "done"}]
  /\ req \in [Workers -> Nat]
  /\ form \in [Workers -> Forms \cup {None}]
  /\ now \in [Workers -> Nat]
  /\ name \in [Workers -> (Nat \X Nat) \cup {None}]
  /\ err \in [Workers -> Results]
  /\ refs \in [Workers -> [Strings -> Int]]
  /\ answered \subseteq [request : Nat, err : Results]

Published == {d \in dirs : ~d.work}

\* A directory whose name does not end in W has both files, of one comment:
\* a moderator never finds a half-written comment, nor two mixed up, whoever
\* failed or died when, and even if a restart makes names repeat.
PublishedComplete ==
  \A d \in Published : d.text > 0 /\ d.meta = d.text

\* A published comment is not overwritten or lost, even if a later request
\* gets the same name.
PublishedKept == [][Published \subseteq Published']_vars

\* A visitor who is told that the comment was saved can rely on it, crashes
\* notwithstanding.
SavedIsPublished ==
  \A a \in answered : a.err = "none" => \E d \in Published : d.text = a.request

\* A visitor who is told of an error can send the comment again without it
\* appearing twice; and no request is published twice.
ErrorsNotPublished ==
  /\ \A a \in answered : a.err # "none" => \A d \in Published : d.text # a.request
  /\ \A d, e \in Published : d.text = e.text => d = e

\* What is published passed the checks of docs/comment-spam.txt: the empty
\* field, the captcha, and a think time between the two limits, also when
\* the form's date is in the future or anything else.
PublishedPassedChecks ==
  \A d \in Published :
    LET f == forms[d.text]
    IN /\ f.request = "none" /\ f.empty = "blank" /\ f.captcha = Captcha
       /\ arrival[d.text] - f.date \in MinThink..MaxThink
       /\ {f.email, f.author, f.comment} = {"filled"}

\* save_comment's comment on write_out_comment, "consumes all the string
\* refs": when it has returned, of each string nothing is left to put, and
\* none was put twice.
RefsConsumed == \A w \in Workers : pc[w] = "done" => refs[w] = NoRefs
=============================================================================
