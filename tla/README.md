# TLA+ models of blahgd

blahgd is a blog daemon: it loads posts from files, keeps them in memory, and
answers SCGI requests from several worker threads with pages rendered from
templates.  Authors edit the files while it runs; visitors submit comments.
This directory holds TLA+ models of its core, TLC runs that check them on small
instances, and TLAPS proofs of the main invariants for every instance.

File names without a directory are those of the repository's `src/`.

## 1. The system and its parts

| part | code | state | operations | how it meets the others |
|---|---|---|---|---|
| post cache | `post.c`, `post.h`, `post_nv.c`, `story.c`, `daemon.c` | `struct post`: reference count, lock, contents, `files` | `load_post`, `post_refresh`, `get_post`, `load_posts`, `post_destroy`; `load_all_posts`, `free_all_posts` | called from every page; shared by all threads; calls the file cache and the index |
| post index | `post_index.c` | red-black trees by id, by time and per tag; `by_tag` lists; cached time | `index_insert_post`, `index_lookup_post`, `index_get_posts`, `index_for_each_tag`, `free_all_posts` | one lock, `index_lock`; holds a reference to each post |
| listing pages | `index.c`, `tag.c`, `sidebar.c` | none | index, archive, tag and category pages, tag cloud | read the index, then `load_posts` |
| post refresh | `post.c`, `listing.c`, `post_fmt3_cmds.c` | `post->files`, tags, comments, image, body | `post_refresh` and all it calls | file cache; under `post->lock`, or on a post nobody knows yet |
| comment saving | `comment.c` | `pending-comments/` on disk, a static nonce | `save_comment`, `write_out_comment` | `get_post`; moderators read the directories |
| template engine | `template.y`, `parse.h`, `render.c`, `vars.c` | stack of conditions, stack of scopes | rendering a page | variables set by the page handlers |
| pipeline stages | `pipeline.c`, `mangle.c` | a tree of stages, built once | `escape`, `urlescape`, the dates | called by the template engine |
| request dispatch | `req.c`, `static.c`, `admin.c`, `story.c`, `error.c`, `daemon.c` | the request, the thread's session id | page selection, content type, redirects, static files, log | calls the handlers and the template engine |
| fmt3 formatter | `post_fmt3.y`, `.l`, `post_fmt3_cmds.c` | parser state of one post | LaTeX-like text to HTML | called by the refresh |
| others | `config.c`, `utils.c`, `nvl.c`, `lisplint.c` | read-only tables | configuration, strings, a lint tool | |

What is hard here:

* **Interleaving.**  The lookup of a post, its loading and its insertion are
  separate critical sections.  `load_post` refreshes without a lock, `get_post`
  with one.  A reference must be taken before the last one can go.
* **Files that change under the reader.**  A post is put together from many
  files, read one by one; what is recorded in `post->files` decides whether a
  later change is noticed.
* **Stale data.**  The index caches the time, tags and (through the post) the
  listed flag of a post that may be refreshed at any time.
* **Partial failure and restarts.**  A comment takes five system calls, any of
  which may fail, and the process may die between two of them.
* **Assertions as error handling.**  Many failures end the daemon.  The models
  keep them as an `abort` value, so that properties can say what must hold until
  then, and which assertions never fail.
* **Boundaries.**  Page boundaries among unlisted posts, the month after
  December, page numbers and a think time that wrap, the depth of the condition
  stack.
* **State that many paths overwrite.**  The status, headers, format and strings
  of a request are set by defaults and again by each handler, redirect or error.
* **Acting while parsing.**  Both parsers act as they reduce: what a `{endif()}`
  or `\end{tabular}` does depends on counters that earlier reductions left.

The full list, each at its line and with the properties that cover it, is
`hazards` in `PROJECT.json`.

What makes each part correct:

* post cache: counts are exact, no use after free, no leak; one thread at a time
  in a post; nothing half-read is shown or left in the cache; nothing older than
  the request is shown; requests, startup and shutdown end.
* index: the trees agree with each other, keys in a tree do not move, teardown
  never meets a freed entry, and all of it is a simple catalogue.
* listing pages: paging shows each listed post once and in order, and no archive
  loses one; a month's page shows that month; tag sizes stay in their range.
* refresh: what is shown is what the files say; a change is noticed; refreshing
  settles.
* comments: published means complete, checked and kept; the visitor is told the
  truth.
* templates: conditions, loops, scopes and pipelines mean what their nesting and
  order say; rendering ends.
* requests: the parts of a response fit together; every reference is put once;
  what a thread says is marked with its own request until that has been logged;
  links lead through a listing.
* fmt3: the HTML is that of the grammar, and well nested for a post that uses the
  commands where they belong; every argument's reference is consumed once.

## 2. The modules

| module | models | state and actions |
|---|---|---|
| `PostCache` | post cache and process | variables for each `struct post` field that matters, the index by id, and each thread's position; one action per critical section, file read or lock acquisition |
| `PostReads` | abstract | the files' revisions, what each thread was asked, what it is copying; `Ask`, `Show`, `Shown`, `Leave`, `Edit` |
| `PostIndex` | `post_index.c` | the trees as sets; one action per operation, all of them under `index_lock` |
| `PostCatalog` | abstract | a set of records [id, time, tags]; `Add` and `Drop` |
| `PostListing` | pages and tag cloud | extends `PostIndex`; operators for `index_get_posts`, pages, archive, tag cloud, checked in every state of the index |
| `PostRefresh` | one refresh, file by file | disk, `post->files`, the post's data, the position in the refresh |
| `CommentSave` | `comment.c` | one step per system call; directories as records |
| `PipeStages` | `pipeline.c`, `mangle.c` | recursive functions on character sequences |
| `Template` | rendering | extends `PipeStages`; a template is its token sequence; a frame per `render_page` |
| `Request` | a request's life in each worker, and the reader | one operator per handler, giving the requests it may leave; steps `Ask`, `FollowOlder`, `FollowNewer`, `Dispatch`, `Output`, `Log`, `Destroy` |
| `Fmt3` | lexer, grammar and commands of posts | a frame per paragraph that is being parsed; one action per kind of token or reduction |
| `PostCacheProofs`, `PostReadsProofs` | | theorems about `PostCache`: its invariants and startup, and that it implements `PostReads` |
| `PostIndexProofs` | | theorems about `PostIndex` and `PostListing` |
| `PostRefreshProofs`, `CommentSaveProofs`, `RequestProofs`, `TemplateProofs`, `Fmt3Proofs` | | theorems about the module of the name |
| `MC*` | | instances for TLC; `MCTemplate` and `MCFmt3` also define the reference meanings |

`PostCache` and `PostRefresh` look at the same function at two scales.
`PostCache` has many threads and a post of two files.  `PostRefresh` has one
caller - `ExclusiveUse` of `PostCache` is what justifies that - and all the
files.  `PostListing` reads what `PostIndex` keeps.  `PostCache` takes an
arbitrary non-empty set of listed posts where `PostListing` computes the page.
`Request` has every handler around a list of posts that does not change; what
`save_comment` answers is any of its two pages there, and `CommentSave` has the
rest.  `Template` renders what `Request` only names.

### PostCache

A request is a walk of a thread's `pc`: `lookup` (`index_lookup_post`), `alloc`,
`check` (`must_refresh`), `lisp`, `tex` (the reads), `insert`, then `lock`
(`post_lock`) and `check` ... again under the lock, `store` (`__store_vars`),
`put` (`post_putref`).  `ctx` tells the refresh inside `load_post` from the one
under the lock; they differ in what a failure does: the first gives the post
up, the second fails an assertion.  `refcnt[o] = 0` means that the memory is
free.  `start` is a history variable: the revisions when a request began.

A read of a file (`post_get_cached_file`, and taking the data) is one step, and
so is `must_refresh`, which reads revisions that only grow and stops at the
first newer one.  Failures of the allocation in `load_post`, of `nvl_set_int`
and of `index_insert_post` may happen at any time.  An allocation failure inside
the refresh that the code meets with an assertion is not modelled separately:
"fatal" file contents already lead to the same abort.  A refresh sets a post's
contents to one revision of each file here; what it keeps of earlier ones, such as
the tags of a preview, which only the refresh of a published post empties
(`post.c:359`), or its `\twitterimg` (`post.c:278`), is not told apart.

`PostReads` is what the cache is for, without a cache: a thread that is asked for
a post or a list reads each post's files once, at any time between the question
and the copying (`Show`), and what it copies stays as it is until `Shown`.  A
listing shows every post it began with, each once; a story may be missing.
`Asked`, `Left` and `Page` at the end of `PostCache` are the refinement mapping:
`Show` is the step that enters `__store_vars`, `Shown` the one that leaves it.

### PostIndex and PostListing

A node of a by-time or by-tag tree has no key of its own but reads its global
entry's `time` and `id`; hence a tree is the set of posts with a node in it.
`rb_insert`, `rb_find` and the iteration are the library's, with their contracts:
an entry's place is its `Rank`, the number of entries with a later `gtime` or
with the same one and a greater id, and a loop over the tree is a sequence by
rank.  `AfterSkip` and `GetPosts` are the two loops of `index_get_posts`: the
first skips listed entries whatever the predicate says, so it leaves those of at
least that rank among the listed.  `page * posts_per_page` is taken modulo
`UIntSize`.  `PostListingAssumption` says that ids, which are unsigned, are not
used up, and that the configured sizes of tags are a range, which `config.c` does
not check.

### PostRefresh

`reads` is a history of what the last refresh read.  Two properties are limited
to files that were found and were not changed between two reads of the same
file in one refresh, because the code records nothing for a missing file and
only the last revision of one it reads twice.

### CommentSave

`dirs` is `pending-comments/`.  A directory is [name, work, text, meta], where
`work` says that the name ends in W, and `text` and `meta` are the request the
file came from, 0 for no file, -1 for part of one.  `refs` counts what is left of
the references that `save_comment` handed over.  Restarting resets the nonce
while the clock may stand still, so names can repeat.

### Template and PipeStages

The bison parser acts when it reduces a word or command, so a template is the
sequence of these and rendering is one step for each.  A loop or a variable
without a value renders another template in a new frame with a condition stack
of its own, as `render_page` does.  A pipeline is the composition of its stages;
a stage that meets a value it has no text for gives `Broken`, the assertion it
fails.  `MCTemplate`'s `Meaning` says for each token which conditions enclose it
and on which side of their `{else()}` it is, and decodes escaped text, so that
the conversions are not compared with themselves.

### Request

A request record has the fields of `struct req` and of its `struct scgi` that
anything depends on.  Each handler is an operator from a request to the set of
requests it may leave: a choice is a failure or undefined arithmetic.  `refs`
counts references by the string they are to; the variables of the scopes hold
references of their own (`VarRefs`), which go with the scopes.  A page's `older`
and `newer` are the links of its template's pager.  A page is compared with the
templates directory: the feeds have an `index` of their own, and `storyview` for
them is the one in `templates/common`.  `walks` and `trail` are history: the
reader began at a first page, and the pages before this one have shown these posts.
`sent` remains while a reader may follow its links.  What `log_request` leaves is an
`Entry`, or the `Complaint` that it could not be written; only the latter goes
through the thread's session id.

A tag is a sequence of characters, since its way back to the index depends on
them.  The pager of a tag's page writes it into the link as it is, and the next
request has what a browser and `qstring_parse` make of that (`TagLink`, `Decoded`):
a plus sign becomes a space, an escape the character it stands for, an `&` starts
another parameter, and `#` or a quotation mark ends the query.  A parameter's name
may be one that `select_page` looks at.  The walks that `WalkShowsAll` is about
start at the index, an archive, or a tag without such characters (`Survives`);
`TagLinksStay` says what is lost with the others.  A tag's tree is found without
regard to case (`SameTag`, `post_tag_cmp`).

The posts of a listing are named by their places in `Listed`: `ByTime` and `ByTag`
are the trees, a post's `Rank` in one says how many come before it, and
`index_get_posts` skips by ranks in the tree and takes the first that it wants of
what is left.  `RequestAssumption` has the machine's numbers in their order, and
says that the listed posts, which are all in memory, can be counted with an `int`,
as `index_get_posts` does.  `TagAssumption` has the characters that tags are made of.

### Fmt3

A symbol stands for the characters that one rule of the lexer keeps together.
`frames` is bison's stack: the post's paragraphs, and one frame for each
argument that is open.  Since the grammar needs one token of lookahead, an
action is what bison does with the next token: shift it, and reduce what it
completes.  `cmds` is the table of the same name; a command is a template of HTML
with places for its arguments, and how many references it takes.  `MCFmt3` reads
the same grammar from the top down by recursive descent, knows nesting by
counting `\begin`s and `\end`s instead of by counters, and finds blank lines by
looking at the whole text.  `ParsesAsMeant` leaves out the posts in which nothing
but comments is between two blank lines (`CommentedGap`): the grammar has no
meaning for them, but the repository has a test of one (see below).

## 3. The runs

| run | configuration | bounds | checks |
|---|---|---|---|
| `cache_edit` | `MCPostCache_edit` | 2 threads, 1 post, 3 struct posts, all file states, 2 revisions of a file, 1 request per thread after startup | `RefcountExact`, `NoUseAfterFree`, `ExclusiveUse`, `ServeComplete`, `CachedComplete`, `FreshServe`, `IndexKeeps`, `ImplementsReads` |
| `cache_two` | `MCPostCache_two` | 2 threads, 2 posts, 3 struct posts, 1 request per thread after startup, files that nobody edits but that may fail to be read | `NoLeakAtExit`, `IndexSound`, `StartupInsertsOnce`; liveness: `RequestsEnd`, `StartupEnds`, `ShutdownEnds` |
| `listing` | `MCPostListing` | 3 posts, 5 versions of a post, 2 tags, failing allocations | the index, the pages, the tag cloud, `ImplementsCatalog` |
| `refresh` | `MCPostRefresh` | 2 comments, 1 listing, 2 edits, any number of refreshes | `ChangeNoticed`, `ServedAsOnDisk`, `RefreshSettles` |
| `comment` | `MCCommentSave` | 2 workers, 2 requests, 10 forms, 1 crash, 64-bit arithmetic scaled to `Word` = 8 | what is published, kept, answered |
| `template` | `MCTemplate` | every page of at most 5 (`MaxTokens`) of 7 tokens, and of at most 3 (`MaxOthers`) of 16 | `ScopesBalanced`, `RendersMeaning`: against `Meaning`, which has no stacks; liveness: `RenderingEnds` |
| `request` | `MCRequest` | 2 threads, 5 posts, pages of 2 and 3, every pair and many triples of parameters; `INT_MAX` = 7, `UIntSize` = 16, `Word` = 64 | `ResponseConsistent`, `RefsBalanced`, `SessionsOwn`, `WalkShowsAll` |
| `fmt3` | `MCFmt3` | every post of 3 (`MaxPieces`) of 45 pieces, of 4 (`MaxNesting`) of 10 that nest, environments and arguments 3 deep (`MaxDepth`) | `ParsesAsMeant`: against the grammar from the top; `Balanced`, `RefsConsumedOnce` |

Why these bounds are enough to be interesting.  Two threads are what it takes to
race for a post, a lock or a name; three struct posts are what two threads can
have in hand at a time with one more in the index (the cached post and a second
load of it, or a preview).  One edit of each file separates old from new (`MaxRev`
= 2), and `PostRefresh`'s second edit gives an edit during the refresh that
another edit made necessary.  Three posts give a page boundary with something on
both sides and an unlisted post between; page sizes go up to one more than there
are posts; `UIntSize` = 4 is the least that three posts allow, so that products of
page and page size wrap.  `Word` = 8 keeps the order of the real numbers: the time
since 1970 exceeds the largest think time and is far less than 2^64.  Five tokens
allow a conditional with an else part inside a conditional or loop, and the
templates that pages call add loops and conditions of their own. `StopService` may
come before a request does.  In `request` the first thread is asked everything and
the second for listings, which is what it takes for one to disturb the
other.  `INT_MAX` = 7 is larger than any page of five posts, so the page numbers
near it are those that only a hand-made query asks for.  (A walk reaches page
`INT_MAX` only with that many posts and one on a page; that is left to the theorem
about `WalkShowsAll`, which is for any of these numbers.)  Half of `UIntSize` exceeds
it as 2^31 does 2^31 - 1, and the product with a page size wraps.  In `fmt3` three
pieces give a command with an open argument, what is in it and what closes it;
`MaxNesting` gives two environments that may overlap; `MaxDepth` a table in a
table's cell inside a list.

Every passing property has a mutant in `PROJECT.json`: a change of one mapped
definition, of the kind a slip in the code would be, with which TLC finds the
property violated.

**Fairness.**  `FairSpec` of `Template` is weak fairness of `Next`: rendering is
straight-line code of one thread.  `RenderingEnds` rests besides on
`SubAssumption`: no template names itself through others; the code has no limit
of its own, and the templates of the repository keep to it.

`FairSpec` of `PostCache` assumes weak fairness of each thread's
steps (`Run`: the operating system schedules every thread), of handing
directory entries to the task queue, of `EnterService` (`taskq_wait` returns)
and of `FreeAllPosts` (`scgisvc` returns when told to stop).  Nothing is assumed
of clients, authors or of `StopService`.  Weak fairness is enough for the lock,
since with one request per thread nobody can be overtaken for ever; fair mutexes
would be needed for unbounded requests.  `RequestsEnd` and its companions allow
an abort as an end.

### What the runs found

Four runs end in a violation of something the repository says of itself:

* `cache_eexist` - two requests for the same uncached post abort the daemon at
  `ASSERT0(index_insert_post(post))` (`post.c:479`).
* `archive_month` - December's archive extends to the end of January, since
  `end.tm_mon` is set to 1 (`index.c:81`).
* `comment_refs` - `write_out_comment` does not consume its references exactly
  once (`comment.c:467`, `225`, `228`).
* `tag_pager` - the links to a tag's older and newer pages have the tag unescaped
  (`templates/html/tagpager.tmpl:3`, `:6`), unlike the links to the first page
  (`tag.tmpl:1`, `tagcloud.tmpl:1`): the pager of `c+` leads to the tag `c `.

The models show, without a run of their own:

* A listing shows a post that its refresh has just found to be unlisted
  (`post_index.c:316`; `docs/lisp-metadata.txt:34` says what `listed` is for).
* A removed `\twitterimg` stays with the post (`post.c:278`).
* Pages of an archive after the first repeat posts, since what is skipped is
  counted without the month (`post_index.c:306`); `ArchiveShowsAll` holds all the
  same: no post of the month is left out.
* `tests/fmt3-bugs/comment-par.tex`, which `CMakeLists.txt:25` there registers as a
  post that must format, is a syntax error: a line that only has a comment between two
  blank lines gives two `PAREND`s (`post_fmt3.l:90`, `:102`), for which the grammar has
  no place (`post_fmt3.y:195`).  So is a post with blank lines before its text.
* The assertion in `cond_if` lets one condition more be open than `cond_stack` has
  room for (`parse.h:86`); `CondIf` does too.
* The redirect of a category has its tag unescaped as well (`tag.c:126`).
* A list inside a list's item, or any environment inside an argument, closes
  paragraphs that are not open; `Balanced` is about posts that do not do this.

## 4. The proofs

`PostCacheProofs` proves, for any sets of threads, posts, directory entries and
struct posts, with the threads finite (`FiniteAssumption`), and any bounds:
`TypeOK`, `RefcountExact`, `NoUseAfterFree`, `ExclusiveUse`, `CachedComplete`,
`ServeComplete`, `FreshServe`, `IndexSound`, `NoLeakAtExit`, `IndexKeeps`.

The inductive invariant `IInv` (end of `PostCache`) adds to these what a thread's
position says of its local variables (`ControlInv`), that `post->lock` is held
exactly between `post_lock` and `post_unlock` (`LockInv`), that a post being
loaded has one holder and is not indexed (`PrivateInv`), that every allocated
post has an id (`IdInv`), and how far a refresh has got (`DataInv`, `FreshInv`).
The properties alone are not inductive: that two threads are never in one post,
for instance, needs to know that a loading thread's post is unknown to all
others, which needs the counts, which need the control positions.  There is one
lemma per conjunct, and in it one step per action.  `RefcountExact` rests on two
lemmas on the cardinality of the set of holders when one joins or leaves.

`PostIndexProofs` proves the index's invariants for any number of posts, tags
and versions, by the invariant `TypeOK /\ ShapeInv /\ AbortInv`: which trees may
be non-empty at which stage of the teardown, and what each kind of abort leaves.
`Refinement` shows that `PostIndex` implements `PostCatalog` under the mapping
`Catalogue`, which reads the records off the secondary trees: an insertion is an
`Add`, the teardown a `Drop`, everything else a stutter.

`PostIndexProofs` also proves `PagerShowsAll`, `ArchiveShowsAll` and `TagCloudSound`
for any posts, times, tags and page sizes, with listed flags, times and tags refreshed
at will after the indices took them.  What is in a tree has a publication time; hence
`Newer` is a strict linear order, ranks in a finite set are the numbers below its
cardinality, each taken once, and a set in the order of its ranks is a sequence
without repetitions.  A page starts at the rank it skips to (`AfterSkipRanks`), the
product of page and size cannot have wrapped on a page that the pager leads to,
because each page before it was full (`ReachedWithin`), and so the pages are the
stretches of the one sequence (`PagerPage`).  For an archive, which skips posts of
other months too, a post is on the page of its rank among all posts or on an earlier
one that is not full, where the pager ends (`FilteredShown`).  That the pager comes to
an end, and that the tags have a least and a greatest count, need a least number: an
induction, which `LeastNumber` does without an operator parameter, by the well-founded
inclusion of the finite sets `0..n-1`.

`PostReadsProofs` shows that `PostCache` implements `PostReads`.  Two more
invariants are needed for it: `KindInv`, what a thread may have in hand for each
kind of request (only listings have a list, all of it indexed posts; a story's
post has the id asked for; only a preview's post is a preview), and `RevInv`, that
nothing recorded or taken is newer than the file.  With `FreshInv` this puts every
revision on a page between the one at the question and the current one; that
other threads leave a post alone while it is copied comes from the same facts as
`ExclusiveUse`.  Each step of a thread changes its own request and page only
(`OneReader`), which leaves one case per action.

The last section of `PostCacheProofs` proves `StartupInsertsOnce`: while posts are
preloaded, and no two entries have the same id, what a thread is loading is neither
in the index, nor pending, nor with another thread (`PreloadInv`).

`PostRefreshProofs` proves `ChangeNoticed`, `RefreshSettles` and `ServedAsOnDisk` for
any comments, listings and versions.  The invariant for the first two: what was read
well is recorded with that revision (`ReadInv`); what is recorded is current while
nobody has edited since the lock (`CurrentInv`); and a refresh past `post.lisp` has
recorded something (`RecordedInv`), without which `must_refresh` would answer yes for
ever.  For `ServedAsOnDisk`, `DiskInv` says at each position how much of the post is
already what the files say, if nothing that is recorded has changed: the tags, the
comments up to the current one (`CommentsDone`), the listings up to the current one
(`ListingsDone`), and of a post that no refresh is working on, all of it (`BuiltInv`),
since the next request may find it current and show it as it is.  A comment's `Place`
is the number of moderated ones up to it.

`CommentSaveProofs` proves the five properties of `CommentSave` for any number of
workers, forms, failures and crashes.  None is inductive.  That two requests never
mix needs that no two workers use the same name (`NameInv`, from the nonce), that a
request has one worker and one answer (`RequestInv`), and that a work directory is
its owner's, which knows what it has put there (`WorkInv`); that what is published
passed the checks needs them to be remembered while the files are written
(`PassedInv`), with the think time computed modulo `Word`: a lemma shows that it
passes only for a date in the past.  `PublishedInv` relates publication to the
answer, before and after it is sent.

`RequestProofs` proves `RefsBalanced`, `SessionsOwn` and `ResponseConsistent` for any
parameters, posts and number of threads.  A request's `Debt` in a string is its
references, less those that variables hold and the one that the format holds.  Each
operator of `Request` has a lemma that says what it does to the debt, each handler one
that it returns to zero on every path, and destroying the request puts what variables
and format held.  For `ResponseConsistent` (`ClientInv`), a request that waits for its
dispatch is as `req_init` left it (`Fresh`), a handler gets one whose type and format
are those asked for (`Plain`), and one that waits for its output fits together but for
its length (`Answer`).  One lemma per handler leads from `Plain` to `Answer`; the
redirects and errors overwrite what was set before, which is what the lemmas are
about.

`SessionsOwn` needs that the log of a thread has a complaint only between `Log` and
`Destroy` (`LogInv`).

It also proves `WalkShowsAll`, for any posts, tags and months, any number of posts on
a page, and any `INT_MAX`, `UIntSize` and `Word` in this order.  The property is about
what was sent; what makes it inductive (`WalkInv`) is that a request whose reader
walks has a `Trail`: its page number is the number of pages that were shown, each of
them was full, and the k-th was the k-th of the listing that this request asks for.
A page that answers such a request is `Signposted`: it is the next one of that
listing, it has an older link just when it is full and a newer one unless it is the
first, and `select_page`, `get_page_number` and `get_arch_id` of the request that a
link makes give the same listing and the neighbour's number (`LeadsTo`).  That takes
a lemma for each way that a variable gets from a handler to the template through the
scopes (`Bound`, `SetBinds`, `PushBinds`, `ListingVars`), one on the order in which
`select_page` looks at the parameters (`LinkSelects`), and one that a tag of plain
characters comes back from its link as it was, with its page number and no parameter
besides (`PlainLink`); that every tag on a walk is plain is part of the `Trail`.  The numbers cannot wrap on the
way: the k-th page, counted from 0, is full only if the tree has `n` posts behind the
first `k * n`, and an `int` counts the tree (`FullWithin`, `TrailWithin`): neither `page * index_stories` modulo `UIntSize` nor
`page + 1` in `__store_pages`, the overflow of which is a choice in the model and
remains so for a query made by hand.  What is left is about ranks, as for
`PagerShowsAll`: an unfiltered page is a stretch of the listing (`TreePage`), and of a
filtered one, every post is on the page of its rank in the tree or on an earlier one
that is not full (`AllShown`).

`TemplateProofs` proves `TypeOK` and `ScopesBalanced` for any templates, also those
that name themselves, whose rendering does not end.  A frame that has called
another stands at the token that did, and a frame within a loop at its `foreach`;
so the loops under way are told from the frames, and each has one scope.

`Fmt3Proofs` proves `RefsConsumedOnce` for any text.  How often a command's HTML uses
an argument is counted along its concatenations (`UsesJoined`), which gives one lemma
for each kind of command, and `CommandsOnce` for the whole table.  A command gets its
arguments from the frames of the stack, so the invariant is about these
(`FramesInv`): every frame but the first is an argument that the command below waits
for and may have, and an argument without a value is empty.  From it follows that a
post is accepted only when no argument is open (`AcceptedClosed`).

Assumptions are the ones stated in the modules; `TLC` evaluates them in each run.

Only model-checked: liveness (outside the prover); `RendersMeaning` and
`ParsesAsMeant`, whose reference definitions are recursive, and `Balanced`, which
reads the text and the HTML with recursive functions; and, of course, the violations.


## 5. Not modelled

* The file cache, red-black trees, SCGI server, task queue and mutexes are the
  libraries'; they appear by their contracts, as the code uses them.
* Mathematics in posts: a grammar of its own, without state and without effect on
  the rest of the post; the characters inside verbatim, listing, mathematics and
  special areas; how the lexers put characters together into words.
* The text of the request log's entries, `X-blahgd-render-time`, the social
  variables; configuration; `hasdotdot`, `concat5`, the loops of `xread` and
  `xwrite`; lisplint.
* Of the parts that are modelled: wording and layout, titles, the author's and
  the visitor's text, the privileges dropped at startup, and memory exhaustion
  where the code meets it with an assertion or an error pointer (`post_nv.c:110`).

## 6. Plan

Written in this order, the most important first:

1. `PostCache` - core of the daemon; runs `cache_*`; proofs of safety.  Done.
2. `PostIndex`, `PostCatalog`, `PostListing` - the index and its readers; proofs
   and refinement.  Done.
3. `PostRefresh`, `CommentSave`, `Template` - checked.  Done.
4. `Request` with the page handlers, `PipeStages`, `Fmt3` - checked.  Done.
5. Proofs about comments, refreshes, requests, templates and startup; `PostReads`
   and its refinement.  Done.
6. Proofs about what is shown: a refreshed post, responses, pages and the tag
   cloud; about the formatter's stack and its strings.  Done.
7. The reader's walk over a listing, through every handler and the links of its
   pages.  Done.

What could follow: mathematics in posts, which would need the lexer's states;
`hasdotdot` and `concat5` as functions of strings; and `Request` composed with
`PostReads` instead of a list of posts that does not change.
