------------------------------ MODULE Request ------------------------------
(***************************************************************************)
(* The life of a request in a worker thread (daemon.c, req.c, error.c):    *)
(* which page it asks for, the handler of that page (index.c, tag.c,       *)
(* story.c, static.c, admin.c, comment.c), redirects and 404s, the headers *)
(* and the body that are sent, and what is left when it is destroyed.      *)
(*                                                                         *)
(* A request record has the fields of struct req and of the struct scgi it *)
(* belongs to.  The header Content-Type and the like are the function      *)
(* headers; refs counts the references to the strings it has got.          *)
(* A reader may follow the links of the page that a thread has sent last.  *)
(* A tag is a sequence of characters, as its way through a URL depends on  *)
(* them (a word stands for the characters that it is made of).             *)
(***************************************************************************)
EXTENDS Integers, FiniteSets, SequencesExt

CONSTANTS
  Threads,
  Queries,                 \* for each thread: the queries that clients may send it
  WebDir,                  \* the files of web_dir that can be read, with their sizes
  Listed,                  \* the listed posts, newest first: [id, tags, month]
  Characters, lower,       \* of tags; and what strcasecmp takes each one for
  Stored, Drafts,          \* the ids that load_post finds: published, and as previews
  PREVIEW_SECRET,
  category_to_tag,         \* of the configuration: a function
  html_index_stories, feed_index_stories,
  INT_MAX, UIntSize, Word  \* of int, unsigned int and uint64_t: the largest, the sizes

\* The listed posts are all in memory, and index_get_posts counts them with ints.
ASSUME RequestAssumption ==
  /\ html_index_stories \in Nat \ {0} /\ feed_index_stories \in Nat \ {0}
  /\ INT_MAX \in Nat /\ UIntSize \in Nat /\ Word \in Nat
  /\ INT_MAX < UIntSize /\ UIntSize < Word
  /\ DOMAIN Listed = 1..Len(Listed) /\ Len(Listed) \in 0..INT_MAX

ASSUME TagAssumption ==
  /\ {" ", "+"} \subseteq Characters /\ DOMAIN lower = Characters
  /\ \A i \in DOMAIN Listed : \A tag \in Listed[i].tags : tag \in Seq(Characters)

VARIABLES
  pc,        \* of each thread: "idle", or what the request needs next
  req,       \* of each thread: its request
  session,   \* the thread-local session_id
  sent,      \* the last response of each thread, as the client got it, while
             \* the request is there, and then as long as a reader may follow
             \* its links: until the thread's next request
  log        \* the entry under requests/ of the request that is there, or the
             \* message that it has none

vars == <<pc, req, session, sent, log>>

-----------------------------------------------------------------------------
(* Requests *)

\* a number that was no number when nvl_convert tried
NotInt == -1

Strings == {"uri", "feed", "tag", "cat", "url"}

None == "none"

NoHeaders == [n \in {} |-> None]

NoBody == [kind |-> "nothing"]

\* req_init; the scgi part is zero, but for the status
NewRequest(id, query, walks, trail) ==
  [id |-> id, query |-> query, page |-> None, fmt |-> None, index_stories |-> 0,
   headers |-> NoHeaders, status |-> 200, body |-> NoBody, bodylen |-> 0,
   vars |-> <<[posts |-> <<>>]>>, refs |-> [s \in Strings |-> 0], walks |-> walks, trail |-> trail]

NoRequest == NewRequest(0, [uri |-> "root"], FALSE, <<>>)

req_head(r, name, val) == [r EXCEPT !.headers = [n \in DOMAIN @ \cup {name} |->
                                                   IF n = name THEN val ELSE @[n]]]

vars_set(r, name, val) ==
  [r EXCEPT !.vars[Len(r.vars)] = [n \in DOMAIN @ \cup {name} |-> IF n = name THEN val ELSE @[n]]]

vars_scope_push(r) == [r EXCEPT !.vars = Append(@, [n \in {} |-> 0])]

Known(r, name) == \E i \in DOMAIN r.vars : name \in DOMAIN r.vars[i]

vars_lookup(r, name) ==
  LET i == CHOOSE i \in DOMAIN r.vars :
             /\ name \in DOMAIN r.vars[i]
             /\ \A j \in DOMAIN r.vars : j > i => name \notin DOMAIN r.vars[j]
  IN r.vars[i][name]

Get(r, s) == [r EXCEPT !.refs[s] = @ + 1]
Put(r, s) == [r EXCEPT !.refs[s] = @ - 1]

\* str_putref(req->fmt); html is a static string, which is not counted
PutFmt(r) == IF r.fmt \in {None, "html"} THEN r ELSE Put(r, "feed")

HasInt(r, name) == name \in DOMAIN r.query /\ r.query[name] # NotInt

U64(n) == n % Word

-----------------------------------------------------------------------------
(* Rendering: the page with the variables it shows *)

Paged == {"index", "archive", "tagindex"}

HasPager(r, tmpl) == r.fmt = "html" /\ tmpl \in Paged

\* s up to the first of some characters
Upto(s, ends) == SubSeq(s, 1, Min({i \in DOMAIN s : s[i] \in ends} \cup {Len(s) + 1}) - 1)

\* what the value of a parameter is taken for (qstring_parse)
Decoded(s) == [i \in DOMAIN s |-> CASE s[i] = "+" -> " " [] s[i] = "%2B" -> "+" [] OTHER -> s[i]]

\* The query of "?tag={tagid}&amp;paged={page}": the tag is written as it is,
\* so that a quotation mark (quot) ends the link and # the query that is sent,
\* and the word after an & is a parameter of its own, without a value.
TagLink(uri, tag, page) ==
  LET asked == Upto(tag, {"quot", "#"})
      strays == {asked[i + 1] : i \in {j \in 1..(Len(asked) - 1) : asked[j] = "&"}}
      paged == IF asked = tag THEN {"paged"} ELSE {}
  IN [n \in {"uri", "tag"} \cup paged \cup strays |->
        CASE n = "uri" -> uri
          [] n = "tag" -> Decoded(Upto(asked, {"&"}))
          [] n = "paged" -> page
          [] n \in {"m", "p", "preview"} -> NotInt
          [] OTHER -> ""]

\* the queries of the pagers' links (templates/html/*pager.tmpl)
Link(r, tmpl, name) ==
  LET page == vars_lookup(r, name)
  IN CASE tmpl = "archive"  -> [uri |-> r.query.uri, m |-> vars_lookup(r, "archid"), paged |-> page]
       [] tmpl = "tagindex" -> TagLink(r.query.uri, r.query[vars_lookup(r, "tagid").ref], page)
       [] OTHER             -> [uri |-> r.query.uri, paged |-> page]

render_page(r, tmpl) ==
  [r EXCEPT !.body =
     [kind |-> "page", tmpl |-> tmpl, fmt |-> r.fmt,
      posts |-> vars_lookup(r, "posts"),
      older |-> IF HasPager(r, tmpl) /\ vars_lookup(r, "moreposts") = 1
                THEN {Link(r, tmpl, "prevpage")} ELSE {},
      newer |-> IF HasPager(r, tmpl) /\ vars_lookup(r, "curpage") > 0
                THEN {Link(r, tmpl, "nextpage")} ELSE {}]]

\* R404
R404(r, tmpl) ==
  LET html == [req_head(PutFmt(r), "Content-Type", "text/html") EXCEPT
                 !.status = 404, !.fmt = "html"]
  IN render_page(vars_scope_push(html), tmpl)

\* R301
R301(r, url) ==
  LET html == [req_head(req_head(PutFmt(r), "Content-Type", "text/html"), "Location", url) EXCEPT
                 !.status = 301, !.fmt = "html"]
  IN render_page(vars_set(vars_scope_push(html), "redirect", [ref |-> "url"]), "301")

-----------------------------------------------------------------------------
(* The handlers: the requests that one may become *)

safe_uris == [root |-> "DYNAMIC", bug |-> "STATIC", favicon |-> "STATIC",
              style |-> "STATIC", wiki |-> "STATIC"]

ContentTypeOf == [bug |-> "image/png", favicon |-> "image/png",
                  style |-> "text/css", wiki |-> "image/png"]

\* get_uri_type, which puts the reference the caller has got
UriType(uri) == IF uri \in DOMAIN safe_uris THEN safe_uris[uri] ELSE "BAD"

\* blahg_static; a file that cannot be read leaves bodylen alone
blahg_static(r) ==
  LET uri == r.query.uri
      got == Put(Get(r, "uri"), "uri")
  IN IF uri \in DOMAIN WebDir
     THEN {[req_head(got, "Content-Type", ContentTypeOf[uri]) EXCEPT
              !.body = [kind |-> "file", name |-> uri], !.bodylen = WebDir[uri]]}
     ELSE {R404(got, "404")}

\* get_page_number
get_page_number(r) ==
  IF HasInt(r, "paged") /\ r.query.paged <= INT_MAX THEN r.query.paged ELSE 0

\* (mutant) the neighbours are swapped
StorePagesSwapped(r, page) ==
  {vars_set(vars_set(vars_set(r, "prevpage", U64(page - 1)), "curpage", page),
            "nextpage", page + 1)}

\* __store_pages.  page + 1 is undefined for the largest page: it wraps, or
\* is widened first.
store_pages(r, page) ==
  LET nexts == IF page = INT_MAX THEN {INT_MAX + 1, U64(0 - INT_MAX - 1)} ELSE {page + 1}
  IN {vars_set(vars_set(vars_set(r, "prevpage", prev), "curpage", page),
               "nextpage", U64(page - 1)) : prev \in nexts}

\* post_tag_cmp: strcasecmp
SameTag(a, b) == [i \in DOMAIN a |-> lower[a[i]]] = [i \in DOMAIN b |-> lower[b[i]]]

\* The trees of the index, as the places of their posts in Listed (PostListing
\* has the unlisted posts): index_by_time, and the subindex of a tag
ByTime == DOMAIN Listed
ByTag(tag) == {i \in DOMAIN Listed : \E g \in Listed[i].tags : SameTag(g, tag)}

\* how many of a set come before i
Rank(S, i) == Cardinality({j \in S : j < i})

\* a set of places from the first on
InOrder(S) == [k \in 1..Cardinality(S) |-> CHOOSE i \in S : Rank(S, i) = k - 1]

\* the first loop of index_get_posts
AfterSkip(tree, skip) == {i \in tree : Rank(tree, i) >= skip}

\* the second loop's predicate, a set of months
Found(tree, months, skip) == {i \in AfterSkip(tree, skip) : Listed[i].month \in months}

index_get_posts(tree, months, skip, nposts) ==
  LET found == Found(tree, months, skip)
  IN [k \in {j \in 1..nposts : j <= Cardinality(found)} |-> Listed[InOrder(found)[k]]]

AllMonths == {Listed[i].month : i \in DOMAIN Listed}

\* [start,end) of __load_posts: the end of December is that of January
Months(archid) == IF archid % 100 = 12 THEN {archid, archid + 89} ELSE {archid}

\* load_posts of the page-th page
LoadPosts(r, tree, months, page) ==
  LET skip == (page * r.index_stories) % UIntSize
      posts == index_get_posts(tree, months, skip, r.index_stories)
  IN vars_set(vars_set(r, "posts", posts), "moreposts",
              IF Len(posts) = r.index_stories THEN 1 ELSE 0)

\* blahg_index
blahg_index(r) ==
  LET page == get_page_number(r)
  IN {render_page(LoadPosts(vars_scope_push(s), ByTime, AllMonths, page), "index") :
        s \in store_pages(vars_set(r, "title", [ref |-> None]), page)}

valid_arch_id(arch) ==
  LET y == arch \div 100
      m == arch % 100
  IN m >= 1 /\ m <= 12 /\ y >= 1970 /\ y < 2100

get_arch_id(r) == IF HasInt(r, "m") /\ valid_arch_id(r.query.m) THEN r.query.m ELSE 197001

\* blahg_archive
blahg_archive(r) ==
  LET page == get_page_number(r)
      archid == get_arch_id(r)
      titled == vars_set(vars_set(req_head(r, "Content-Type", "text/html"), "title", [ref |-> None]),
                         "archid", archid)
  IN {render_page(LoadPosts(vars_scope_push(s), ByTime, Months(archid), page), "archive") :
        s \in store_pages(titled, page)}

\* blahg_tag: title and tagid have references of their own
blahg_tag(r) ==
  LET page == get_page_number(r)
      got == req_head(Get(Get(Get(r, "tag"), "tag"), "tag"), "Content-Type", "text/html")
      titled == vars_set(vars_set(got, "title", [ref |-> "tag"]), "tagid", [ref |-> "tag"])
  IN {render_page(Put(LoadPosts(vars_scope_push(s), ByTag(r.query.tag), AllMonths, page), "tag"), "tagindex") :
        s \in store_pages(titled, page)}

\* blahg_category: the reference to the category is put before the tag is
\* looked at
blahg_category(r) ==
  LET got == Put(Get(r, "cat"), "cat")
  IN IF r.query.cat \in DOMAIN category_to_tag
     THEN {R301(Get(got, "url"), category_to_tag[r.query.cat])}
     ELSE {R404(got, "404")}

\* blahg_comment: save_comment (CommentSave) may say anything
blahg_comment(r) ==
  LET got == vars_scope_push(req_head(r, "Content-Type", "text/html"))
  IN {render_page(vars_set(got, "comment_error_str", None), "comment_error"),
      render_page(got, "comment_saved")}

\* is_preview
is_preview(r) == HasInt(r, "preview") /\ r.query.preview = PREVIEW_SECRET

\* what load_post finds
StoryPosts(r) == IF is_preview(r) THEN Drafts ELSE Stored

\* blahg_story; get_post sets the title only of a post that it returns, and
\* may return an error pointer, which the page then takes for a post
blahg_story(r) ==
  LET pushed == vars_scope_push(r)
      post == [id |-> r.query.p, draft |-> is_preview(r)]
  IN IF ~HasInt(r, "p") \/ r.query.p > INT_MAX THEN {R404(r, "404")}
     ELSE IF r.query.p \notin StoryPosts(r)
     THEN {R404(vars_set(pushed, "title", [ref |-> None]), "404")}
     ELSE {render_page(vars_set(vars_set(pushed, "title", [ref |-> None]), "posts", <<post>>),
                       "storyview")}

\* blahg_admin
blahg_admin(r) == {[req_head(r, "Content-Type", "text/plain") EXCEPT !.body = [kind |-> "text"]]}

-----------------------------------------------------------------------------
(* The steps of a request *)

\* nvl_exists in this order
PageKeys == <<"comment", "tag", "cat", "m", "p", "admin">>
PageOf == [comment |-> "COMMENT", tag |-> "TAG", cat |-> "CATEGORY", m |-> "ARCHIVE",
           p |-> "STORY", admin |-> "ADMIN"]

\* select_page, of a uri that is not bad
select_page(r) ==
  LET asked == {i \in DOMAIN PageKeys : PageKeys[i] \in DOMAIN r.query}
  IN IF UriType(r.query.uri) = "STATIC" THEN "STATIC"
     ELSE IF asked = {} THEN "INDEX" ELSE PageOf[PageKeys[Min(asked)]]

FeedTypes == [atom |-> "application/atom+xml", rss2 |-> "application/rss+xml"]

\* (mutant) any page may be had as a feed
SupportedAnyPage(r) == "feed" \in DOMAIN r.query => r.query.feed \in DOMAIN FeedTypes

\* the conditions of switch_content_type
Supported(r) ==
  "feed" \in DOMAIN r.query =>
    r.query.feed \in DOMAIN FeedTypes /\ r.page \in {"INDEX", "STORY"}

\* (mutant) the reference to an unsupported format is forgotten
SwitchKeepsRef(r) ==
  IF ~Supported(r) THEN IF "feed" \in DOMAIN r.query THEN Get(r, "feed") ELSE r
  ELSE IF "feed" \notin DOMAIN r.query
  THEN [req_head(r, "Content-Type", "text/html") EXCEPT
          !.fmt = "html", !.index_stories = html_index_stories]
  ELSE [req_head(Get(r, "feed"), "Content-Type", FeedTypes[r.query.feed]) EXCEPT
          !.fmt = r.query.feed, !.index_stories = feed_index_stories]

\* switch_content_type: the reference to the feed's name becomes fmt's, or is put
switch_content_type(r) ==
  IF ~Supported(r) THEN IF "feed" \in DOMAIN r.query THEN Put(Get(r, "feed"), "feed") ELSE r
  ELSE IF "feed" \notin DOMAIN r.query
  THEN [req_head(r, "Content-Type", "text/html") EXCEPT
          !.fmt = "html", !.index_stories = html_index_stories]
  ELSE [req_head(Get(r, "feed"), "Content-Type", FeedTypes[r.query.feed]) EXCEPT
          !.fmt = r.query.feed, !.index_stories = feed_index_stories]

Handle(r) ==
  CASE r.page = "STATIC"   -> blahg_static(r)
    [] r.page = "ARCHIVE"  -> blahg_archive(r)
    [] r.page = "CATEGORY" -> blahg_category(r)
    [] r.page = "TAG"      -> blahg_tag(r)
    [] r.page = "COMMENT"  -> blahg_comment(r)
    [] r.page = "INDEX"    -> blahg_index(r)
    [] r.page = "STORY"    -> blahg_story(r)
    [] r.page = "ADMIN"    -> blahg_admin(r)

\* req_dispatch: what a new request may become
Dispatched(r) ==
  IF UriType(r.query.uri) = "BAD"
  THEN {R404([Put(Get(r, "uri"), "uri") EXCEPT !.page = "INDEX"], "404")}
  ELSE LET selected == [Put(Get(r, "uri"), "uri") EXCEPT !.page = select_page(r)]
           switched == switch_content_type(selected)
       IN IF ~Supported(selected) THEN {R404(switched, "error_unsupported_feed_fmt")}
          ELSE Handle(switched)

\* the bytes of a body, were it a string
Size(body) == IF body.kind = "file" THEN WebDir[body.name] ELSE 1

\* what log_request writes
Entry(t) ==
  [id |-> req[t].id, fmt |-> req[t].fmt, status |-> req[t].status, headers |-> req[t].headers,
   bodylen |-> req[t].bodylen]

\* its message when it cannot, which is marked with the session id
Complaint(t) == [session |-> session[t]]

NoEntry == [id |-> 0]

Init ==
  /\ pc = [t \in Threads |-> "idle"]
  /\ req = [t \in Threads |-> NoRequest]
  /\ session = [t \in Threads |-> 0]
  /\ sent = [t \in Threads |-> NoRequest]
  /\ log = [t \in Threads |-> NoEntry]

\* the ids of libjeffpc: no two requests under way have the same
FreshId == CHOOSE id \in 1..(Cardinality(Threads) + 1) : \A t \in Threads : req[t].id # id

\* (mutant) the session is the process's
SetSessionShared(t, id) == session' = [u \in Threads |-> id]

set_session(t, id) == session' = [session EXCEPT ![t] = id]

\* init_request; walks says that the reader has started at a first page, and
\* trail what the pages before this one have shown
Accept(t, query, walks, trail) ==
  /\ pc[t] = "idle"
  /\ pc' = [pc EXCEPT ![t] = "dispatch"]
  /\ req' = [req EXCEPT ![t] = NewRequest(FreshId, query, walks, trail)]
  /\ set_session(t, FreshId)
  /\ sent' = [sent EXCEPT ![t] = NoRequest]
  /\ UNCHANGED log

\* characters that a URL does not leave as they are; %2B stands for the escapes
UrlSpecial == {"+", "%2B", "&", "#", "quot"}

UrlPlain(tag) == tag \in Seq(Characters \ UrlSpecial)

\* the links of a page that is asked for like this have its tag
Survives(query) == "tag" \in DOMAIN query => UrlPlain(query.tag)

\* a client asks for something; for a first page, perhaps
Ask(t) ==
  \E query \in Queries[t] : Accept(t, query, "paged" \notin DOMAIN query /\ Survives(query), <<>>)

Older(r) == IF r.body.kind = "page" THEN r.body.older ELSE {}
Newer(r) == IF r.body.kind = "page" THEN r.body.newer ELSE {}

\* A reader follows a link of the page that thread t has sent last (any
\* thread may get the request: a thread keeps nothing of the one before).
FollowOlder(t) ==
  \E link \in Older(sent[t]) :
    Accept(t, link, sent[t].walks,
           IF sent[t].walks THEN Append(sent[t].trail, sent[t].body.posts) ELSE <<>>)

FollowNewer(t) ==
  \E link \in Newer(sent[t]) :
    Accept(t, link, sent[t].walks,
           IF sent[t].trail = <<>> THEN <<>> ELSE Front(sent[t].trail))

\* process_request: req_dispatch
Dispatch(t) ==
  /\ pc[t] = "dispatch"
  /\ \E r \in Dispatched(req[t]) : req' = [req EXCEPT ![t] = r]
  /\ pc' = [pc EXCEPT ![t] = "output"]
  /\ UNCHANGED <<session, sent, log>>

\* process_request: req_output; and the response goes out
Output(t) ==
  /\ pc[t] = "output"
  /\ LET r == req[t]
         len == IF r.bodylen = 0 THEN Size(r.body) ELSE r.bodylen
         done == req_head([r EXCEPT !.bodylen = len], "Content-Length", len)
     IN /\ req' = [req EXCEPT ![t] = done]
        /\ sent' = [sent EXCEPT ![t] = done]
  /\ pc' = [pc EXCEPT ![t] = "log"]
  /\ UNCHANGED <<session, log>>

\* deinit_request, req_destroy: log_request.  The entry may fail to be written.
Log(t) ==
  /\ pc[t] = "log"
  /\ \E written \in {Entry(t), Complaint(t)} : log' = [log EXCEPT ![t] = written]
  /\ pc' = [pc EXCEPT ![t] = "destroy"]
  /\ UNCHANGED <<req, session, sent>>

\* the variables of all scopes that hold a reference to a string
VarRefs(r, s) ==
  Cardinality({v \in (DOMAIN r.vars) \X {"title", "tagid", "redirect"} :
                 v[2] \in DOMAIN r.vars[v[1]] /\ r.vars[v[1]][v[2]].ref = s})

\* the rest of req_destroy
Destroy(t) ==
  /\ pc[t] = "destroy"
  /\ LET put == PutFmt(req[t])
     IN req' = [req EXCEPT ![t] =
                  [NoRequest EXCEPT !.refs = [s \in Strings |-> put.refs[s] - VarRefs(put, s)]]]
  /\ set_session(t, 0)
  /\ pc' = [pc EXCEPT ![t] = "idle"]
  /\ sent' = [sent EXCEPT ![t] = IF Older(@) \cup Newer(@) = {} THEN NoRequest ELSE @]
  /\ log' = [log EXCEPT ![t] = NoEntry]

Next ==
  \E t \in Threads :
    \/ Ask(t) \/ FollowOlder(t) \/ FollowNewer(t)
    \/ Dispatch(t) \/ Output(t) \/ Log(t) \/ Destroy(t)

Spec == Init /\ [][Next]_vars

-----------------------------------------------------------------------------
(* What must hold *)

\* The templates there are in each format's directory.  (storyview of the
\* feeds is the one of templates/common.)
Templates ==
  [html |-> {"index", "archive", "tagindex", "storyview", "301", "404", "comment_saved",
             "comment_error", "error_unsupported_feed_fmt"},
   atom |-> {"index", "storyview"},
   rss2 |-> {"index", "storyview"}]

TypeOfPage(fmt) == IF fmt = "html" THEN "text/html" ELSE FeedTypes[fmt]

\* the body, the headers and the status fit together
Fits(r) ==
  /\ r.body.kind = "page" =>
       /\ r.body.tmpl \in Templates[r.body.fmt]
       /\ r.headers["Content-Type"] = TypeOfPage(r.body.fmt)
       /\ r.status = 200 /\ "feed" \in DOMAIN r.query => r.body.fmt = r.query.feed
       /\ r.status = 404 <=> r.body.tmpl \in {"404", "error_unsupported_feed_fmt"}
       /\ r.body.tmpl = "storyview" /\ r.body.posts[1].draft =>
             HasInt(r, "preview") /\ r.query.preview = PREVIEW_SECRET
  /\ r.body.kind = "file" => r.headers["Content-Type"] = ContentTypeOf[r.query.uri]
  /\ r.body.kind # "page" => r.status = 200 /\ "feed" \notin DOMAIN r.query
  /\ r.body.kind # "nothing"
  /\ r.status = 301 <=> "Location" \in DOMAIN r.headers

\* What a client gets fits together, whichever handlers, failures and
\* overwritten headers it comes from: there is a template of the page in the
\* format; Content-Type is that of the format, and of the format asked for
\* unless the page is an error's; the status tells errors and redirects from
\* pages; Content-Length is the body's; and a draft needs the secret.
ResponseConsistent ==
  \A t \in Threads :
    sent[t].id # 0 => Fits(sent[t]) /\ sent[t].headers["Content-Length"] = Size(sent[t].body)

\* A string that a request looks up is put once on every path, whether a
\* handler keeps it, a variable does or fmt does; and never once too often.
RefsBalanced ==
  \A t \in Threads, s \in Strings :
    /\ req[t].refs[s] >= 0
    /\ pc[t] = "idle" => req[t].refs[s] = 0

\* What a thread says is marked with the request it is working on, up to the
\* message that log_request has failed, and with none in between.
SessionsOwn ==
  \A t \in Threads :
    /\ session[t] = req[t].id
    /\ "session" \in DOMAIN log[t] => log[t].session = req[t].id

\* the places of the posts of the listing that a page belongs to
ListingOfPage(r) ==
  CASE r.body.tmpl = "index"    -> DOMAIN Listed
    [] r.body.tmpl = "tagindex" -> {i \in DOMAIN Listed : \E g \in Listed[i].tags : SameTag(g, r.query.tag)}
    [] r.body.tmpl = "archive"  -> {i \in DOMAIN Listed : Listed[i].month \in Months(get_arch_id(r))}

\* the posts of a set of places, newest first
PostsAt(S) == [k \in 1..Cardinality(S) |-> Listed[InOrder(S)[k]]]

\* the n elements of s after the first skip, or as many as there are
Stretch(s, skip, n) == [i \in {j \in 1..n : skip + j <= Len(s)} |-> s[skip + i]]

\* A reader who goes from the first page of a listing (the index, an archive, or
\* a tag that a URL leaves as it is) from link to link, back and forth, stays
\* in that listing, and has seen its posts in order and each
\* once: the k-th page shows the k-th stretch of it (the pages of an archive
\* show posts of it, each at least once).  All of them have been seen when
\* there is no older page; there is a way back from all pages but the first.
WalkShowsAll ==
  \A t \in Threads :
    LET r == sent[t]
        pages == Append(r.trail, r.body.posts)
        seen == UNION {ToSet(pages[k]) : k \in DOMAIN pages}
        all == PostsAt(ListingOfPage(r))
        n == html_index_stories
    IN r.walks /\ r.body.kind = "page" /\ HasPager(r, r.body.tmpl) =>
         /\ r.body.tmpl # "archive" => \A k \in DOMAIN pages : pages[k] = Stretch(all, (k - 1) * n, n)
         /\ seen \subseteq ToSet(all)
         /\ Older(r) = {} => seen = ToSet(all)
         /\ Newer(r) = {} <=> r.trail = <<>>

\* The pager of a tag's page leads to pages of that tag (templates/html/tag.tmpl
\* and tagcloud.tmpl escape the tags of their links for that).
TagLinksStay ==
  \A t \in Threads :
    LET r == sent[t]
    IN r.body.kind = "page" /\ r.body.tmpl = "tagindex" =>
         \A link \in Older(r) \cup Newer(r) :
           select_page([query |-> link]) = "TAG" /\ SameTag(link.tag, r.query.tag)
=============================================================================
