---------------------------- MODULE PostListing ----------------------------
(***************************************************************************)
(* What is read out of the indices: index_get_posts, the pages of the      *)
(* index, of a tag and of a month's archive (index.c, tag.c, load_posts),  *)
(* and the tag cloud (index_for_each_tag, sidebar.c).                      *)
(***************************************************************************)
EXTENDS PostIndex, FiniteSets, SequencesExt

CONSTANTS
  NoTag,                   \* index_get_posts' tagname = NULL
  UIntSize,                \* the values an unsigned int has: 2^32
  TagcloudMin, TagcloudMax \* config.tagcloud_min_size, tagcloud_max_size

\* Ids are unsigned ints, and are not used up; the sizes are a range, which
\* config.c leaves to who writes the configuration.
ASSUME PostListingAssumption ==
  /\ IsFiniteSet(Posts) /\ UIntSize \in Nat /\ Cardinality(Posts) < UIntSize
  /\ TagcloudMin \in Nat /\ TagcloudMax \in Nat /\ TagcloudMin <= TagcloudMax

-----------------------------------------------------------------------------
(* index_get_posts *)

\* post_index_cmp, from rb_last backwards: newest first
Newer(p, q) == gtime[p] > gtime[q] \/ (gtime[p] = gtime[q] /\ p > q)

\* how many entries of a set come before p's
Rank(S, p) == Cardinality({q \in S : Newer(q, p)})

\* a set of posts in the order of a tree that has them
NewestFirst(S) == [i \in 1..Cardinality(S) |-> CHOOSE p \in S : Rank(S, p) = i - 1]

Tree(g) == IF g = NoTag THEN byTime ELSE byTag[g]

Listed(g) == {p \in Tree(g) : post[p].listed}

\* (mutant) the first loop counts the unlisted entries too
AfterSkipUnlisted(g, skip) == {p \in Listed(g) : Rank(Tree(g), p) >= skip}

\* the first loop goes past the first skip listed entries
AfterSkip(g, skip) == {p \in Listed(g) : Rank(Listed(g), p) >= skip}

\* the second loop: the listed entries the predicate accepts, nposts at most;
\* pred is the set of those it accepts
GetPosts(g, pred, skip, nposts) ==
  LET found == AfterSkip(g, skip) \cap pred
  IN [i \in {j \in 1..nposts : j <= Cardinality(found)} |-> NewestFirst(found)[i]]

-----------------------------------------------------------------------------
(* Pages *)

NoPredicate == Posts

\* __load_posts of index.c and blahg_tag: the page-th page.  The product is
\* unsigned; as skip's type is int the upper half of its values are negative,
\* and count down past every post, as the positive ones of that size would.
Page(g, pred, page, perPage) == GetPosts(g, pred, (page * perPage) % UIntSize, perPage)

\* (mutant) the pager is for pages with more than posts_per_page posts
MorePostsStrict(posts, perPage) == Len(posts) > perPage

\* load_posts' moreposts: whether the pager links to the next page
MorePosts(posts, perPage) == Len(posts) = perPage

\* struct tm, in months since January 1970, as mktime takes it
TmMonth(tm) == (tm.year - 70) * 12 + tm.mon

ArchiveStart(archid) == [year |-> (archid \div 100) - 1900, mon |-> (archid % 100) - 1]

\* the month after: tm_mon is 1 when it wraps
ArchiveEnd(archid) ==
  LET start == ArchiveStart(archid)
  IN IF start.mon + 1 >= 12 THEN [year |-> start.year + 1, mon |-> 1]
     ELSE [year |-> start.year, mon |-> start.mon + 1]

\* archive_filter, for times counted in months since January 1970
ArchiveFilter(archid) ==
  {p \in Posts : /\ post[p].time >= TmMonth(ArchiveStart(archid))
                 /\ post[p].time < TmMonth(ArchiveEnd(archid))}

\* valid_arch_id
ValidArchId(archid) ==
  LET y == archid \div 100
      m == archid % 100
  IN m >= 1 /\ m <= 12 /\ y >= 1970 /\ y < 2100

ArchivePage(archid, page, perPage) == Page(NoTag, ArchiveFilter(archid), page, perPage)

-----------------------------------------------------------------------------
(* The tag cloud *)

\* index_for_each_tag: the tags there are, each with rb_numnodes of its
\* subindex, and the least and the greatest of these numbers
TagsPresent == {g \in Tags : byTag[g] # {}}
TagCount(g) == Cardinality(byTag[g])
TagMin == CHOOSE n \in {TagCount(g) : g \in TagsPresent} : \A g \in TagsPresent : n <= TagCount(g)
TagMax == CHOOSE n \in {TagCount(g) : g \in TagsPresent} : \A g \in TagsPresent : n >= TagCount(g)

\* (mutant) one too many in the denominator
TagSizeOff(count, cmin, cmax) ==
  IF count <= cmin THEN TagcloudMin
  ELSE TagcloudMin
       + ((TagcloudMax - TagcloudMin) * (count - cmin) + cmax - cmin) \div (cmax - cmin + 1)

\* __tag_size, ceil of the quotient
TagSize(count, cmin, cmax) ==
  IF count <= cmin THEN TagcloudMin
  ELSE TagcloudMin
       + ((TagcloudMax - TagcloudMin) * (count - cmin) + (cmax - cmin) - 1) \div (cmax - cmin)

\* __tagcloud_step skips the tags of a single post
TagCloud ==
  {[name |-> g, count |-> TagCount(g), size |-> TagSize(TagCount(g), TagMin, TagMax)] :
     g \in {t \in TagsPresent : TagCount(t) > 1}}

-----------------------------------------------------------------------------
(* What must hold *)

Trees == Tags \cup {NoTag}
PageSizes == 1..(Cardinality(Posts) + 1)

\* Pages that a pager may lead to
Pages == 0..Cardinality(Posts)

\* a reader who opens the first page gets to this one by the pager's links
Reached(g, pred, perPage, page) ==
  \A k \in 0..page - 1 : MorePosts(Page(g, pred, k, perPage), perPage)

\* the n elements of s after the first skip, or as many as there are
Stretch(s, skip, n) == [i \in {j \in 1..n : skip + j <= Len(s)} |-> s[skip + i]]

\* Following the pager of the index or of a tag shows every listed post of
\* that tree once, newest (as indexed) first, whatever the page size: none is
\* lost or repeated at a page boundary, and the pager does not stop early.
PagerShowsAll ==
  Up => \A g \in Trees : \A n \in PageSizes :
    LET all == NewestFirst(Listed(g))
    IN /\ ToSet(all) = Listed(g)
       /\ \A i, j \in DOMAIN all : i < j => Newer(all[i], all[j])
       /\ \A i \in DOMAIN all : Reached(g, NoPredicate, n, (i - 1) \div n)
       /\ \A k \in Pages : Reached(g, NoPredicate, n, k) =>
            Page(g, NoPredicate, k, n) = Stretch(all, k * n, n)

\* Following the pager of a month's archive shows every listed post of the
\* interval the code computes for it.  The posts skipped for a page are
\* counted without the predicate (the first loop of index_get_posts), so that
\* archive pages may show a post again; but none is ever lost.
ArchiveShowsAll ==
  Up => \A archid \in {m \in 197010..197102 : ValidArchId(m)} : \A n \in PageSizes :
    Listed(NoTag) \cap ArchiveFilter(archid)
      = UNION {ToSet(ArchivePage(archid, k, n)) :
                 k \in {j \in Pages : Reached(NoTag, ArchiveFilter(archid), n, j)}}

\* The sizes in the tag cloud stay within the configured range, grow with
\* the number of posts, and the most used tag gets the largest.
TagCloudSound ==
  Up => \A c \in TagCloud :
          /\ c.size \in TagcloudMin..TagcloudMax
          /\ c.count = TagMax /\ TagMax > TagMin => c.size = TagcloudMax
          /\ \A d \in TagCloud : c.count <= d.count => c.size <= d.size

\* A month's archive shows the posts published in that month, as its title
\* says ("%d >> %s": the year and the month's name).
ArchiveShowsItsMonth ==
  Up => \A archid \in {m \in 197010..197102 : ValidArchId(m)} : \A n \in PageSizes :
          \A i \in DOMAIN ArchivePage(archid, 0, n) :
            post[ArchivePage(archid, 0, n)[i]].time
              = ((archid \div 100) - 1970) * 12 + (archid % 100) - 1
=============================================================================
