-------------------------- MODULE PostIndexProofs --------------------------
(***************************************************************************)
(* Proofs about PostIndex and PostListing, for any posts, times, tags and  *)
(* versions.  The inductive invariant says, for each stage of the process, *)
(* which trees have which nodes.  Of the pages and the tag cloud, whatever *)
(* has been refreshed since it was indexed, and for any page size: a       *)
(* post's rank, the number of entries before it, says on which page it is; *)
(* the numbers of pages and of tags' posts have a least one.               *)
(***************************************************************************)
EXTENDS PostListing, FiniteSetTheorems, WellFoundedInduction, TLAPS

\* the trees agree while the daemon runs; free_all_posts empties them one
\* after another, the global index last
ShapeInv ==
  abort = "none" =>
    /\ phase = "up" =>
         /\ byTime = global
         /\ \A p \in Posts : \A g \in Tags : p \in byTag[g] <=> (p \in global /\ g \in xref[p])
         /\ \A p \in Posts : p \notin global => xref[p] = {}
    /\ phase # "up" => byTag = [g \in Tags |-> {}] /\ xref = [p \in Posts |-> {}]
    /\ phase = "freed tags" => byTime = global
    /\ phase \in {"freed times", "down"} => byTime = {}
    /\ phase = "down" => global = {}
    /\ phase # "down" => freed \cap global = {}

\* the process ended in an assertion that can fail
AbortInv ==
  /\ abort \in {"none", "eexist", "enomem"}
  /\ abort # "none" => phase = "up"
  /\ abort = "eexist" => /\ byTime = global /\ freed \cap global = {}
                         /\ \A p \in Posts : \A g \in Tags : p \in byTag[g] => p \in global

IInv == TypeOK /\ ShapeInv /\ AbortInv

-----------------------------------------------------------------------------

LEMMA InitIInv == Init => IInv
  BY PostIndexAssumption DEF Init, IInv, TypeOK, ShapeInv, AbortInv, Fields

LEMMA VersionFields ==
  ASSUME NEW v \in Versions
  PROVE  v.time \in Times /\ v.time \in Nat /\ v.tags \subseteq Tags
<1>1. v \in Fields
  BY PostIndexAssumption
<1>2. v.time \in Times /\ v.tags \subseteq Tags
  BY <1>1 DEF Fields
<1> QED BY <1>2, PostIndexAssumption

\* A post that is not in the global index has no node in any tree, so
\* inserting it cannot hit an existing key.
LEMMA InsertIInv ==
  ASSUME IInv, NEW p \in Posts, Insert(p)
  PROVE  IInv'
<1> USE PostIndexAssumption DEF Up
<1>1. post[p].time \in Times /\ post[p].time \in Nat /\ post[p].tags \subseteq Tags
  BY VersionFields DEF IInv, TypeOK
<1>2. p \notin byTime /\ \A g \in Tags : p \notin byTag[g]
  BY DEF Insert, IInv, ShapeInv
<1>3. abort' = "none" /\ abort = "none" /\ phase = "up" /\ phase' = "up"
  BY <1>1, <1>2 DEF Insert, HasKey
<1>4. TypeOK'
  <2>1. global' \subseteq Posts /\ byTime' \subseteq Posts /\ freed' \subseteq Posts
    BY DEF Insert, IInv, TypeOK
  <2>2. gtime' \in [Posts -> Nat] /\ \A q \in global' : gtime'[q] \in Times
    BY <1>1 DEF Insert, IInv, TypeOK
  <2>3. xref' \in [Posts -> SUBSET Tags]
    BY <1>1 DEF Insert, IInv, TypeOK
  <2>4. byTag' \in [Tags -> SUBSET Posts]
    BY DEF Insert, IInv, TypeOK
  <2> QED BY <1>3, <2>1, <2>2, <2>3, <2>4 DEF Insert, IInv, TypeOK
<1>5. ShapeInv'
  <2>1. byTime' = global'
    BY DEF Insert, IInv, ShapeInv
  <2>2. ASSUME NEW q \in Posts, NEW g \in Tags
        PROVE  q \in byTag'[g] <=> (q \in global' /\ g \in xref'[q])
    BY <1>1, <1>2 DEF Insert, IInv, ShapeInv, TypeOK
  <2>3. freed' \cap global' = {}
    BY DEF Insert, IInv, ShapeInv
  <2>4. ASSUME NEW q \in Posts, q \notin global' PROVE xref'[q] = {}
    BY <2>4 DEF Insert, IInv, ShapeInv, TypeOK
  <2> QED BY <1>3, <2>1, <2>2, <2>3, <2>4 DEF ShapeInv
<1>6. AbortInv'
  BY <1>3 DEF AbortInv
<1> QED BY <1>4, <1>5, <1>6 DEF IInv

LEMMA InsertFailsIInv ==
  ASSUME IInv, NEW p \in Posts, InsertFails(p)
  PROVE  IInv'
<1> USE PostIndexAssumption DEF Up
<1>1. post[p].time \in Times /\ post[p].time \in Nat /\ post[p].tags \subseteq Tags
  BY VersionFields DEF IInv, TypeOK
<1>2. PICK done \in SUBSET post[p].tags :
        /\ byTag' = [g \in Tags |-> IF g \in done THEN byTag[g] \cup {p} ELSE byTag[g]]
        /\ xref' = [xref EXCEPT ![p] = done]
  BY DEF InsertFails
<1>3. gtime' \in [Posts -> Nat] /\ \A q \in global' : gtime'[q] \in Times
  BY <1>1 DEF InsertFails, IInv, TypeOK
<1>4. xref' \in [Posts -> SUBSET Tags] /\ byTag' \in [Tags -> SUBSET Posts]
  BY <1>1, <1>2 DEF IInv, TypeOK
<1>5. TypeOK'
  BY <1>3, <1>4 DEF InsertFails, IInv, TypeOK
<1> QED BY <1>5 DEF InsertFails, IInv, ShapeInv, AbortInv

LEMMA FreeIInv ==
  ASSUME IInv, FreeTagIndex \/ FreeTimeIndex \/ FreeGlobalIndex
  PROVE  IInv'
<1>1. CASE FreeTagIndex
  <2>1. ASSUME NEW p \in Posts PROVE {g \in xref[p] : p \notin byTag[g]} = {}
    BY <1>1 DEF FreeTagIndex, Up, IInv, ShapeInv, TypeOK
  <2>2. /\ phase = "up" /\ abort = "none" /\ phase' = "freed tags"
        /\ xref' = [p \in Posts |-> {}] /\ byTag' = [g \in Tags |-> {}]
        /\ UNCHANGED <<post, global, gtime, byTime, freed, abort>>
    BY <1>1, <2>1 DEF FreeTagIndex, Up
  <2> QED BY <2>2 DEF IInv, TypeOK, ShapeInv, AbortInv
<1>2. CASE FreeTimeIndex
  BY <1>2 DEF FreeTimeIndex, IInv, TypeOK, ShapeInv, AbortInv
<1>3. CASE FreeGlobalIndex
  <2>1. abort' = "none"
    BY <1>3 DEF FreeGlobalIndex, IInv, TypeOK, ShapeInv
  <2> QED BY <1>3, <2>1 DEF FreeGlobalIndex, IInv, TypeOK, ShapeInv, AbortInv
<1> QED BY <1>1, <1>2, <1>3

LEMMA NextIInv == IInv /\ [Next]_vars => IInv'
<1> SUFFICES ASSUME IInv, [Next]_vars PROVE IInv'
  OBVIOUS
<1>1. ASSUME NEW p \in Posts, Insert(p) PROVE IInv'
  BY <1>1, InsertIInv
<1>2. ASSUME NEW p \in Posts, InsertExists(p) PROVE IInv'
  BY <1>2 DEF InsertExists, Up, indexVars, IInv, TypeOK, ShapeInv, AbortInv
<1>3. ASSUME NEW p \in Posts, InsertFails(p) PROVE IInv'
  BY <1>3, InsertFailsIInv
<1>4. ASSUME NEW p \in Posts, InsertNoMemory(p) PROVE IInv'
  BY <1>4 DEF InsertNoMemory, Up, indexVars, IInv, TypeOK, ShapeInv, AbortInv
<1>5. ASSUME NEW p \in Posts, Refresh(p) PROVE IInv'
  BY <1>5 DEF Refresh, Up, indexVars, IInv, TypeOK, ShapeInv, AbortInv
<1>6. CASE FreeTagIndex \/ FreeTimeIndex \/ FreeGlobalIndex
  BY <1>6, FreeIInv
<1>7. CASE Ended \/ UNCHANGED vars
  BY <1>7 DEF Ended, vars, IInv, TypeOK, ShapeInv, AbortInv
<1> QED BY <1>1, <1>2, <1>3, <1>4, <1>5, <1>6, <1>7 DEF Next

\* The invariant the theorems below rest on.
THEOREM Invariance == Spec => []IInv
  BY InitIInv, NextIInv, PTL DEF Spec

\* The indices stay within their types, and a global entry carries a time.
THEOREM TypeCorrect == Spec => []TypeOK
  BY Invariance, PTL DEF IInv

\* post_index.c: index_by_time, index_by_tag and the by_tag lists describe
\* the same posts as index_global between any two operations.
THEOREM TreesAgree == Spec => []IndicesAgree
<1>1. IInv => IndicesAgree
  BY DEF IInv, ShapeInv, IndicesAgree, Up
<1> QED BY <1>1, Invariance, PTL

\* index_insert_post's ASSERT3Ps and list_destroy's assertion cannot fail.
THEOREM NoAssertFails == Spec => []AssertsHold
<1>1. IInv => AssertsHold
  BY DEF IInv, AbortInv, AssertsHold
<1> QED BY <1>1, Invariance, PTL

\* No tree refers to a freed global entry, unless an allocation failed.
THEOREM NodesAreLive == Spec => []NoDangling
<1>1. IInv => NoDangling
  <2> SUFFICES ASSUME IInv, abort # "enomem", NEW p \in freed
               PROVE  p \notin global \cup byTime /\ \A g \in Tags : p \notin byTag[g]
    BY DEF NoDangling
  <2>1. p \in Posts
    BY DEF IInv, TypeOK
  <2>2. CASE abort = "eexist"
    BY <2>1, <2>2 DEF IInv, AbortInv
  <2>3. CASE abort = "none"
    BY <2>1, <2>3 DEF IInv, ShapeInv, TypeOK
  <2> QED BY <2>2, <2>3 DEF IInv, AbortInv
<1> QED BY <1>1, Invariance, PTL

\* The key of a node does not change while the node is in a tree.
THEOREM KeysAreFixed == Spec => KeysFixed
<1>1. IInv /\ [Next]_vars =>
        [\A p \in Posts : (p \in byTime \/ \E g \in Tags : p \in byTag[g])
                             => gtime'[p] = gtime[p]]_vars
  <2> SUFFICES ASSUME IInv, Next, NEW p \in Posts,
                      p \in byTime \/ \E g \in Tags : p \in byTag[g]
               PROVE  gtime'[p] = gtime[p]
    OBVIOUS
  <2>1. ASSUME NEW q \in Posts, Insert(q) \/ InsertFails(q) PROVE gtime'[p] = gtime[p]
    <3>1. q # p
      BY <2>1 DEF Insert, InsertFails, Up, IInv, ShapeInv
    <3> QED BY <2>1, <3>1 DEF Insert, InsertFails, IInv, TypeOK
  <2>2. ASSUME NEW q \in Posts, InsertExists(q) \/ InsertNoMemory(q) \/ Refresh(q)
        PROVE  gtime'[p] = gtime[p]
    BY <2>2 DEF InsertExists, InsertNoMemory, Refresh, indexVars
  <2>3. CASE FreeTagIndex \/ FreeTimeIndex \/ FreeGlobalIndex \/ Ended
    BY <2>3 DEF FreeTagIndex, FreeTimeIndex, FreeGlobalIndex, Ended, vars
  <2> QED BY <2>1, <2>2, <2>3 DEF Next
<1> QED BY <1>1, Invariance, PTL DEF Spec, KeysFixed

-----------------------------------------------------------------------------
(* Refinement of PostCatalog *)

LEMMA InsertAdds ==
  ASSUME IInv, NEW p \in Posts, Insert(p), IInv'
  PROVE  \E r \in Abstract!Records : Abstract!Add(r)
<1> USE PostIndexAssumption DEF Up
<1> DEFINE Entry(q) == [id |-> q, time |-> gtime[q], tags |-> {g \in Tags : q \in byTag[g]}]
           r == [id |-> p, time |-> gtime'[p], tags |-> {g \in Tags : p \in byTag'[g]}]
<1>1. abort = "none" /\ phase = "up" /\ phase' = "up" /\ abort' = "none"
  BY DEF Insert, IInv, AbortInv
<1>2. Catalogue = {Entry(q) : q \in byTime}
  BY <1>1 DEF Catalogue
<1>3. Catalogue' = {Entry(q)' : q \in byTime'}
  BY <1>1 DEF Catalogue
<1>4. byTime' = byTime \cup {p} /\ p \notin byTime /\ byTime \subseteq Posts
  BY <1>1 DEF Insert, IInv, ShapeInv, TypeOK
<1>5. ASSUME NEW q \in byTime PROVE Entry(q)' = Entry(q)
  <2>1. q # p /\ q \in Posts
    BY <1>4
  <2>2. gtime'[q] = gtime[q]
    BY <2>1 DEF Insert, IInv, TypeOK
  <2>3. \A g \in Tags : q \in byTag'[g] <=> q \in byTag[g]
    BY <2>1 DEF Insert, IInv, TypeOK
  <2> QED BY <2>2, <2>3
<1>6. Catalogue' = Catalogue \cup {r}
  <2>1. Catalogue' = {Entry(q)' : q \in byTime} \cup {Entry(p)'}
    BY <1>3, <1>4
  <2>2. {Entry(q)' : q \in byTime} = {Entry(q) : q \in byTime}
    BY <1>5
  <2> QED BY <1>2, <2>1, <2>2
<1>7. \A c \in Catalogue : c.id # r.id
  BY <1>2, <1>4
<1>8. r \in Abstract!Records
  <2>1. gtime'[p] \in Times
    BY DEF Insert, IInv, TypeOK
  <2> QED BY <2>1 DEF Abstract!Records
<1>9. Abstract!Add(r)
  BY <1>6, <1>7 DEF Abstract!Add
<1> QED BY <1>8, <1>9

\* The trees implement the catalogue: every step of PostIndex adds one post
\* to it, drops it whole, or leaves it.
THEOREM Refinement == Spec => ImplementsCatalog
<1>1. Init => Abstract!Init
  BY DEF Init, Abstract!Init, Catalogue
<1>2. IInv /\ IInv' /\ [Next]_vars => [Abstract!Next]_Catalogue
  <2> SUFFICES ASSUME IInv, IInv', [Next]_vars
               PROVE  Abstract!Next \/ Catalogue' = Catalogue
    OBVIOUS
  <2>1. ASSUME NEW p \in Posts, Insert(p) PROVE Abstract!Next
    BY <2>1, InsertAdds DEF Abstract!Next
  <2>2. ASSUME NEW p \in Posts, InsertFails(p) \/ InsertNoMemory(p) PROVE Abstract!Next
    BY <2>2 DEF InsertFails, InsertNoMemory, Catalogue, Abstract!Next, Abstract!Drop
  <2>3. ASSUME NEW p \in Posts, InsertExists(p) \/ Refresh(p) PROVE Catalogue' = Catalogue
    <3>1. UNCHANGED <<phase, byTime, gtime, byTag>> /\ abort = "none" /\ abort' \in {"none", "eexist"}
      BY <2>3 DEF InsertExists, Refresh, Up, indexVars
    <3> QED BY <3>1 DEF Catalogue
  <2>4. CASE FreeTagIndex
    BY <2>4 DEF FreeTagIndex, Catalogue, Abstract!Next, Abstract!Drop
  <2>5. CASE FreeTimeIndex \/ FreeGlobalIndex
    BY <2>5 DEF FreeTimeIndex, FreeGlobalIndex, Catalogue
  <2>6. CASE Ended \/ UNCHANGED vars
    BY <2>6 DEF Ended, vars, Catalogue
  <2> QED BY <2>1, <2>2, <2>3, <2>4, <2>5, <2>6 DEF Next
<1> QED BY <1>1, <1>2, Invariance, PTL DEF Spec, Abstract!Spec, ImplementsCatalog

-----------------------------------------------------------------------------
(* Numbers and sequences *)

\* Induction over numbers without an operator parameter: the sets 0..n-1 of
\* the numbers in question are finite, and inclusion of those is well-founded.
LEMMA LeastNumber ==
  ASSUME NEW T, T \subseteq Nat, T # {}
  PROVE  \E n \in T : \A m \in T : n <= m
<1> DEFINE Below(n) == 0..n - 1
           B == {Below(n) : n \in T}
           F == FiniteSubsetsOf(Nat)
           R == StrictSubsetOrdering(Nat)
<1>1. B \subseteq F
  <2> SUFFICES ASSUME NEW n \in T PROVE Below(n) \in F
    OBVIOUS
  <2>1. IsFiniteSet(0..n - 1) /\ 0..n - 1 \subseteq Nat
    BY FS_Interval
  <2> QED BY <2>1 DEF FiniteSubsetsOf
<1>2. B # {}
  OBVIOUS
<1>3. IsWellFoundedOn(R, F)
  BY FS_StrictSubsetOrderingWellFounded
<1> HIDE DEF R, F, B
<1>4. PICK b \in B : \A c \in B : ~(<<c, b>> \in R)
  BY <1>1, <1>2, <1>3, WFMin, Zenon
<1>5. PICK n \in T : b = Below(n)
  BY <1>4 DEF B
<1>6. ASSUME NEW m \in T, m < n PROVE FALSE
  <2>1. Below(m) \in B
    BY DEF B
  <2>2. m \in Nat /\ n \in Nat
    OBVIOUS
  <2>3. Below(m) \subseteq Below(n) /\ Below(n) \subseteq Nat
    BY <1>6, <2>2
  <2>4. m \in Below(n) /\ m \notin Below(m)
    BY <1>6, <2>2
  <2>5. <<Below(m), Below(n)>> \in R
    BY <2>3, <2>4 DEF R, StrictSubsetOrdering
  <2> QED BY <1>4, <1>5, <2>1, <2>5
<1>7. \A m \in T : n <= m
  BY <1>6
<1> QED BY <1>7

LEMMA LenIs ==
  ASSUME NEW m \in Nat, NEW f, DOMAIN f = 1..m, f = [i \in 1..m |-> f[i]]
  PROVE  Len(f) = m
<1>1. f \in Seq({f[i] : i \in 1..m})
  OBVIOUS
<1> QED BY <1>1

-----------------------------------------------------------------------------
(* The order of the trees *)

\* a set of posts that a tree may have
Treed(S) == S \subseteq Posts /\ IsFiniteSet(S)

\* the times are there
Timed == gtime \in [Posts -> Nat]

LEMMA NewerOrders ==
  ASSUME Timed, NEW p \in Posts, NEW q \in Posts, NEW r \in Posts
  PROVE  /\ ~Newer(p, p)
         /\ Newer(p, q) /\ Newer(q, r) => Newer(p, r)
         /\ p # q => Newer(p, q) \/ Newer(q, p)
<1>1. p \in Nat /\ q \in Nat /\ r \in Nat
  BY PostIndexAssumption
<1> QED BY <1>1 DEF Timed, Newer

LEMMA SubsetTreed ==
  ASSUME NEW S, Treed(S), NEW T, T \subseteq S
  PROVE  Treed(T) /\ Cardinality(T) <= Cardinality(S) /\ Cardinality(T) \in Nat
<1>1. IsFiniteSet(T) /\ Cardinality(T) <= Cardinality(S)
  BY FS_Subset DEF Treed
<1> QED BY <1>1, FS_CardinalityType DEF Treed

LEMMA RankBelow ==
  ASSUME Timed, NEW S, Treed(S), NEW p \in S
  PROVE  Rank(S, p) \in 0..Cardinality(S) - 1
<1> DEFINE A == {q \in S : Newer(q, p)}
<1>1. p \notin A
  BY NewerOrders DEF Treed
<1>2. IsFiniteSet(S \ {p}) /\ Cardinality(S \ {p}) = Cardinality(S) - 1 /\ Cardinality(S) \in Nat
  BY FS_RemoveElement, FS_CardinalityType DEF Treed
<1>3. A \subseteq S \ {p}
  BY <1>1
<1>4. Cardinality(A) <= Cardinality(S) - 1 /\ Cardinality(A) \in Nat
  <2> HIDE DEF A
  <2> QED BY <1>2, <1>3, FS_Subset, FS_CardinalityType
<1>5. Rank(S, p) = Cardinality(A)
  BY DEF Rank
<1> HIDE DEF A
<1> QED BY <1>2, <1>4, <1>5

LEMMA RankGrows ==
  ASSUME Timed, NEW S, Treed(S), NEW p \in S, NEW q \in S, Newer(q, p)
  PROVE  Rank(S, q) < Rank(S, p)
<1> DEFINE A == {x \in S : Newer(x, p)}
           B == {x \in S : Newer(x, q)}
<1>1. q \in A /\ q \notin B /\ B \subseteq A
  BY NewerOrders DEF Treed
<1>2. Rank(S, p) = Cardinality(A) /\ Rank(S, q) = Cardinality(B)
  BY DEF Rank
<1>3. A \subseteq S
  OBVIOUS
<1> HIDE DEF A, B
<1>4. IsFiniteSet(A) /\ IsFiniteSet(B) /\ Cardinality(A) \in Nat /\ Cardinality(B) \in Nat
  BY <1>1, <1>3, FS_Subset, FS_CardinalityType DEF Treed
<1>5. Cardinality(B) <= Cardinality(A) /\ Cardinality(B) # Cardinality(A)
  BY <1>1, <1>4, FS_Subset
<1> QED BY <1>2, <1>4, <1>5

\* the rank tells which of two posts is newer
LEMMA RankOrders ==
  ASSUME Timed, NEW S, Treed(S), NEW p \in S, NEW q \in S
  PROVE  /\ Rank(S, q) < Rank(S, p) <=> Newer(q, p)
         /\ Rank(S, q) = Rank(S, p) => q = p
<1>1. p \in Posts /\ q \in Posts
  BY DEF Treed
<1>2. Rank(S, p) \in Nat /\ Rank(S, q) \in Nat
  <2>1. Rank(S, p) \in 0..Cardinality(S) - 1 /\ Rank(S, q) \in 0..Cardinality(S) - 1
    BY RankBelow
  <2>2. Cardinality(S) \in Nat
    BY FS_CardinalityType DEF Treed
  <2> QED BY <2>1, <2>2
<1>3. Newer(q, p) => Rank(S, q) < Rank(S, p)
  BY RankGrows
<1>4. Newer(p, q) => Rank(S, p) < Rank(S, q)
  BY RankGrows
<1>5. p # q => Newer(p, q) \/ Newer(q, p)
  BY <1>1, NewerOrders
<1> HIDE DEF Newer, Rank
<1> QED BY <1>2, <1>3, <1>4, <1>5

\* there is a post of every rank
LEMMA RankOnto ==
  ASSUME Timed, NEW S, Treed(S), NEW i \in 0..Cardinality(S) - 1
  PROVE  \E p \in S : Rank(S, p) = i
<1> DEFINE T == 0..Cardinality(S) - 1
           f == [p \in S |-> Rank(S, p)]
<1>1. IsFiniteSet(S) /\ Cardinality(S) \in Nat
  BY FS_CardinalityType DEF Treed
<1>2. IsFiniteSet(T) /\ Cardinality(T) = Cardinality(S)
  BY <1>1, FS_Interval
<1>3. f \in [S -> T]
  BY RankBelow
<1>4. \A p, q \in S : f[p] = f[q] => p = q
  BY RankOrders
<1>5. f \in Injection(S, T)
  BY <1>3, <1>4 DEF Injection, IsInjective
<1>6. f \in Surjection(S, T)
  <2> HIDE DEF f, T
  <2> QED BY <1>1, <1>2, <1>5, FS_Injection
<1>7. \E p \in S : f[p] = i
  <2> HIDE DEF f
  <2> QED BY <1>6 DEF Surjection
<1> QED BY <1>7

\* NewestFirst lists a set in the order of the tree, without repetition
LEMMA NewestFirstLists ==
  ASSUME Timed, NEW S, Treed(S)
  PROVE  /\ DOMAIN NewestFirst(S) = 1..Cardinality(S) /\ Cardinality(S) \in Nat
         /\ Len(NewestFirst(S)) = Cardinality(S)
         /\ \A i \in 1..Cardinality(S) : NewestFirst(S)[i] \in S /\ Rank(S, NewestFirst(S)[i]) = i - 1
         /\ \A p \in S : Rank(S, p) + 1 \in 1..Cardinality(S) /\ NewestFirst(S)[Rank(S, p) + 1] = p
<1> DEFINE all == NewestFirst(S)
           n == Cardinality(S)
<1>1. n \in Nat
  BY FS_CardinalityType DEF Treed
<1>2. DOMAIN all = 1..n /\ all = [i \in 1..n |-> all[i]]
  BY DEF NewestFirst
<1>3. ASSUME NEW i \in 1..n PROVE all[i] \in S /\ Rank(S, all[i]) = i - 1
  <2>1. \E p \in S : Rank(S, p) = i - 1
    BY <1>1, RankOnto
  <2>2. all[i] = CHOOSE p \in S : Rank(S, p) = i - 1
    BY DEF NewestFirst
  <2> QED BY <2>1, <2>2
<1> HIDE DEF all
<1>4. ASSUME NEW p \in S PROVE Rank(S, p) + 1 \in 1..n /\ all[Rank(S, p) + 1] = p
  <2>1. Rank(S, p) \in 0..n - 1
    BY RankBelow
  <2>2. Rank(S, p) + 1 \in 1..n /\ (Rank(S, p) + 1) - 1 = Rank(S, p)
    BY <1>1, <2>1
  <2>3. all[Rank(S, p) + 1] \in S /\ Rank(S, all[Rank(S, p) + 1]) = Rank(S, p)
    BY <1>3, <2>2
  <2>4. all[Rank(S, p) + 1] = p
    BY <2>3, RankOrders
  <2> QED BY <2>2, <2>4
<1>5. Len(all) = n
  <2> HIDE DEF n
  <2> QED BY <1>1, <1>2, LenIs
<1> QED BY <1>1, <1>2, <1>3, <1>4, <1>5 DEF all

-----------------------------------------------------------------------------
(* index_get_posts *)

\* the state of a tree that is read
Readable(g) == Timed /\ Treed(Listed(g))

\* The posts after the first loop have the ranks that are left over.
LEMMA AfterSkipRanks ==
  ASSUME NEW g, Readable(g), NEW skip \in Nat, skip <= Cardinality(Listed(g))
  PROVE  /\ Treed(AfterSkip(g, skip)) /\ Cardinality(AfterSkip(g, skip)) = Cardinality(Listed(g)) - skip
         /\ \A p \in AfterSkip(g, skip) : Rank(Listed(g), p) = Rank(AfterSkip(g, skip), p) + skip
<1> DEFINE L == Listed(g)
           F == AfterSkip(g, skip)
           D == {q \in L : Rank(L, q) < skip}
<1>1. Timed /\ Treed(L) /\ Cardinality(L) \in Nat /\ IsFiniteSet(L)
  BY FS_CardinalityType DEF Readable, Treed
<1>2. F = {p \in L : Rank(L, p) >= skip}
  BY DEF AfterSkip
<1>3. skip <= Cardinality(L)
  OBVIOUS
<1> HIDE DEF L, F
<1>4. \A p \in L : Rank(L, p) \in 0..Cardinality(L) - 1
  BY <1>1, RankBelow
<1>5. L = D \cup F /\ D \cap F = {} /\ F \subseteq L /\ D \subseteq L
  BY <1>1, <1>2, <1>4
<1>6. /\ Treed(F) /\ IsFiniteSet(F) /\ Cardinality(F) \in Nat
      /\ IsFiniteSet(D) /\ Cardinality(D) \in Nat
  <2> HIDE DEF D
  <2> QED BY <1>1, <1>5, SubsetTreed DEF Treed
<1>7. Cardinality(L) = Cardinality(D) + Cardinality(F)
  <2> HIDE DEF D
  <2>1. Cardinality(D \cup F) = Cardinality(D) + Cardinality(F) - Cardinality(D \cap F)
    BY <1>6, FS_Union
  <2>2. Cardinality(D \cap F) = 0
    BY <1>5, FS_EmptySet
  <2> QED BY <1>5, <1>6, <2>1, <2>2
<1>8. Cardinality(D) = skip
  <2>1. CASE skip = Cardinality(L)
    <3>1. D = L
      BY <1>1, <1>4, <2>1
    <3> QED BY <2>1, <3>1
  <2>2. CASE skip < Cardinality(L)
    <3>1. skip \in 0..Cardinality(L) - 1
      BY <1>1, <2>2
    <3>2. PICK p \in L : Rank(L, p) = skip
      BY <1>1, <3>1, RankOnto
    <3>3. \A q \in L : Rank(L, q) < skip <=> Newer(q, p)
      BY <1>1, <3>2, RankOrders
    <3>4. D = {q \in L : Newer(q, p)}
      BY <3>3
    <3> QED BY <3>2, <3>4 DEF Rank
  <2> QED BY <1>1, <1>3, <2>1, <2>2
<1>9. ASSUME NEW p \in F PROVE Rank(L, p) = Rank(F, p) + skip
  <2> DEFINE A == {q \in L : Newer(q, p)}
             N == {q \in F : Newer(q, p)}
  <2>1. p \in L /\ Rank(L, p) >= skip /\ Rank(L, p) \in Nat
    BY <1>1, <1>2, <1>4, <1>5
  <2>2. \A q \in L : Rank(L, q) < Rank(L, p) <=> Newer(q, p)
    BY <1>1, <2>1, RankOrders
  <2>3. \A q \in D : Newer(q, p)
    BY <1>4, <2>1, <2>2
  <2>4. A = D \cup N /\ D \cap N = {} /\ N \subseteq F
    BY <1>5, <2>3
  <2>5. Rank(L, p) = Cardinality(A) /\ Rank(F, p) = Cardinality(N)
    BY DEF Rank
  <2> HIDE DEF D, A, N
  <2>6. IsFiniteSet(N) /\ Cardinality(N) \in Nat
    BY <1>6, <2>4, FS_Subset, FS_CardinalityType
  <2>7. Cardinality(A) = Cardinality(D) + Cardinality(N) - Cardinality(D \cap N)
    BY <1>6, <2>4, <2>6, FS_Union
  <2>8. Cardinality(D \cap N) = 0
    BY <2>4, FS_EmptySet
  <2> QED BY <1>6, <1>8, <2>5, <2>6, <2>7, <2>8
<1>10. Cardinality(F) = Cardinality(L) - skip
  <2> HIDE DEF D
  <2> QED BY <1>1, <1>6, <1>7, <1>8
<1> QED BY <1>6, <1>9, <1>10 DEF L, F

\* how many posts are returned
LEMMA GetPostsLen ==
  ASSUME NEW g, Readable(g), NEW pred, NEW skip \in Nat, NEW nposts \in Nat
  PROVE  LET c == Cardinality(AfterSkip(g, skip) \cap pred)
         IN c \in Nat /\ Len(GetPosts(g, pred, skip, nposts)) = IF c < nposts THEN c ELSE nposts
<1> DEFINE found == AfterSkip(g, skip) \cap pred
           got == GetPosts(g, pred, skip, nposts)
           c == Cardinality(found)
           m == IF c < nposts THEN c ELSE nposts
<1>1. found \subseteq Listed(g)
  BY DEF AfterSkip
<1>2. Treed(found) /\ c \in Nat
  BY <1>1, SubsetTreed DEF Readable
<1>3. got = [i \in {j \in 1..nposts : j <= c} |-> NewestFirst(found)[i]]
  BY DEF GetPosts
<1> HIDE DEF found, got
<1>4. {j \in 1..nposts : j <= c} = 1..m /\ m \in Nat
  BY <1>2
<1> HIDE DEF c, m
<1>5. DOMAIN got = 1..m /\ got = [i \in 1..m |-> got[i]]
  BY <1>3, <1>4
<1>6. Len(got) = m
  BY <1>4, <1>5, LenIs
<1> QED BY <1>2, <1>6 DEF found, got, c, m

-----------------------------------------------------------------------------
(* The pages *)

LEMMA DivBounds ==
  ASSUME NEW a \in Nat, NEW n \in Nat \ {0}
  PROVE  a \div n \in Nat /\ (a \div n) * n <= a /\ a < (a \div n) * n + n
<1>1. a \div n \in Nat
  OBVIOUS
<1>2. (a \div n) * n <= a
  OBVIOUS
<1>3. a < (a \div n) * n + n
  OBVIOUS
<1> QED BY <1>1, <1>2, <1>3

LEMMA ProductGrows ==
  ASSUME NEW a \in Nat, NEW b \in Nat, a < b, NEW n \in Nat
  PROVE  a * n + n <= b * n /\ a * n \in Nat /\ b * n \in Nat /\ (a + 1) * n = a * n + n
<1>1. PICK d \in Nat : b = a + 1 + d
  <2>1. b - a - 1 \in Nat /\ b = a + 1 + (b - a - 1)
    OBVIOUS
  <2> QED BY <2>1
<1>2. b * n = a * n + n + d * n /\ d * n \in Nat /\ a * n \in Nat
  BY <1>1
<1> QED BY <1>2

LEMMA ModSmall ==
  ASSUME NEW a \in Nat, NEW u \in Nat, a < u
  PROVE  a % u = a
OBVIOUS

\* a page within the tree: unsigned arithmetic is exact
LEMMA PageWithin ==
  ASSUME NEW g, Readable(g), NEW pred, NEW k \in Nat, NEW n \in Nat, k * n <= Cardinality(Listed(g))
  PROVE  Page(g, pred, k, n) = GetPosts(g, pred, k * n, n)
<1>1. Cardinality(Listed(g)) <= Cardinality(Posts) /\ Cardinality(Listed(g)) \in Nat /\ Cardinality(Posts) \in Nat
  BY PostListingAssumption, FS_Subset, FS_CardinalityType DEF Readable, Treed
<1>2. k * n \in Nat /\ k * n < UIntSize /\ UIntSize \in Nat
  BY <1>1, PostListingAssumption
<1>3. (k * n) % UIntSize = k * n
  BY <1>2, ModSmall
<1> QED BY <1>3 DEF Page

\* how long a page is
LEMMA PageLen ==
  ASSUME NEW g, Readable(g), NEW pred, NEW k \in Nat, NEW n \in Nat, k * n <= Cardinality(Listed(g))
  PROVE  LET c == Cardinality(AfterSkip(g, k * n) \cap pred)
         IN /\ c \in Nat /\ c <= Cardinality(Listed(g)) - k * n
            /\ MorePosts(Page(g, pred, k, n), n) <=> n <= c
<1> DEFINE F == AfterSkip(g, k * n)
           found == F \cap pred
           c == Cardinality(found)
           page == Page(g, pred, k, n)
<1>1. k * n \in Nat
  OBVIOUS
<1>2. page = GetPosts(g, pred, k * n, n)
  BY PageWithin
<1>3. c \in Nat /\ Len(page) = IF c < n THEN c ELSE n
  <2> HIDE DEF page, c
  <2> QED BY <1>1, <1>2, GetPostsLen DEF c
<1>4. Treed(F) /\ Cardinality(F) = Cardinality(Listed(g)) - k * n
  BY <1>1, AfterSkipRanks
<1>5. c <= Cardinality(F)
  <2> HIDE DEF F
  <2> QED BY <1>4, SubsetTreed
<1>6. MorePosts(page, n) <=> n <= c
  <2> HIDE DEF page, c
  <2> QED BY <1>3 DEF MorePosts
<1> QED BY <1>3, <1>4, <1>5, <1>6

\* a reader gets to no page beyond the tree
LEMMA ReachedWithin ==
  ASSUME NEW g, Readable(g), NEW pred, NEW n \in Nat, NEW k \in Nat, Reached(g, pred, n, k)
  PROVE  k * n <= Cardinality(Listed(g))
<1> DEFINE C == Cardinality(Listed(g))
           T == {j \in Nat : Reached(g, pred, n, j) /\ ~(j * n <= C)}
<1>1. C \in Nat
  BY FS_CardinalityType DEF Readable, Treed
<1>2. ASSUME T # {} PROVE FALSE
  <2>1. PICK j \in T : \A m \in T : j <= m
    BY <1>2, LeastNumber
  <2>2. j \in Nat /\ Reached(g, pred, n, j) /\ ~(j * n <= C)
    OBVIOUS
  <2>3. j # 0
    BY <1>1, <2>2
  <2> DEFINE i == j - 1
  <2>4. i \in Nat /\ i < j /\ i \in 0..j - 1 /\ j = i + 1
    BY <2>2, <2>3
  <2>5. Reached(g, pred, n, i) /\ MorePosts(Page(g, pred, i, n), n)
    <3>1. \A m \in 0..i - 1 : m \in 0..j - 1
      BY <2>4
    <3> HIDE DEF i
    <3> QED BY <2>2, <2>4, <3>1 DEF Reached
  <2>6. i * n <= C
    <3>1. i \notin T
      BY <2>1, <2>2, <2>4
    <3> QED BY <2>4, <2>5, <3>1
  <2> DEFINE c == Cardinality(AfterSkip(g, i * n) \cap pred)
  <2>7. c \in Nat /\ c <= C - i * n /\ n <= c
    <3> HIDE DEF i
    <3> QED BY <2>4, <2>5, <2>6, PageLen
  <2>8. j * n = i * n + n /\ i * n \in Nat /\ j * n \in Nat
    <3> HIDE DEF i
    <3> QED BY <2>4, ProductGrows
  <2> HIDE DEF c, i
  <2> QED BY <1>1, <2>2, <2>7, <2>8
<1> HIDE DEF C
<1>3. k \notin T
  BY <1>2
<1> QED BY <1>3 DEF C

\* a page of the index or of a tag is a stretch of the listing
LEMMA PagerPage ==
  ASSUME NEW g, Readable(g), NEW n \in Nat, NEW k \in Nat, k * n <= Cardinality(Listed(g))
  PROVE  Page(g, NoPredicate, k, n) = Stretch(NewestFirst(Listed(g)), k * n, n)
<1> DEFINE L == Listed(g)
           F == AfterSkip(g, k * n)
           all == NewestFirst(L)
           page == Page(g, NoPredicate, k, n)
<1>1. k * n \in Nat /\ k * n <= Cardinality(L)
  OBVIOUS
<1>2. Timed /\ Treed(L) /\ L \subseteq Posts /\ F \subseteq L
  BY DEF Readable, Treed, AfterSkip
<1>3. F \cap NoPredicate = F
  BY <1>2 DEF NoPredicate
<1>4. page = GetPosts(g, NoPredicate, k * n, n)
  BY PageWithin
<1>5. DOMAIN page = {j \in 1..n : j <= Cardinality(F)} /\ \A i \in DOMAIN page : page[i] = NewestFirst(F)[i]
  <2> HIDE DEF page, F
  <2> DEFINE got == GetPosts(g, NoPredicate, k * n, n)
  <2>1. /\ DOMAIN got = {j \in 1..n : j <= Cardinality(AfterSkip(g, k * n) \cap NoPredicate)}
        /\ \A i \in DOMAIN got : got[i] = NewestFirst(AfterSkip(g, k * n) \cap NoPredicate)[i]
    BY DEF GetPosts
  <2>2. AfterSkip(g, k * n) \cap NoPredicate = F
    BY <1>3 DEF F
  <2> QED BY <1>4, <2>1, <2>2
<1>6. page = [i \in DOMAIN page |-> page[i]]
  BY <1>4 DEF GetPosts
<1>7. /\ Treed(F) /\ Cardinality(F) = Cardinality(L) - k * n
      /\ \A p \in F : Rank(L, p) = Rank(F, p) + k * n
  BY <1>1, AfterSkipRanks
<1>8. Len(all) = Cardinality(L) /\ Cardinality(L) \in Nat
  BY <1>2, NewestFirstLists
<1>9. \A p \in L : all[Rank(L, p) + 1] = p
  BY <1>2, NewestFirstLists
<1> HIDE DEF page, F, all, L
<1>10. DOMAIN page = {j \in 1..n : k * n + j <= Len(all)}
  BY <1>1, <1>5, <1>7, <1>8
<1>11. ASSUME NEW i \in DOMAIN page PROVE page[i] = all[k * n + i]
  <2>1. i \in 1..Cardinality(F) /\ i \in Nat
    BY <1>5, <1>7, <1>8
  <2>2. page[i] \in F /\ Rank(F, page[i]) = i - 1
    BY <1>2, <1>5, <1>7, <2>1, NewestFirstLists
  <2>3. Rank(L, page[i]) = (i - 1) + k * n /\ page[i] \in L
    BY <1>2, <1>7, <2>2
  <2>4. Rank(L, page[i]) + 1 = k * n + i
    BY <1>1, <2>1, <2>3
  <2> QED BY <1>9, <2>3, <2>4
<1>12. page = Stretch(all, k * n, n)
  BY <1>6, <1>10, <1>11 DEF Stretch
<1> QED BY <1>12 DEF page, all, L

\* the pager leads to every page that has a post
LEMMA PagerReaches ==
  ASSUME NEW g, Readable(g), NEW n \in Nat \ {0}, NEW i \in 1..Cardinality(Listed(g))
  PROVE  Reached(g, NoPredicate, n, (i - 1) \div n)
<1> DEFINE C == Cardinality(Listed(g))
           q == (i - 1) \div n
<1>1. C \in Nat
  BY FS_CardinalityType DEF Readable, Treed
<1>2. i - 1 \in Nat /\ i - 1 < C
  BY <1>1
<1>3. q \in Nat /\ q * n <= i - 1
  BY <1>2, DivBounds
<1>4. C = Cardinality(Listed(g))
  OBVIOUS
<1> HIDE DEF C, q
<1>5. ASSUME NEW k \in 0..q - 1 PROVE MorePosts(Page(g, NoPredicate, k, n), n)
  <2>1. k \in Nat /\ k < q
    BY <1>3
  <2>2. k * n + n <= q * n /\ k * n \in Nat /\ q * n \in Nat
    BY <1>3, <2>1, ProductGrows
  <2>3. k * n + n <= C
    BY <1>1, <1>2, <1>3, <2>2
  <2>4. k * n <= C
    BY <1>1, <2>2, <2>3
  <2> DEFINE F == AfterSkip(g, k * n)
             c == Cardinality(F \cap NoPredicate)
  <2>5. MorePosts(Page(g, NoPredicate, k, n), n) <=> n <= c
    BY <1>4, <2>1, <2>4, PageLen
  <2>6. Cardinality(F) = C - k * n
    BY <1>4, <2>2, <2>4, AfterSkipRanks
  <2>7. F \cap NoPredicate = F
    BY DEF AfterSkip, NoPredicate, Readable, Treed
  <2>8. c = C - k * n
    BY <2>6, <2>7
  <2> HIDE DEF c
  <2> QED BY <1>1, <2>2, <2>3, <2>5, <2>8
<1>6. Reached(g, NoPredicate, n, q)
  BY <1>5 DEF Reached
<1> QED BY <1>6 DEF q

\* A wanted post is shown on the page of its place among all posts, or on an
\* earlier one that is not full, where the pager ends.
LEMMA FilteredShown ==
  ASSUME NEW g, Readable(g), NEW pred, NEW n \in Nat \ {0}, NEW p \in Listed(g) \cap pred
  PROVE  \E k \in Pages : Reached(g, pred, n, k) /\ p \in ToSet(Page(g, pred, k, n))
<1> DEFINE L == Listed(g)
           C == Cardinality(L)
           own == Rank(L, p) \div n
           T == {j \in Nat : j = own \/ (j < own /\ ~MorePosts(Page(g, pred, j, n), n))}
<1>1. Timed /\ Treed(L) /\ C \in Nat /\ p \in L /\ p \in pred
  BY FS_CardinalityType DEF Readable, Treed
<1>2. Rank(L, p) \in Nat /\ Rank(L, p) < C
  <2>1. Rank(L, p) \in 0..C - 1
    BY <1>1, RankBelow
  <2> QED BY <1>1, <2>1
<1>3. own \in Nat /\ own * n <= Rank(L, p) /\ Rank(L, p) < own * n + n
  BY <1>2, DivBounds
<1>4. C = Cardinality(Listed(g)) /\ L = Listed(g)
  OBVIOUS
<1> HIDE DEF L, C, own
<1>5. PICK k \in T : \A m \in T : k <= m
  <2>1. T \subseteq Nat /\ T # {}
    BY <1>3
  <2> HIDE DEF T
  <2> QED BY <2>1, LeastNumber
<1>6. k \in Nat /\ k <= own
  BY <1>3
<1>7. Reached(g, pred, n, k)
  <2>1. ASSUME NEW j \in 0..k - 1 PROVE MorePosts(Page(g, pred, j, n), n)
    <3>1. j \in Nat /\ j < own /\ ~(k <= j)
      BY <1>3, <1>6
    <3>2. j \notin T
      BY <1>5, <3>1
    <3> QED BY <3>1, <3>2
  <2> QED BY <2>1 DEF Reached
<1>8. k * n \in Nat /\ k * n <= Rank(L, p)
  <2>1. CASE k = own
    BY <1>3, <2>1
  <2>2. CASE k < own
    <3>1. k * n + n <= own * n /\ k * n \in Nat /\ own * n \in Nat
      BY <1>3, <1>6, <2>2, ProductGrows
    <3> QED BY <1>2, <1>3, <3>1
  <2> QED BY <1>3, <1>6, <2>1, <2>2
<1>9. k * n <= C
  BY <1>1, <1>2, <1>8
<1> DEFINE F == AfterSkip(g, k * n)
           found == F \cap pred
           c == Cardinality(found)
           page == Page(g, pred, k, n)
<1>10. p \in F
  BY <1>1, <1>2, <1>4, <1>8 DEF AfterSkip
<1>11. Treed(F) /\ Rank(L, p) = Rank(F, p) + k * n
  BY <1>4, <1>8, <1>9, <1>10, AfterSkipRanks
<1>12. page = GetPosts(g, pred, k * n, n)
  BY <1>4, <1>6, <1>9, PageWithin
<1> HIDE DEF F
<1>13. Treed(found) /\ p \in found
  BY <1>1, <1>10, <1>11, SubsetTreed
<1>14. Rank(found, p) \in Nat /\ Rank(found, p) <= Rank(F, p) /\ Rank(F, p) \in Nat
  <2> DEFINE A == {q \in found : Newer(q, p)}
             B == {q \in F : Newer(q, p)}
  <2>1. A \subseteq B /\ B \subseteq F
    OBVIOUS
  <2>2. Rank(found, p) = Cardinality(A) /\ Rank(F, p) = Cardinality(B)
    BY DEF Rank
  <2> HIDE DEF A, B
  <2>3. IsFiniteSet(B) /\ Cardinality(B) \in Nat
    BY <1>11, <2>1, FS_Subset, FS_CardinalityType DEF Treed
  <2> QED BY <2>1, <2>2, <2>3, FS_Subset, FS_CardinalityType
<1> DEFINE i == Rank(found, p) + 1
<1>15. i \in 1..c /\ NewestFirst(found)[i] = p /\ c \in Nat
  <2> HIDE DEF found
  <2> QED BY <1>1, <1>13, NewestFirstLists
<1>16. i <= n
  <2>1. CASE k = own
    <3>1. Rank(F, p) < n
      <4>1. Rank(F, p) + k * n < k * n + n
        BY <1>3, <1>11, <2>1
      <4> QED BY <1>8, <1>14, <4>1
    <3> QED BY <1>14, <3>1
  <2>2. CASE k < own
    <3>1. ~MorePosts(page, n)
      BY <1>3, <1>5, <1>6, <2>2
    <3>2. MorePosts(page, n) <=> n <= c
      <4> HIDE DEF page
      <4>1. MorePosts(Page(g, pred, k, n), n) <=> n <= Cardinality(AfterSkip(g, k * n) \cap pred)
        BY <1>4, <1>6, <1>9, PageLen
      <4> QED BY <4>1 DEF page, F
    <3> HIDE DEF page, c
    <3> QED BY <1>15, <3>1, <3>2
  <2> QED BY <1>3, <1>6, <2>1, <2>2
<1>17. i \in DOMAIN page /\ page[i] = p
  <2> HIDE DEF page, i
  <2> DEFINE got == GetPosts(g, pred, k * n, n)
  <2>1. /\ DOMAIN got = {j \in 1..n : j <= Cardinality(AfterSkip(g, k * n) \cap pred)}
        /\ \A j \in DOMAIN got : got[j] = NewestFirst(AfterSkip(g, k * n) \cap pred)[j]
    BY DEF GetPosts
  <2>2. DOMAIN page = {j \in 1..n : j <= c} /\ \A j \in DOMAIN page : page[j] = NewestFirst(found)[j]
    BY <1>12, <2>1 DEF F
  <2> HIDE DEF got
  <2> QED BY <1>15, <1>16, <2>2
<1>18. k \in Pages
  <2>1. C <= Cardinality(Posts) /\ Cardinality(Posts) \in Nat
    BY <1>1, <1>4, PostListingAssumption, FS_Subset, FS_CardinalityType DEF Treed
  <2>2. k <= k * n
    <3>1. CASE k = 0
      BY <1>8, <3>1
    <3>2. CASE k # 0
      <4>1. n = 1 + (n - 1) /\ n - 1 \in Nat
        OBVIOUS
      <4>2. k * n = k + k * (n - 1) /\ k * (n - 1) \in Nat
        BY <1>6, <4>1
      <4> QED BY <1>6, <4>2
    <3> QED BY <3>1, <3>2
  <2> QED BY <1>1, <1>6, <1>8, <1>9, <2>1, <2>2 DEF Pages
<1>19. p \in ToSet(page)
  <2> HIDE DEF page, i
  <2> QED BY <1>17 DEF ToSet
<1> QED BY <1>7, <1>18, <1>19

LEMMA TreesReadable ==
  ASSUME TypeOK, NEW g \in Trees
  PROVE  Readable(g)
<1>1. Tree(g) \subseteq Posts
  BY DEF TypeOK, Tree, Trees
<1>2. Listed(g) \subseteq Posts
  BY <1>1 DEF Listed
<1>3. IsFiniteSet(Listed(g))
  BY <1>2, FS_Subset, PostListingAssumption
<1> QED BY <1>2, <1>3 DEF Readable, Timed, Treed, TypeOK

\* index_get_posts, __load_posts and blahg_tag: the pagers of the index and
\* of the tags show every listed post once and in order, for every page size.
THEOREM PagersShowAll == Spec => []PagerShowsAll
<1>1. ASSUME TypeOK PROVE PagerShowsAll
  <2> SUFFICES ASSUME NEW g \in Trees, NEW n \in PageSizes
               PROVE  LET all == NewestFirst(Listed(g))
                      IN /\ ToSet(all) = Listed(g)
                         /\ \A i, j \in DOMAIN all : i < j => Newer(all[i], all[j])
                         /\ \A i \in DOMAIN all : Reached(g, NoPredicate, n, (i - 1) \div n)
                         /\ \A k \in Pages : Reached(g, NoPredicate, n, k) =>
                              Page(g, NoPredicate, k, n) = Stretch(all, k * n, n)
    BY Zenon DEF PagerShowsAll
  <2> DEFINE L == Listed(g)
             all == NewestFirst(L)
             C == Cardinality(L)
  <2>1. Readable(g) /\ Timed /\ Treed(L)
    BY <1>1, TreesReadable DEF Readable
  <2>2. n \in Nat \ {0}
    BY PostListingAssumption, FS_CardinalityType DEF PageSizes
  <2>3. /\ DOMAIN all = 1..C /\ C \in Nat
        /\ \A i \in 1..C : all[i] \in L /\ Rank(L, all[i]) = i - 1
        /\ \A p \in L : Rank(L, p) + 1 \in 1..C /\ all[Rank(L, p) + 1] = p
    <3> HIDE DEF L
    <3> QED BY <2>1, NewestFirstLists
  <2>4. \A i \in DOMAIN all : Reached(g, NoPredicate, n, (i - 1) \div n)
    <3>1. \A i \in 1..C : Reached(g, NoPredicate, n, (i - 1) \div n)
      BY <2>1, <2>2, PagerReaches
    <3> QED BY <2>3, <3>1
  <2>5. ASSUME NEW k \in Pages, Reached(g, NoPredicate, n, k)
        PROVE  Page(g, NoPredicate, k, n) = Stretch(all, k * n, n)
    <3>1. k \in Nat
      BY PostListingAssumption, FS_CardinalityType DEF Pages
    <3>2. k * n <= C
      BY <2>1, <2>2, <2>5, <3>1, ReachedWithin
    <3>3. n \in Nat
      BY <2>2
    <3> QED BY <2>1, <3>1, <3>2, <3>3, PagerPage
  <2> HIDE DEF all, L, C
  <2>6. ToSet(all) = L
    BY <2>3 DEF ToSet
  <2>7. ASSUME NEW i \in DOMAIN all, NEW j \in DOMAIN all, i < j PROVE Newer(all[i], all[j])
    <3>1. all[i] \in L /\ all[j] \in L /\ Rank(L, all[i]) < Rank(L, all[j])
      BY <2>3, <2>7
    <3> QED BY <2>1, <3>1, RankOrders
  <2> QED BY <2>4, <2>5, <2>6, <2>7 DEF all, L
<1> QED BY <1>1, TypeCorrect, PTL

\* archive_filter and the skipping without it: the pager of an archive may
\* repeat posts, but it loses none and shows no other.
THEOREM ArchivesShowAll == Spec => []ArchiveShowsAll
<1>1. ASSUME TypeOK PROVE ArchiveShowsAll
  <2> SUFFICES ASSUME NEW archid \in {m \in 197010..197102 : ValidArchId(m)}, NEW n \in PageSizes
               PROVE  Listed(NoTag) \cap ArchiveFilter(archid)
                        = UNION {ToSet(ArchivePage(archid, k, n)) :
                                   k \in {j \in Pages : Reached(NoTag, ArchiveFilter(archid), n, j)}}
    BY DEF ArchiveShowsAll
  <2> DEFINE pred == ArchiveFilter(archid)
             W == Listed(NoTag) \cap pred
  <2>1. Readable(NoTag)
    BY <1>1, TreesReadable DEF Trees
  <2>2. n \in Nat \ {0}
    BY PostListingAssumption, FS_CardinalityType DEF PageSizes
  <2> HIDE DEF pred
  <2>3. ASSUME NEW p \in W
        PROVE  \E k \in {j \in Pages : Reached(NoTag, pred, n, j)} : p \in ToSet(Page(NoTag, pred, k, n))
    BY <2>1, <2>2, FilteredShown
  <2>4. ASSUME NEW k \in Pages, Reached(NoTag, pred, n, k) PROVE ToSet(Page(NoTag, pred, k, n)) \subseteq W
    <3> DEFINE found == AfterSkip(NoTag, k * n) \cap pred
               page == Page(NoTag, pred, k, n)
    <3>1. k \in Nat
      BY PostListingAssumption, FS_CardinalityType DEF Pages
    <3>2. k * n <= Cardinality(Listed(NoTag))
      BY <2>1, <2>2, <2>4, <3>1, ReachedWithin
    <3>3. page = GetPosts(NoTag, pred, k * n, n)
      BY <2>1, <2>2, <3>1, <3>2, PageWithin
    <3>4. found \subseteq W
      BY DEF AfterSkip
    <3>5. Timed /\ Treed(found)
      BY <2>1, <3>4, SubsetTreed DEF Readable
    <3>6. DOMAIN page = {j \in 1..n : j <= Cardinality(found)} /\ \A i \in DOMAIN page : page[i] = NewestFirst(found)[i]
      BY <3>3 DEF GetPosts
    <3> HIDE DEF page, found
    <3>7. \A i \in DOMAIN page : page[i] \in found
      <4>1. \A i \in 1..Cardinality(found) : NewestFirst(found)[i] \in found
        BY <3>5, NewestFirstLists
      <4>2. Cardinality(found) \in Nat
        BY <3>5, FS_CardinalityType DEF Treed
      <4>3. DOMAIN page \subseteq 1..Cardinality(found)
        BY <2>2, <3>6, <4>2
      <4> QED BY <3>6, <4>1, <4>3
    <3>8. \A p \in ToSet(page) : p \in W
      BY <3>4, <3>7 DEF ToSet
    <3> QED BY <3>8 DEF page
  <2>5. \A k : ArchivePage(archid, k, n) = Page(NoTag, pred, k, n)
    BY DEF ArchivePage, pred
  <2> HIDE DEF W
  <2>6. W = UNION {ToSet(Page(NoTag, pred, k, n)) : k \in {j \in Pages : Reached(NoTag, pred, n, j)}}
    BY <2>3, <2>4
  <2> QED BY <2>5, <2>6 DEF W, pred
<1> QED BY <1>1, TypeCorrect, PTL

-----------------------------------------------------------------------------
(* The tag cloud *)

\* the range of sizes in proportion, rounded up: Part of Whole
Share(part, whole) == ((TagcloudMax - TagcloudMin) * part + whole - 1) \div whole

LEMMA ShareBounds ==
  ASSUME NEW whole \in Nat \ {0}, NEW part \in 1..whole
  PROVE  /\ Share(part, whole) \in Nat
         /\ Share(part, whole) <= TagcloudMax - TagcloudMin
         /\ part = whole => Share(part, whole) = TagcloudMax - TagcloudMin
<1> DEFINE A == TagcloudMax - TagcloudMin
           x == A * part + whole - 1
           q == x \div whole
<1>1. A \in Nat /\ part \in Nat /\ part <= whole
  BY PostListingAssumption
<1>2. q = Share(part, whole) /\ A = TagcloudMax - TagcloudMin
  BY DEF Share
<1> HIDE DEF A
<1>3. A * part \in Nat /\ A * whole \in Nat /\ A * part <= A * whole
  <2>1. PICK d \in Nat : whole = part + d
    <3>1. whole - part \in Nat /\ whole = part + (whole - part)
      BY <1>1
    <3> QED BY <3>1
  <2>2. A * whole = A * part + A * d /\ A * d \in Nat /\ A * part \in Nat
    BY <1>1, <2>1
  <2> QED BY <2>2
<1>4. x \in Nat /\ x <= A * whole + whole - 1
  BY <1>3
<1> HIDE DEF x
<1>5. q \in Nat /\ q * whole <= x /\ x < q * whole + whole
  BY <1>4, DivBounds
<1> HIDE DEF q
<1>6. q <= A
  <2> SUFFICES ASSUME A < q PROVE FALSE
    BY <1>1, <1>5
  <2>1. A * whole + whole <= q * whole /\ q * whole \in Nat
    BY <1>1, <1>5, ProductGrows
  <2> QED BY <1>3, <1>4, <1>5, <2>1
<1>7. ASSUME part = whole PROVE q = A
  <2> SUFFICES ASSUME q < A PROVE FALSE
    BY <1>1, <1>5, <1>6
  <2>1. q * whole + whole <= A * whole /\ q * whole \in Nat
    BY <1>1, <1>5, ProductGrows
  <2>2. x = A * whole + whole - 1
    BY <1>7 DEF x
  <2> QED BY <1>3, <1>5, <2>1, <2>2
<1> QED BY <1>2, <1>5, <1>6, <1>7

LEMMA ShareGrows ==
  ASSUME NEW whole \in Nat \ {0}, NEW a \in 1..whole, NEW b \in 1..whole, a <= b
  PROVE  Share(a, whole) <= Share(b, whole)
<1> DEFINE A == TagcloudMax - TagcloudMin
           x == A * a + whole - 1
           y == A * b + whole - 1
           p == x \div whole
           q == y \div whole
<1>1. A \in Nat /\ a \in Nat /\ b \in Nat
  BY PostListingAssumption
<1>2. p = Share(a, whole) /\ q = Share(b, whole)
  BY DEF Share
<1> HIDE DEF A
<1>3. x \in Nat /\ y \in Nat /\ x <= y
  <2>1. PICK d \in Nat : b = a + d
    <3>1. b - a \in Nat /\ b = a + (b - a)
      BY <1>1
    <3> QED BY <3>1
  <2>2. A * b = A * a + A * d /\ A * d \in Nat /\ A * a \in Nat
    BY <1>1, <2>1
  <2> QED BY <2>2
<1> HIDE DEF x, y
<1>4. /\ p \in Nat /\ p * whole <= x
      /\ q \in Nat /\ y < q * whole + whole
  BY <1>3, DivBounds
<1> HIDE DEF p, q
<1>5. p <= q
  <2> SUFFICES ASSUME q < p PROVE FALSE
    BY <1>4
  <2>1. q * whole + whole <= p * whole /\ q * whole \in Nat /\ p * whole \in Nat
    BY <1>4, ProductGrows
  <2> QED BY <1>3, <1>4, <2>1
<1> QED BY <1>2, <1>5

LEMMA TagSizeIs ==
  ASSUME NEW cmin \in Nat, NEW cmax \in Nat, NEW count \in Nat, cmin <= count, count <= cmax
  PROVE  TagSize(count, cmin, cmax)
           = IF count = cmin THEN TagcloudMin ELSE TagcloudMin + Share(count - cmin, cmax - cmin)
BY DEF TagSize, Share

\* The fewest and the most posts of a tag are those of tags.
LEMMA TagRange ==
  ASSUME TypeOK, NEW g \in TagsPresent
  PROVE  /\ TagMin \in Nat /\ TagMax \in Nat /\ TagCount(g) \in Nat
         /\ TagMin <= TagCount(g) /\ TagCount(g) <= TagMax
<1> DEFINE S == {TagCount(h) : h \in TagsPresent}
           N == Cardinality(Posts)
           D == {N - c : c \in S}
<1>1. N \in Nat
  BY PostListingAssumption, FS_CardinalityType
<1>2. ASSUME NEW h \in TagsPresent PROVE TagCount(h) \in Nat /\ TagCount(h) <= N
  <2>1. byTag[h] \subseteq Posts
    BY DEF TypeOK, TagsPresent
  <2> QED BY <2>1, PostListingAssumption, FS_Subset, FS_CardinalityType DEF TagCount
<1> HIDE DEF N
<1>3. S \subseteq Nat /\ S # {} /\ D \subseteq Nat /\ D # {}
  BY <1>1, <1>2
<1>4. \E n \in S : \A h \in TagsPresent : n <= TagCount(h)
  <2>1. PICK n \in S : \A m \in S : n <= m
    BY <1>3, LeastNumber
  <2> QED BY <2>1
<1>5. \E n \in S : \A h \in TagsPresent : n >= TagCount(h)
  <2>1. PICK d \in D : \A e \in D : d <= e
    <3> HIDE DEF D
    <3> QED BY <1>3, LeastNumber
  <2>2. PICK n \in S : d = N - n
    OBVIOUS
  <2>3. ASSUME NEW h \in TagsPresent PROVE n >= TagCount(h)
    <3>1. N - TagCount(h) \in D
      OBVIOUS
    <3>2. N - n <= N - TagCount(h)
      BY <2>1, <2>2, <3>1
    <3> QED BY <1>1, <1>2, <1>3, <3>2
  <2> QED BY <2>3
<1>6. TagMin \in S /\ \A h \in TagsPresent : TagMin <= TagCount(h)
  BY <1>4 DEF TagMin
<1>7. TagMax \in S /\ \A h \in TagsPresent : TagMax >= TagCount(h)
  BY <1>5 DEF TagMax
<1> HIDE DEF S, TagMin, TagMax, TagCount
<1> QED BY <1>2, <1>3, <1>6, <1>7

\* index_for_each_tag, __tagcloud_step and __tag_size: for any tags and any
\* range of sizes.
THEOREM TagCloudIsSound == Spec => []TagCloudSound
<1>1. ASSUME TypeOK PROVE TagCloudSound
  <2> SUFFICES ASSUME NEW c \in TagCloud
               PROVE  /\ c.size \in TagcloudMin..TagcloudMax
                      /\ c.count = TagMax /\ TagMax > TagMin => c.size = TagcloudMax
                      /\ \A d \in TagCloud : c.count <= d.count => c.size <= d.size
    BY Zenon DEF TagCloudSound
  <2> DEFINE size(n) == IF n = TagMin THEN TagcloudMin ELSE TagcloudMin + Share(n - TagMin, TagMax - TagMin)
  <2>1. ASSUME NEW d \in TagCloud
        PROVE  /\ d.count \in Nat /\ TagMin \in Nat /\ TagMax \in Nat
               /\ TagMin <= d.count /\ d.count <= TagMax /\ d.size = size(d.count)
    <3>1. PICK g \in TagsPresent :
            d = [name |-> g, count |-> TagCount(g), size |-> TagSize(TagCount(g), TagMin, TagMax)]
      BY DEF TagCloud
    <3>2. d.count = TagCount(g) /\ d.size = TagSize(TagCount(g), TagMin, TagMax)
      BY <3>1
    <3>3. /\ TagMin \in Nat /\ TagMax \in Nat /\ TagCount(g) \in Nat
          /\ TagMin <= TagCount(g) /\ TagCount(g) <= TagMax
      BY <1>1, TagRange
    <3> HIDE DEF TagMin, TagMax, TagCount
    <3>4. TagSize(TagCount(g), TagMin, TagMax) = size(TagCount(g))
      BY <3>3, TagSizeIs
    <3> QED BY <3>2, <3>3, <3>4
  <2> HIDE DEF TagMin, TagMax
  <2>2. ASSUME NEW n \in Nat, TagMin <= n, n <= TagMax, n # TagMin
        PROVE  TagMax - TagMin \in Nat \ {0} /\ n - TagMin \in 1..TagMax - TagMin
    BY <2>1, <2>2
  <2>3. ASSUME NEW n \in Nat, TagMin <= n, n <= TagMax
        PROVE  size(n) \in TagcloudMin..TagcloudMax /\ (n = TagMax /\ TagMax > TagMin => size(n) = TagcloudMax)
    <3>1. CASE n = TagMin
      BY <2>1, <3>1, PostListingAssumption
    <3>2. CASE n # TagMin
      <4> DEFINE q == Share(n - TagMin, TagMax - TagMin)
      <4>1. /\ q \in Nat /\ q <= TagcloudMax - TagcloudMin
            /\ n - TagMin = TagMax - TagMin => q = TagcloudMax - TagcloudMin
        BY <2>2, <2>3, <3>2, ShareBounds
      <4>2. size(n) = TagcloudMin + q
        BY <3>2
      <4> HIDE DEF q, size
      <4> QED BY <4>1, <4>2, PostListingAssumption
    <3> QED BY <3>1, <3>2
  <2>4. ASSUME NEW n \in Nat, TagMin <= n, n <= TagMax, NEW m \in Nat, n <= m, m <= TagMax
        PROVE  size(n) <= size(m)
    <3>1. CASE n = TagMin
      <4>1. size(m) \in TagcloudMin..TagcloudMax
        BY <2>1, <2>3, <2>4
      <4>2. size(n) = TagcloudMin
        BY <3>1
      <4> HIDE DEF size
      <4> QED BY <4>1, <4>2, PostListingAssumption
    <3>2. CASE n # TagMin
      <4>1. m # TagMin /\ TagMin <= m
        BY <2>1, <2>4, <3>2
      <4> DEFINE w == TagMax - TagMin
      <4>2. w \in Nat \ {0} /\ n - TagMin \in 1..w /\ m - TagMin \in 1..w /\ n - TagMin <= m - TagMin
        BY <2>1, <2>2, <2>4, <3>2, <4>1
      <4> HIDE DEF w
      <4>3. /\ Share(n - TagMin, w) <= Share(m - TagMin, w)
            /\ Share(n - TagMin, w) \in Nat /\ Share(m - TagMin, w) \in Nat
        BY <4>2, ShareGrows, ShareBounds
      <4>4. size(n) = TagcloudMin + Share(n - TagMin, w) /\ size(m) = TagcloudMin + Share(m - TagMin, w)
        BY <3>2, <4>1 DEF w
      <4> HIDE DEF size
      <4> QED BY <4>3, <4>4, PostListingAssumption
    <3> QED BY <3>1, <3>2
  <2>5. ASSUME NEW d \in TagCloud, c.count <= d.count PROVE c.size <= d.size
    <3> HIDE DEF size
    <3> QED BY <2>1, <2>4, <2>5
  <2> HIDE DEF size
  <2> QED BY <2>1, <2>3, <2>5
<1> QED BY <1>1, TypeCorrect, PTL
=============================================================================
