---------------------------- MODULE RequestProofs ----------------------------
(***************************************************************************)
(* References, sessions and responses of requests, for any number of       *)
(* threads, any queries, files, posts and categories.  Every operator of   *)
(* Request is measured by what it does to a request's Debt, the references *)
(* that nothing in the request will put: each path of a handler returns to *)
(* 0.  That a response's parts fit together is shown handler by handler,   *)
(* from the request as dispatch got it.  And a reader's walk over a        *)
(* listing: the pages are placed by the ranks of their posts in the tree,  *)
(* a page's links are written into a URL, read back and followed through   *)
(* select_page and get_page_number of the request that they make, and the  *)
(* trail grows by full pages only.                                         *)
(***************************************************************************)
EXTENDS Request, TLAPS, FiniteSetTheorems

\* the variables that hold references
RefNames == {"title", "tagid", "redirect"}

RefSlots(r, s) == {v \in (DOMAIN r.vars) \X RefNames :
                     v[2] \in DOMAIN r.vars[v[1]] /\ r.vars[v[1]][v[2]].ref = s}

\* the reference that PutFmt puts
FmtOwes(r, s) == IF s = "feed" /\ r.fmt \notin {None, "html"} THEN 1 ELSE 0

Debt(r, s) == r.refs[s] - VarRefs(r, s) - FmtOwes(r, s)

Fields == {"id", "query", "page", "fmt", "index_stories", "headers", "status", "body", "bodylen",
           "vars", "refs", "walks", "trail"}

Scopes(r) == \E S : r.vars \in Seq(S)

WF(r) == Fields \subseteq DOMAIN r /\ r.refs \in [Strings -> Int] /\ Scopes(r) /\ Len(r.vars) > 0

\* the innermost scope has no variable with a reference
Bare(r, name) == name \notin DOMAIN r.vars[Len(r.vars)]

\* r became q, and what matters did not change
Same(r, q) == WF(q) /\ q.id = r.id /\ \A s \in Strings : Debt(q, s) = Debt(r, s)

\* the same but for the references to str
Owing(r, q, str, n) ==
  WF(q) /\ q.id = r.id /\ \A s \in Strings : Debt(q, s) = Debt(r, s) + (IF s = str THEN n ELSE 0)

LEMMA SlotsFinite ==
  ASSUME NEW r, WF(r), NEW s
  PROVE  IsFiniteSet(RefSlots(r, s)) /\ VarRefs(r, s) = Cardinality(RefSlots(r, s)) /\ VarRefs(r, s) \in Nat
<1>1. DOMAIN r.vars = 1..Len(r.vars) /\ Len(r.vars) \in Nat
  <2>1. PICK S : r.vars \in Seq(S)
    BY DEF WF, Scopes
  <2> QED BY <2>1
<1>2. IsFiniteSet(DOMAIN r.vars)
  BY <1>1, FS_Interval
<1>3. IsFiniteSet(RefNames)
  <2>1. RefNames = ({"title"} \cup {"tagid"}) \cup {"redirect"}
    BY DEF RefNames
  <2> QED BY <2>1, FS_Singleton, FS_Union
<1>4. IsFiniteSet((DOMAIN r.vars) \X RefNames)
  BY <1>2, <1>3, FS_Product
<1>5. IsFiniteSet(RefSlots(r, s))
  BY <1>4, FS_Subset DEF RefSlots
<1>6. VarRefs(r, s) = Cardinality(RefSlots(r, s))
  BY DEF VarRefs, RefSlots, RefNames
<1> QED BY <1>5, <1>6, FS_CardinalityType

\* a field that holds no references
LEMMA OtherField ==
  ASSUME NEW r, WF(r), NEW q,
         Fields \subseteq DOMAIN q, q.id = r.id, q.vars = r.vars, q.refs = r.refs, q.fmt = r.fmt
  PROVE  Same(r, q)
<1>1. WF(q)
  BY DEF WF, Scopes
<1>2. \A s : VarRefs(q, s) = VarRefs(r, s) /\ FmtOwes(q, s) = FmtOwes(r, s)
  BY DEF VarRefs, FmtOwes
<1> QED BY <1>1, <1>2 DEF Same, Debt

LEMMA HeadSame ==
  ASSUME NEW r, WF(r), NEW name, NEW val
  PROVE  /\ Same(r, req_head(r, name, val))
         /\ req_head(r, name, val).vars = r.vars /\ req_head(r, name, val).fmt = r.fmt
         /\ req_head(r, name, val).refs = r.refs
         /\ req_head(r, name, val).query = r.query /\ req_head(r, name, val).page = r.page
<1> DEFINE q == req_head(r, name, val)
<1>1. Fields \subseteq DOMAIN q /\ q.id = r.id /\ q.vars = r.vars /\ q.refs = r.refs /\ q.fmt = r.fmt
      /\ q.query = r.query /\ q.page = r.page
  BY DEF req_head, WF, Fields
<1> QED BY <1>1, OtherField

LEMMA GetOwes ==
  ASSUME NEW r, WF(r), NEW str \in Strings
  PROVE  /\ Owing(r, Get(r, str), str, 1)
         /\ Get(r, str).vars = r.vars /\ Get(r, str).fmt = r.fmt
         /\ Get(r, str).query = r.query /\ Get(r, str).page = r.page
<1> DEFINE q == Get(r, str)
<1>1. /\ Fields \subseteq DOMAIN q /\ q.id = r.id /\ q.vars = r.vars /\ q.fmt = r.fmt
      /\ q.query = r.query /\ q.page = r.page
      /\ q.refs = [r.refs EXCEPT ![str] = @ + 1]
  BY DEF Get, WF, Fields
<1>2. WF(q) /\ \A s : VarRefs(q, s) = VarRefs(r, s) /\ FmtOwes(q, s) = FmtOwes(r, s)
  BY <1>1 DEF WF, Scopes, VarRefs, FmtOwes
<1>3. \A s \in Strings : VarRefs(r, s) \in Int /\ FmtOwes(r, s) \in Int
  BY SlotsFinite DEF FmtOwes
<1>4. \A s \in Strings : q.refs[s] = r.refs[s] + (IF s = str THEN 1 ELSE 0) /\ r.refs[s] \in Int
  BY <1>1 DEF WF
<1>5. \A s \in Strings : Debt(q, s) = Debt(r, s) + (IF s = str THEN 1 ELSE 0)
  BY <1>2, <1>3, <1>4 DEF Debt
<1> QED BY <1>1, <1>2, <1>5 DEF Owing

LEMMA PutOwes ==
  ASSUME NEW r, WF(r), NEW str \in Strings
  PROVE  /\ Owing(r, Put(r, str), str, -1)
         /\ Put(r, str).vars = r.vars /\ Put(r, str).fmt = r.fmt
         /\ Put(r, str).query = r.query /\ Put(r, str).page = r.page
<1> DEFINE q == Put(r, str)
<1>1. /\ Fields \subseteq DOMAIN q /\ q.id = r.id /\ q.vars = r.vars /\ q.fmt = r.fmt
      /\ q.query = r.query /\ q.page = r.page
      /\ q.refs = [r.refs EXCEPT ![str] = @ - 1]
  BY DEF Put, WF, Fields
<1>2. WF(q) /\ \A s : VarRefs(q, s) = VarRefs(r, s) /\ FmtOwes(q, s) = FmtOwes(r, s)
  BY <1>1 DEF WF, Scopes, VarRefs, FmtOwes
<1>3. \A s \in Strings : VarRefs(r, s) \in Int /\ FmtOwes(r, s) \in Int
  BY SlotsFinite DEF FmtOwes
<1>4. \A s \in Strings : q.refs[s] = r.refs[s] + (IF s = str THEN -1 ELSE 0) /\ r.refs[s] \in Int
  BY <1>1 DEF WF
<1>5. \A s \in Strings : Debt(q, s) = Debt(r, s) + (IF s = str THEN -1 ELSE 0)
  BY <1>2, <1>3, <1>4 DEF Debt
<1> QED BY <1>1, <1>2, <1>5 DEF Owing

\* a new scope
LEMMA PushSame ==
  ASSUME NEW r, WF(r)
  PROVE  /\ Same(r, vars_scope_push(r)) /\ vars_scope_push(r).fmt = r.fmt
         /\ vars_scope_push(r).query = r.query /\ vars_scope_push(r).page = r.page
         /\ \A n : Bare(vars_scope_push(r), n)
<1> DEFINE q == vars_scope_push(r)
           new == [n \in {} |-> 0]
<1>1. /\ Fields \subseteq DOMAIN q /\ q.id = r.id /\ q.refs = r.refs /\ q.fmt = r.fmt
      /\ q.query = r.query /\ q.page = r.page /\ q.vars = Append(r.vars, new)
  BY DEF vars_scope_push, WF, Fields
<1>2. PICK S : r.vars \in Seq(S)
  BY DEF WF, Scopes
<1>3. r.vars \in Seq(S \cup {new}) /\ Len(r.vars) \in Nat
  BY <1>2
<1>4. /\ q.vars \in Seq(S \cup {new}) /\ Len(q.vars) = Len(r.vars) + 1
      /\ \A i \in 1..Len(r.vars) : q.vars[i] = r.vars[i]
      /\ q.vars[Len(r.vars) + 1] = new
      /\ DOMAIN q.vars = 1..(Len(r.vars) + 1) /\ DOMAIN r.vars = 1..Len(r.vars)
  BY <1>1, <1>3
<1>5. WF(q)
  BY <1>1, <1>3, <1>4 DEF WF, Scopes
<1>6. DOMAIN new = {}
  OBVIOUS
<1> HIDE DEF new
<1>7. ASSUME NEW s PROVE VarRefs(q, s) = VarRefs(r, s)
  <2>1. \A i \in DOMAIN q.vars, n \in RefNames :
          n \in DOMAIN q.vars[i] /\ q.vars[i][n].ref = s
            <=> i \in DOMAIN r.vars /\ n \in DOMAIN r.vars[i] /\ r.vars[i][n].ref = s
    BY <1>3, <1>4, <1>6
  <2>2. DOMAIN r.vars \subseteq DOMAIN q.vars
    BY <1>3, <1>4
  <2>3. RefSlots(q, s) = RefSlots(r, s)
    BY <2>1, <2>2 DEF RefSlots
  <2> QED BY <1>5, <2>3, SlotsFinite
<1>8. Same(r, q)
  BY <1>1, <1>5, <1>7 DEF Same, Debt, FmtOwes
<1>9. \A n : Bare(q, n)
  BY <1>3, <1>4, <1>6 DEF Bare
<1> QED BY <1>1, <1>8, <1>9

\* what vars_set does to the scopes
LEMMA VarSet ==
  ASSUME NEW r, WF(r), NEW name, NEW val
  PROVE  LET q == vars_set(r, name, val)
             last == Len(r.vars)
         IN /\ WF(q) /\ q.id = r.id /\ q.refs = r.refs /\ q.fmt = r.fmt
            /\ q.query = r.query /\ q.page = r.page
            /\ last \in DOMAIN r.vars /\ Len(q.vars) = last /\ DOMAIN q.vars = DOMAIN r.vars
            /\ \A i \in DOMAIN r.vars \ {last} : q.vars[i] = r.vars[i]
            /\ DOMAIN q.vars[last] = DOMAIN r.vars[last] \cup {name}
            /\ q.vars[last][name] = val
            /\ \A n \in DOMAIN r.vars[last] \ {name} : q.vars[last][n] = r.vars[last][n]
<1> DEFINE q == vars_set(r, name, val)
           last == Len(r.vars)
           old == r.vars[last]
           new == [n \in DOMAIN old \cup {name} |-> IF n = name THEN val ELSE old[n]]
<1>1. /\ Fields \subseteq DOMAIN q /\ q.id = r.id /\ q.refs = r.refs /\ q.fmt = r.fmt
      /\ q.query = r.query /\ q.page = r.page /\ q.vars = [r.vars EXCEPT ![last] = new]
  BY DEF vars_set, WF, Fields
<1>2. PICK S : r.vars \in Seq(S)
  BY DEF WF, Scopes
<1>3. /\ DOMAIN new = DOMAIN old \cup {name} /\ new[name] = val
      /\ \A n \in DOMAIN old \ {name} : new[n] = old[n]
  OBVIOUS
<1> HIDE DEF new
<1>4. r.vars \in Seq(S \cup {new}) /\ last \in 1..last /\ DOMAIN r.vars = 1..last
  BY <1>2 DEF WF
<1>5. q.vars \in Seq(S \cup {new}) /\ DOMAIN q.vars = 1..last /\ Len(q.vars) = last
  BY <1>1, <1>4
<1>6. WF(q)
  BY <1>1, <1>4, <1>5 DEF WF, Scopes
<1>7. q.vars[last] = new /\ \A i \in DOMAIN r.vars \ {last} : q.vars[i] = r.vars[i]
  BY <1>1, <1>4
<1> QED BY <1>1, <1>3, <1>4, <1>5, <1>6, <1>7

\* a variable that is no string
LEMMA SetSame ==
  ASSUME NEW r, WF(r), NEW name, name \notin RefNames, NEW val
  PROVE  /\ Same(r, vars_set(r, name, val)) /\ vars_set(r, name, val).fmt = r.fmt
         /\ vars_set(r, name, val).query = r.query /\ vars_set(r, name, val).page = r.page
         /\ \A n \in RefNames : Bare(r, n) => Bare(vars_set(r, name, val), n)
<1> DEFINE q == vars_set(r, name, val)
           last == Len(r.vars)
<1>1. /\ WF(q) /\ q.id = r.id /\ q.refs = r.refs /\ q.fmt = r.fmt
      /\ q.query = r.query /\ q.page = r.page
      /\ last \in DOMAIN r.vars /\ Len(q.vars) = last /\ DOMAIN q.vars = DOMAIN r.vars
      /\ \A i \in DOMAIN r.vars \ {last} : q.vars[i] = r.vars[i]
      /\ DOMAIN q.vars[last] = DOMAIN r.vars[last] \cup {name}
      /\ \A n \in DOMAIN r.vars[last] \ {name} : q.vars[last][n] = r.vars[last][n]
  BY VarSet
<1> HIDE DEF q
<1>2. ASSUME NEW s PROVE VarRefs(q, s) = VarRefs(r, s)
  <2>1. \A i \in DOMAIN r.vars, n \in RefNames :
          n \in DOMAIN q.vars[i] /\ q.vars[i][n].ref = s
            <=> n \in DOMAIN r.vars[i] /\ r.vars[i][n].ref = s
    BY <1>1
  <2>2. RefSlots(q, s) = RefSlots(r, s)
    BY <1>1, <2>1 DEF RefSlots
  <2> QED BY <1>1, <2>2, SlotsFinite
<1>3. Same(r, q)
  BY <1>1, <1>2 DEF Same, Debt, FmtOwes
<1>4. \A n \in RefNames : Bare(r, n) => Bare(q, n)
  BY <1>1 DEF Bare
<1> QED BY <1>1, <1>3, <1>4 DEF q

\* a variable that takes a reference over
LEMMA SetOwes ==
  ASSUME NEW r, WF(r), NEW name \in RefNames, Bare(r, name), NEW str
  PROVE  LET q == vars_set(r, name, [ref |-> str])
         IN /\ Owing(r, q, str, -1) /\ q.fmt = r.fmt /\ q.query = r.query /\ q.page = r.page
            /\ \A n \in RefNames \ {name} : Bare(r, n) => Bare(q, n)
<1> DEFINE val == [ref |-> str]
           q == vars_set(r, name, val)
           last == Len(r.vars)
<1>1. /\ WF(q) /\ q.id = r.id /\ q.refs = r.refs /\ q.fmt = r.fmt
      /\ q.query = r.query /\ q.page = r.page
      /\ last \in DOMAIN r.vars /\ Len(q.vars) = last /\ DOMAIN q.vars = DOMAIN r.vars
      /\ \A i \in DOMAIN r.vars \ {last} : q.vars[i] = r.vars[i]
      /\ DOMAIN q.vars[last] = DOMAIN r.vars[last] \cup {name}
      /\ q.vars[last][name] = val
      /\ \A n \in DOMAIN r.vars[last] \ {name} : q.vars[last][n] = r.vars[last][n]
  BY VarSet
<1>2. val.ref = str /\ name \notin DOMAIN r.vars[last]
  BY DEF Bare
<1> HIDE DEF q, val
<1>3. \A i \in DOMAIN r.vars, n \in RefNames : <<i, n>> # <<last, name>> =>
        (n \in DOMAIN q.vars[i] <=> n \in DOMAIN r.vars[i])
        /\ (n \in DOMAIN r.vars[i] => q.vars[i][n] = r.vars[i][n])
  BY <1>1, <1>2
<1>4. ASSUME NEW s \in Strings PROVE VarRefs(q, s) = VarRefs(r, s) + (IF s = str THEN 1 ELSE 0)
  <2>1. /\ IsFiniteSet(RefSlots(r, s)) /\ VarRefs(r, s) = Cardinality(RefSlots(r, s))
        /\ VarRefs(q, s) = Cardinality(RefSlots(q, s)) /\ VarRefs(r, s) \in Nat
    BY <1>1, SlotsFinite
  <2>2. <<last, name>> \notin RefSlots(r, s)
    BY <1>2 DEF RefSlots
  <2>3. <<last, name>> \in RefSlots(q, s) <=> s = str
    BY <1>1, <1>2 DEF RefSlots
  <2>4. ASSUME NEW v \in (DOMAIN r.vars) \X RefNames, v # <<last, name>>
        PROVE  v \in RefSlots(q, s) <=> v \in RefSlots(r, s)
    <3>1. v = <<v[1], v[2]>> /\ v[1] \in DOMAIN r.vars /\ v[2] \in RefNames
      BY <2>4
    <3> QED BY <1>1, <1>3, <2>4, <3>1 DEF RefSlots
  <2>5. RefSlots(q, s) \subseteq (DOMAIN r.vars) \X RefNames /\ RefSlots(r, s) \subseteq (DOMAIN r.vars) \X RefNames
    BY <1>1 DEF RefSlots
  <2>6. CASE s = str
    <3>1. RefSlots(q, s) = RefSlots(r, s) \cup {<<last, name>>}
      BY <2>3, <2>4, <2>5, <2>6
    <3> HIDE DEF RefSlots, VarRefs
    <3>2. Cardinality(RefSlots(q, s)) = Cardinality(RefSlots(r, s)) + 1
      BY <2>1, <2>2, <3>1, FS_AddElement
    <3> QED BY <2>1, <2>6, <3>2
  <2>7. CASE s # str
    <3>1. RefSlots(q, s) = RefSlots(r, s)
      <4>1. \A v \in (DOMAIN r.vars) \X RefNames : v \in RefSlots(q, s) <=> v \in RefSlots(r, s)
        BY <2>2, <2>3, <2>4, <2>7
      <4> QED BY <2>5, <4>1
    <3> QED BY <2>1, <2>7, <3>1
  <2> QED BY <2>6, <2>7
<1>5. ASSUME NEW s \in Strings PROVE Debt(q, s) = Debt(r, s) + (IF s = str THEN -1 ELSE 0)
  <2>1. VarRefs(r, s) \in Int /\ FmtOwes(r, s) \in Int /\ r.refs[s] \in Int
    <3>1. VarRefs(r, s) \in Nat
      BY SlotsFinite
    <3> QED BY <3>1 DEF FmtOwes, WF
  <2>2. FmtOwes(q, s) = FmtOwes(r, s)
    BY <1>1 DEF FmtOwes
  <2>3. q.refs[s] = r.refs[s] /\ VarRefs(q, s) = VarRefs(r, s) + (IF s = str THEN 1 ELSE 0)
    BY <1>1, <1>4
  <2> HIDE DEF FmtOwes, VarRefs
  <2> QED BY <2>1, <2>2, <2>3 DEF Debt
<1>6. Owing(r, q, str, -1)
  BY <1>1, <1>5 DEF Owing
<1>7. \A n \in RefNames \ {name} : Bare(r, n) => Bare(q, n)
  BY <1>1 DEF Bare
<1> QED BY <1>1, <1>6, <1>7 DEF q, val

LEMMA RenderSame ==
  ASSUME NEW r, WF(r), NEW tmpl
  PROVE  Same(r, render_page(r, tmpl))
<1> DEFINE q == render_page(r, tmpl)
<1>1. Fields \subseteq DOMAIN q /\ q.id = r.id /\ q.vars = r.vars /\ q.refs = r.refs /\ q.fmt = r.fmt
  BY DEF render_page, WF, Fields
<1> QED BY <1>1, OtherField

\* an error page is HTML: the reference of the format is put, and not owed
HtmlAnswer(r, st) ==
  [req_head(PutFmt(r), "Content-Type", "text/html") EXCEPT !.status = st, !.fmt = "html"]

LEMMA HtmlSame ==
  ASSUME NEW r, WF(r), NEW st
  PROVE  Same(r, HtmlAnswer(r, st))
<1> DEFINE p == PutFmt(r)
           head == req_head(p, "Content-Type", "text/html")
           q == [head EXCEPT !.status = st, !.fmt = "html"]
<1>1. "feed" \in Strings
  BY DEF Strings
<1>2. WF(p) /\ p.id = r.id /\ p.vars = r.vars /\ p.fmt = r.fmt
  BY <1>1, PutOwes DEF PutFmt, Owing
<1>3. \A s \in Strings : Debt(p, s) = Debt(r, s) - FmtOwes(r, s)
  <2>1. \A s \in Strings : Debt(r, s) \in Int
    <3>1. \A s \in Strings : VarRefs(r, s) \in Int /\ r.refs[s] \in Int
      BY SlotsFinite DEF WF
    <3> QED BY <3>1 DEF Debt, FmtOwes
  <2>2. CASE r.fmt \in {None, "html"}
    BY <2>1, <2>2 DEF PutFmt, FmtOwes
  <2>3. CASE r.fmt \notin {None, "html"}
    <3>1. \A s \in Strings : Debt(p, s) = Debt(r, s) + (IF s = "feed" THEN -1 ELSE 0)
      BY <1>1, <2>3, PutOwes DEF PutFmt, Owing
    <3> QED BY <2>1, <2>3, <3>1 DEF FmtOwes
  <2> QED BY <2>2, <2>3
<1> HIDE DEF p
<1>4. WF(head) /\ head.id = r.id /\ head.vars = r.vars /\ head.refs = p.refs
  BY <1>2, HeadSame DEF Same
<1> HIDE DEF head
<1>5. Fields \subseteq DOMAIN q /\ q.id = r.id /\ q.vars = r.vars /\ q.refs = p.refs /\ q.fmt = "html"
  BY <1>4 DEF WF, Fields
<1> HIDE DEF q
<1>6. WF(q)
  BY <1>2, <1>5 DEF WF, Scopes
<1>7. ASSUME NEW s \in Strings PROVE Debt(q, s) = Debt(r, s)
  <2>1. VarRefs(q, s) = VarRefs(r, s) /\ VarRefs(p, s) = VarRefs(r, s)
    BY <1>2, <1>5 DEF VarRefs
  <2>2. FmtOwes(q, s) = 0 /\ FmtOwes(p, s) = FmtOwes(r, s) /\ FmtOwes(r, s) \in Int
    BY <1>2, <1>5 DEF FmtOwes
  <2>3. VarRefs(r, s) \in Nat /\ p.refs[s] \in Int /\ r.refs[s] \in Int
    BY <1>2, SlotsFinite DEF WF
  <2>4. Debt(p, s) = Debt(r, s) - FmtOwes(r, s) /\ q.refs[s] = p.refs[s]
    BY <1>3, <1>5
  <2> HIDE DEF FmtOwes, VarRefs
  <2> QED BY <2>1, <2>2, <2>3, <2>4 DEF Debt
<1>8. Same(r, q)
  BY <1>5, <1>6, <1>7 DEF Same
<1> QED BY <1>8 DEF HtmlAnswer, q, head, p

LEMMA R404Same ==
  ASSUME NEW r, WF(r), NEW tmpl
  PROVE  Same(r, R404(r, tmpl))
<1> DEFINE html == HtmlAnswer(r, 404)
<1>1. Same(r, html)
  BY HtmlSame
<1> HIDE DEF html
<1>2. Same(html, vars_scope_push(html))
  BY <1>1, PushSame DEF Same
<1>3. Same(vars_scope_push(html), render_page(vars_scope_push(html), tmpl))
  BY <1>2, RenderSame DEF Same
<1>4. Same(r, render_page(vars_scope_push(html), tmpl))
  BY <1>1, <1>2, <1>3 DEF Same
<1> QED BY <1>4 DEF R404, HtmlAnswer, html

\* the redirect takes the url
LEMMA R301Owes ==
  ASSUME NEW r, WF(r), NEW url
  PROVE  Owing(r, R301(r, url), "url", -1)
<1> DEFINE head == req_head(PutFmt(r), "Content-Type", "text/html")
           html == [req_head(head, "Location", url) EXCEPT !.status = 301, !.fmt = "html"]
           set == vars_set(vars_scope_push(html), "redirect", [ref |-> "url"])
<1>1. Same(r, html)
  <2> DEFINE p == PutFmt(r)
             plain == HtmlAnswer(r, 301)
  <2>1. Same(r, plain)
    BY HtmlSame
  <2>2. "feed" \in Strings
    BY DEF Strings
  <2>3. WF(p)
    BY <2>2, PutOwes DEF PutFmt, Owing
  <2>4. WF(head)
    BY <2>3, HeadSame DEF Same
  <2> HIDE DEF head
  <2>5. /\ html.id = plain.id /\ html.vars = plain.vars /\ html.refs = plain.refs /\ html.fmt = plain.fmt
        /\ Fields \subseteq DOMAIN html
    BY <2>4 DEF WF, Fields, req_head, HtmlAnswer, head
  <2> HIDE DEF plain, html
  <2>6. Same(plain, html)
    BY <2>1, <2>5, OtherField DEF Same
  <2> QED BY <2>1, <2>6 DEF Same
<1> HIDE DEF html
<1>2. Same(html, vars_scope_push(html)) /\ Bare(vars_scope_push(html), "redirect")
  BY <1>1, PushSame DEF Same
<1>3. Owing(vars_scope_push(html), set, "url", -1)
  BY <1>2, SetOwes DEF Same, RefNames
<1>4. Same(set, render_page(set, "301"))
  BY <1>3, RenderSame DEF Owing
<1> HIDE DEF set
<1>5. Owing(r, render_page(set, "301"), "url", -1)
  BY <1>1, <1>2, <1>3, <1>4 DEF Same, Owing
<1> QED BY <1>5 DEF R301, html, set

\* the page numbers and the posts of a listing are no strings
LEMMA StorePagesSame ==
  ASSUME NEW r, WF(r), NEW page, NEW q \in store_pages(r, page)
  PROVE  Same(r, q) /\ q.query = r.query
<1>1. PICK n : q = vars_set(vars_set(vars_set(r, "prevpage", n), "curpage", page), "nextpage", U64(page - 1))
  BY DEF store_pages
<1> DEFINE a == vars_set(r, "prevpage", n)
           b == vars_set(a, "curpage", page)
<1>2. Same(r, a) /\ a.query = r.query
  BY SetSame DEF RefNames
<1> HIDE DEF a
<1>3. Same(a, b) /\ b.query = a.query
  BY <1>2, SetSame DEF RefNames, Same
<1> HIDE DEF b
<1>4. Same(b, q) /\ q.query = b.query
  BY <1>1, <1>3, SetSame DEF RefNames, Same, a, b
<1> QED BY <1>2, <1>3, <1>4 DEF Same

LEMMA LoadPostsSame ==
  ASSUME NEW r, WF(r), NEW tree, NEW months, NEW page
  PROVE  Same(r, LoadPosts(r, tree, months, page))
<1> DEFINE posts == index_get_posts(tree, months, (page * r.index_stories) % UIntSize, r.index_stories)
           a == vars_set(r, "posts", posts)
           more == IF Len(posts) = r.index_stories THEN 1 ELSE 0
<1>1. LoadPosts(r, tree, months, page) = vars_set(a, "moreposts", more)
  BY DEF LoadPosts
<1> HIDE DEF more, posts
<1>2. Same(r, a)
  BY SetSame DEF RefNames
<1> HIDE DEF a
<1>3. Same(a, vars_set(a, "moreposts", more))
  BY <1>2, SetSame DEF RefNames, Same
<1> QED BY <1>1, <1>2, <1>3 DEF Same

\* the end of every listing: the pages' numbers, a scope, the posts, the page
LEMMA ListingSame ==
  ASSUME NEW r, WF(r), NEW page, NEW q \in store_pages(r, page), NEW tree, NEW months
  PROVE  Same(r, LoadPosts(vars_scope_push(q), tree, months, page))
<1>1. Same(r, q)
  BY StorePagesSame
<1>2. Same(q, vars_scope_push(q))
  BY <1>1, PushSame DEF Same
<1>3. Same(vars_scope_push(q), LoadPosts(vars_scope_push(q), tree, months, page))
  BY <1>2, LoadPostsSame DEF Same
<1> QED BY <1>1, <1>2, <1>3 DEF Same

-----------------------------------------------------------------------------
(* The handlers *)

\* a request that is given to a handler
Ready(r) ==
  /\ WF(r)
  /\ \A s \in Strings : Debt(r, s) = 0
  /\ Bare(r, "title") /\ Bare(r, "tagid")

Settled(r, q) == WF(q) /\ q.id = r.id /\ \A s \in Strings : Debt(q, s) = 0

LEMMA StaticSettles == ASSUME NEW r, Ready(r), NEW q \in blahg_static(r) PROVE Settled(r, q)
<1> DEFINE got == Put(Get(r, "uri"), "uri")
<1>1. Owing(r, Get(r, "uri"), "uri", 1)
  BY GetOwes DEF Ready, Strings
<1>2. Owing(Get(r, "uri"), got, "uri", -1) /\ got.query = r.query
  BY <1>1, GetOwes, PutOwes DEF Ready, Owing, Strings
<1> HIDE DEF got
<1>3. Settled(r, got)
  BY <1>1, <1>2 DEF Owing, Settled, Ready
<1>4. CASE r.query.uri \in DOMAIN WebDir
  <2> DEFINE head == req_head(got, "Content-Type", ContentTypeOf[r.query.uri])
  <2>1. q = [head EXCEPT !.body = [kind |-> "file", name |-> r.query.uri], !.bodylen = WebDir[r.query.uri]]
    BY <1>4 DEF blahg_static, got
  <2>2. Same(got, head)
    BY <1>3, HeadSame DEF Settled
  <2> HIDE DEF head
  <2>3. Same(head, q)
    <3>1. Fields \subseteq DOMAIN q /\ q.id = head.id /\ q.vars = head.vars /\ q.refs = head.refs /\ q.fmt = head.fmt
      BY <2>1, <2>2 DEF Same, WF, Fields
    <3> QED BY <2>2, <3>1, OtherField DEF Same
  <2> QED BY <1>3, <2>2, <2>3 DEF Same, Settled
<1>5. CASE r.query.uri \notin DOMAIN WebDir
  <2>1. q = R404(got, "404")
    BY <1>5 DEF blahg_static, got
  <2> QED BY <1>3, <2>1, R404Same DEF Same, Settled
<1> QED BY <1>4, <1>5

LEMMA IndexSettles == ASSUME NEW r, Ready(r), NEW q \in blahg_index(r) PROVE Settled(r, q)
<1> DEFINE page == get_page_number(r)
           a == vars_set(r, "title", [ref |-> None])
<1>1. PICK s \in store_pages(a, page) :
        q = render_page(LoadPosts(vars_scope_push(s), ByTime, AllMonths, page), "index")
  BY DEF blahg_index
<1>2. Owing(r, a, None, -1)
  BY SetOwes DEF Ready, RefNames
<1>3. None \notin Strings
  BY DEF None, Strings
<1> HIDE DEF a, page
<1>4. Settled(r, a)
  BY <1>2, <1>3 DEF Owing, Settled, Ready
<1> DEFINE b == LoadPosts(vars_scope_push(s), ByTime, AllMonths, page)
<1>5. Same(a, b)
  BY <1>4, ListingSame DEF Settled
<1> HIDE DEF b
<1>6. Same(b, q)
  BY <1>1, <1>5, RenderSame DEF Same, b
<1> QED BY <1>4, <1>5, <1>6 DEF Same, Settled

LEMMA ArchiveSettles == ASSUME NEW r, Ready(r), NEW q \in blahg_archive(r) PROVE Settled(r, q)
<1> DEFINE page == get_page_number(r)
           archid == get_arch_id(r)
           h == req_head(r, "Content-Type", "text/html")
           a == vars_set(h, "title", [ref |-> None])
           t == vars_set(a, "archid", archid)
<1>1. PICK s \in store_pages(t, page) :
        q = render_page(LoadPosts(vars_scope_push(s), ByTime, Months(archid), page), "archive")
  BY DEF blahg_archive
<1>2. Same(r, h) /\ Bare(h, "title")
  BY HeadSame DEF Ready, Bare
<1> HIDE DEF page, archid, h
<1>3. Owing(h, a, None, -1)
  BY <1>2, SetOwes DEF Same, RefNames
<1>4. None \notin Strings
  BY DEF None, Strings
<1> HIDE DEF a
<1>5. Settled(r, a)
  BY <1>2, <1>3, <1>4 DEF Owing, Same, Settled, Ready
<1>6. Same(a, t)
  BY <1>5, SetSame DEF Settled, RefNames
<1> HIDE DEF t
<1> DEFINE b == LoadPosts(vars_scope_push(s), ByTime, Months(archid), page)
<1>7. Same(t, b)
  BY <1>6, ListingSame DEF Same
<1> HIDE DEF b
<1>8. Same(b, q)
  BY <1>1, <1>7, RenderSame DEF Same, b
<1> QED BY <1>5, <1>6, <1>7, <1>8 DEF Same, Settled

\* three references: the title's, the tag cloud's and the handler's own
LEMMA TagSettles == ASSUME NEW r, Ready(r), NEW q \in blahg_tag(r) PROVE Settled(r, q)
<1> DEFINE page == get_page_number(r)
           g1 == Get(r, "tag")
           g2 == Get(g1, "tag")
           g3 == Get(g2, "tag")
           h == req_head(g3, "Content-Type", "text/html")
           a == vars_set(h, "title", [ref |-> "tag"])
           t == vars_set(a, "tagid", [ref |-> "tag"])
<1>1. PICK s \in store_pages(t, page) :
        q = render_page(Put(LoadPosts(vars_scope_push(s), ByTag(r.query.tag), AllMonths, page), "tag"), "tagindex")
  BY DEF blahg_tag
<1>2. "tag" \in Strings /\ {"title", "tagid"} \subseteq RefNames /\ "title" # "tagid"
  BY DEF Strings, RefNames
<1>3. Owing(r, g1, "tag", 1) /\ g1.vars = r.vars
  BY <1>2, GetOwes DEF Ready
<1> HIDE DEF g1, page
<1>4. Owing(g1, g2, "tag", 1) /\ g2.vars = r.vars
  BY <1>2, <1>3, GetOwes DEF Owing
<1> HIDE DEF g2
<1>5. Owing(g2, g3, "tag", 1) /\ g3.vars = r.vars
  BY <1>2, <1>4, GetOwes DEF Owing
<1> HIDE DEF g3
<1>6. Same(g3, h) /\ h.vars = r.vars
  BY <1>5, HeadSame DEF Owing
<1> HIDE DEF h
<1>7. Bare(h, "title") /\ Bare(h, "tagid")
  BY <1>6 DEF Ready, Bare
<1>8. Owing(h, a, "tag", -1) /\ Bare(a, "tagid")
  BY <1>2, <1>6, <1>7, SetOwes DEF Same
<1> HIDE DEF a
<1>9. Owing(a, t, "tag", -1)
  BY <1>2, <1>8, SetOwes DEF Owing
<1> HIDE DEF t
<1> DEFINE b == LoadPosts(vars_scope_push(s), ByTag(r.query.tag), AllMonths, page)
           p == Put(b, "tag")
<1>10. Same(t, b)
  BY <1>9, ListingSame DEF Owing
<1> HIDE DEF b
<1>11. Owing(b, p, "tag", -1)
  BY <1>2, <1>10, PutOwes DEF Same
<1> HIDE DEF p
<1>12. Same(p, q)
  BY <1>1, <1>11, RenderSame DEF Owing, p, b
<1>13. q.id = r.id /\ WF(q)
  BY <1>3, <1>4, <1>5, <1>6, <1>8, <1>9, <1>10, <1>11, <1>12 DEF Owing, Same
<1>14. ASSUME NEW x \in Strings PROVE Debt(q, x) = 0
  <2>1. Debt(r, x) = 0
    BY DEF Ready
  <2>2. Debt(h, x) = IF x = "tag" THEN 3 ELSE 0
    BY <1>3, <1>4, <1>5, <1>6, <2>1 DEF Owing, Same
  <2>3. Debt(t, x) = IF x = "tag" THEN 1 ELSE 0
    BY <1>8, <1>9, <2>2 DEF Owing
  <2> QED BY <1>10, <1>11, <1>12, <2>3 DEF Owing, Same
<1> QED BY <1>13, <1>14 DEF Settled

LEMMA CategorySettles == ASSUME NEW r, Ready(r), NEW q \in blahg_category(r) PROVE Settled(r, q)
<1> DEFINE g == Get(r, "cat")
           got == Put(g, "cat")
<1>1. "cat" \in Strings /\ "url" \in Strings
  BY DEF Strings
<1>2. Owing(r, g, "cat", 1)
  BY <1>1, GetOwes DEF Ready
<1>3. Owing(g, got, "cat", -1)
  BY <1>1, <1>2, PutOwes DEF Owing
<1>4. Settled(r, got)
  BY <1>2, <1>3 DEF Owing, Settled, Ready
<1>5. \/ q = R404(got, "404")
      \/ q = R301(Get(got, "url"), category_to_tag[r.query.cat])
  BY DEF blahg_category
<1> HIDE DEF got
<1>6. CASE q = R404(got, "404")
  BY <1>4, <1>6, R404Same DEF Same, Settled
<1>7. CASE q = R301(Get(got, "url"), category_to_tag[r.query.cat])
  <2> DEFINE u == Get(got, "url")
  <2>1. Owing(got, u, "url", 1)
    BY <1>1, <1>4, GetOwes DEF Settled
  <2>2. q = R301(u, category_to_tag[r.query.cat])
    BY <1>7
  <2> HIDE DEF u
  <2>3. Owing(u, q, "url", -1)
    BY <2>1, <2>2, R301Owes DEF Owing
  <2> QED BY <1>4, <2>1, <2>3 DEF Owing, Settled
<1> QED BY <1>5, <1>6, <1>7

LEMMA CommentSettles == ASSUME NEW r, Ready(r), NEW q \in blahg_comment(r) PROVE Settled(r, q)
<1> DEFINE h == req_head(r, "Content-Type", "text/html")
           got == vars_scope_push(h)
           e == vars_set(got, "comment_error_str", None)
<1>1. q = render_page(e, "comment_error") \/ q = render_page(got, "comment_saved")
  BY DEF blahg_comment
<1>2. Same(r, h)
  BY HeadSame DEF Ready
<1> HIDE DEF h
<1>3. Same(h, got)
  BY <1>2, PushSame DEF Same
<1> HIDE DEF got
<1>4. Same(got, e)
  BY <1>3, SetSame DEF Same, RefNames
<1> HIDE DEF e
<1>5. Settled(r, got) /\ Settled(r, e)
  BY <1>2, <1>3, <1>4 DEF Same, Settled, Ready
<1>6. Same(e, render_page(e, "comment_error")) /\ Same(got, render_page(got, "comment_saved"))
  BY <1>5, RenderSame DEF Settled
<1> QED BY <1>1, <1>5, <1>6 DEF Same, Settled

LEMMA StorySettles == ASSUME NEW r, Ready(r), NEW q \in blahg_story(r) PROVE Settled(r, q)
<1> DEFINE pushed == vars_scope_push(r)
           t == vars_set(pushed, "title", [ref |-> None])
           posts == <<[id |-> r.query.p, draft |-> is_preview(r)]>>
           v == vars_set(t, "posts", posts)
<1>1. q = R404(r, "404") \/ q = R404(t, "404") \/ q = render_page(v, "storyview")
  BY DEF blahg_story
<1> HIDE DEF posts
<1>2. Same(r, pushed) /\ Bare(pushed, "title")
  BY PushSame DEF Ready
<1> HIDE DEF pushed
<1>3. None \notin Strings
  BY DEF None, Strings
<1>4. Owing(pushed, t, None, -1)
  BY <1>2, SetOwes DEF Same, RefNames
<1> HIDE DEF t
<1>5. Settled(r, t)
  BY <1>2, <1>3, <1>4 DEF Owing, Same, Settled, Ready
<1>6. Same(t, v)
  BY <1>5, SetSame DEF Settled, RefNames
<1> HIDE DEF v
<1>7. Settled(r, v)
  BY <1>5, <1>6 DEF Same, Settled
<1>8. CASE q = R404(r, "404")
  BY <1>8, R404Same DEF Ready, Same, Settled
<1>9. CASE q = R404(t, "404")
  BY <1>5, <1>9, R404Same DEF Same, Settled
<1>10. CASE q = render_page(v, "storyview")
  BY <1>7, <1>10, RenderSame DEF Same, Settled
<1> QED BY <1>1, <1>8, <1>9, <1>10

LEMMA AdminSettles == ASSUME NEW r, Ready(r), NEW q \in blahg_admin(r) PROVE Settled(r, q)
<1> DEFINE h == req_head(r, "Content-Type", "text/plain")
<1>1. q = [h EXCEPT !.body = [kind |-> "text"]]
  BY DEF blahg_admin
<1>2. Same(r, h)
  BY HeadSame DEF Ready
<1> HIDE DEF h
<1>3. Fields \subseteq DOMAIN q /\ q.id = h.id /\ q.vars = h.vars /\ q.refs = h.refs /\ q.fmt = h.fmt
  BY <1>1, <1>2 DEF Same, WF, Fields
<1>4. Same(h, q)
  BY <1>2, <1>3, OtherField DEF Same
<1> QED BY <1>2, <1>4 DEF Same, Settled, Ready

LEMMA LeastAsked ==
  ASSUME NEW A, A \subseteq 1..6, A # {}
  PROVE  Min(A) \in A
<1>1. \A x \in A : x \in {1, 2, 3, 4, 5, 6}
  OBVIOUS
<1>2. ASSUME NEW k \in A, \A j \in A : k =< j PROVE \E x \in A : \A y \in A : x =< y
  BY <1>2
<1>3. \E x \in A : \A y \in A : x =< y
  <2>1. CASE 1 \in A
    BY <1>1, <1>2, <2>1
  <2>2. CASE 1 \notin A /\ 2 \in A
    BY <1>1, <1>2, <2>2
  <2>3. CASE 1 \notin A /\ 2 \notin A /\ 3 \in A
    BY <1>1, <1>2, <2>3
  <2>4. CASE A \subseteq {4, 5, 6} /\ 4 \in A
    BY <1>2, <2>4
  <2>5. CASE A \subseteq {5, 6} /\ 5 \in A
    BY <1>2, <2>5
  <2>6. CASE A = {6}
    BY <1>2, <2>6
  <2> QED BY <1>1, <2>1, <2>2, <2>3, <2>4, <2>5, <2>6
<1> QED BY <1>3 DEF Min

\* every page has a handler
LEMMA PageHandled == ASSUME NEW r PROVE
  select_page(r) \in {"STATIC", "ARCHIVE", "CATEGORY", "TAG", "COMMENT", "INDEX", "STORY", "ADMIN"}
<1> DEFINE asked == {i \in DOMAIN PageKeys : PageKeys[i] \in DOMAIN r.query}
<1>1. DOMAIN PageKeys = 1..6
  BY DEF PageKeys
<1>2. \A i \in 1..6 : PageOf[PageKeys[i]] \in {"ARCHIVE", "CATEGORY", "TAG", "COMMENT", "STORY", "ADMIN"}
  BY DEF PageKeys, PageOf
<1>3. asked # {} => Min(asked) \in asked
  <2>1. asked \subseteq 1..6
    BY <1>1
  <2> QED BY <2>1, LeastAsked
<1>4. \/ select_page(r) \in {"STATIC", "INDEX"}
      \/ asked # {} /\ select_page(r) = PageOf[PageKeys[Min(asked)]]
  BY DEF select_page
<1> QED BY <1>1, <1>2, <1>3, <1>4

-----------------------------------------------------------------------------
(* The steps of a request *)

\* before its page is known
Unserved(r) == Ready(r) /\ r.fmt = None

\* the reference to the feed's name goes to fmt, or back
LEMMA SwitchReady ==
  ASSUME NEW r, Unserved(r)
  PROVE  LET q == switch_content_type(r)
         IN /\ ~Supported(r) => Settled(r, q)
            /\ Supported(r) => Ready(q) /\ q.id = r.id /\ q.page = r.page
<1> DEFINE q == switch_content_type(r)
           g == Get(r, "feed")
<1>1. "feed" \in Strings /\ WF(r)
  BY DEF Strings, Unserved, Ready
<1>2. Owing(r, g, "feed", 1) /\ g.vars = r.vars /\ g.fmt = r.fmt /\ g.page = r.page
  BY <1>1, GetOwes
<1>3. Owing(g, Put(g, "feed"), "feed", -1)
  BY <1>1, <1>2, PutOwes DEF Owing
<1>4. Settled(r, r) /\ Settled(r, Put(g, "feed"))
  BY <1>2, <1>3 DEF Unserved, Ready, Settled, Owing
<1>5. CASE ~Supported(r)
  BY <1>4, <1>5 DEF switch_content_type
<1>6. CASE Supported(r) /\ "feed" \notin DOMAIN r.query
  <2> DEFINE h == req_head(r, "Content-Type", "text/html")
  <2>1. q = [h EXCEPT !.fmt = "html", !.index_stories = html_index_stories]
    BY <1>6 DEF switch_content_type
  <2>2. WF(h) /\ h.id = r.id /\ h.vars = r.vars /\ h.refs = r.refs /\ h.page = r.page
    BY <1>1, HeadSame DEF Same
  <2> HIDE DEF h, q
  <2>3. /\ Fields \subseteq DOMAIN q /\ q.id = r.id /\ q.vars = r.vars /\ q.refs = r.refs
        /\ q.fmt = "html" /\ q.page = r.page
    BY <2>1, <2>2 DEF WF, Fields
  <2>4. WF(q)
    BY <1>1, <2>3 DEF WF, Scopes
  <2>5. \A s \in Strings : Debt(q, s) = Debt(r, s)
    BY <2>3 DEF Debt, VarRefs, FmtOwes, Unserved
  <2> QED BY <1>6, <2>3, <2>4, <2>5 DEF Unserved, Ready, Bare, q
<1>7. CASE Supported(r) /\ "feed" \in DOMAIN r.query
  <2> DEFINE type == FeedTypes[r.query.feed]
             h == req_head(g, "Content-Type", type)
  <2>1. q = [h EXCEPT !.fmt = r.query.feed, !.index_stories = feed_index_stories]
    BY <1>7 DEF switch_content_type
  <2>2. r.query.feed \notin {None, "html"}
    BY <1>7 DEF Supported, FeedTypes, None
  <2> HIDE DEF type
  <2>3. WF(h) /\ h.id = r.id /\ h.vars = r.vars /\ h.refs = g.refs /\ h.page = r.page
    BY <1>2, HeadSame DEF Same, Owing
  <2> HIDE DEF h, q, g
  <2>4. /\ Fields \subseteq DOMAIN q /\ q.id = r.id /\ q.vars = r.vars /\ q.refs = g.refs
        /\ q.fmt = r.query.feed /\ q.page = r.page
    BY <2>1, <2>3 DEF WF, Fields
  <2>5. WF(q) /\ WF(g)
    BY <1>1, <1>2, <2>4 DEF WF, Scopes, Owing
  <2>6. ASSUME NEW s \in Strings PROVE Debt(q, s) = Debt(r, s)
    <3>1. /\ VarRefs(q, s) = VarRefs(g, s) /\ VarRefs(g, s) \in Nat
          /\ q.refs[s] = g.refs[s] /\ g.refs[s] \in Int
      <4>1. VarRefs(q, s) = VarRefs(g, s)
        BY <1>2, <2>4 DEF VarRefs
      <4>2. VarRefs(g, s) \in Nat
        BY <2>5, SlotsFinite
      <4> QED BY <2>4, <2>5, <4>1, <4>2 DEF WF
    <3>2. FmtOwes(q, s) = (IF s = "feed" THEN 1 ELSE 0) /\ FmtOwes(g, s) = 0
      BY <1>2, <2>2, <2>4 DEF FmtOwes, Unserved
    <3>3. Debt(g, s) = (IF s = "feed" THEN 1 ELSE 0) /\ Debt(r, s) = 0
      BY <1>2 DEF Owing, Unserved, Ready
    <3> HIDE DEF VarRefs, FmtOwes
    <3> QED BY <3>1, <3>2, <3>3 DEF Debt
  <2> QED BY <1>2, <1>7, <2>4, <2>5, <2>6 DEF Unserved, Ready, Bare, q, g
<1> QED BY <1>5, <1>6, <1>7

LEMMA HandleSettles ==
  ASSUME NEW r, Ready(r),
         r.page \in {"STATIC", "ARCHIVE", "CATEGORY", "TAG", "COMMENT", "INDEX", "STORY", "ADMIN"},
         NEW q \in Handle(r)
  PROVE  Settled(r, q)
<1>1. \/ q \in blahg_static(r) \/ q \in blahg_archive(r) \/ q \in blahg_category(r) \/ q \in blahg_tag(r)
      \/ q \in blahg_comment(r) \/ q \in blahg_index(r) \/ q \in blahg_story(r) \/ q \in blahg_admin(r)
  BY DEF Handle
<1> QED BY <1>1, StaticSettles, ArchiveSettles, CategorySettles, TagSettles, CommentSettles,
           IndexSettles, StorySettles, AdminSettles

LEMMA DispatchSettles ==
  ASSUME NEW r, Unserved(r), NEW q \in Dispatched(r)
  PROVE  Settled(r, q)
<1> DEFINE g == Get(r, "uri")
           got == Put(g, "uri")
<1>1. "uri" \in Strings /\ WF(r)
  BY DEF Strings, Unserved, Ready
<1>2. Owing(r, g, "uri", 1) /\ g.vars = r.vars /\ g.fmt = r.fmt
  BY <1>1, GetOwes
<1>3. Owing(g, got, "uri", -1) /\ got.vars = r.vars /\ got.fmt = r.fmt
  BY <1>1, <1>2, PutOwes DEF Owing
<1>4. Unserved(got) /\ Settled(r, got)
  BY <1>2, <1>3 DEF Unserved, Ready, Settled, Owing, Bare
<1> HIDE DEF got
<1>5. ASSUME NEW page
      PROVE  Unserved([got EXCEPT !.page = page]) /\ Settled(r, [got EXCEPT !.page = page])
             /\ [got EXCEPT !.page = page].page = page
  <2> DEFINE x == [got EXCEPT !.page = page]
  <2>1. /\ Fields \subseteq DOMAIN x /\ x.id = got.id /\ x.vars = got.vars /\ x.refs = got.refs
        /\ x.fmt = got.fmt /\ x.page = page
    BY <1>4 DEF Unserved, Ready, WF, Fields
  <2> HIDE DEF x
  <2>2. Same(got, x)
    BY <1>4, <2>1, OtherField DEF Unserved, Ready
  <2>3. Unserved(x) /\ Settled(r, x)
    BY <1>4, <2>1, <2>2 DEF Unserved, Ready, Same, Settled, Bare
  <2> QED BY <2>1, <2>3 DEF x
<1>6. CASE UriType(r.query.uri) = "BAD"
  <2> DEFINE x == [got EXCEPT !.page = "INDEX"]
  <2>1. q = R404(x, "404") /\ Settled(r, x)
    BY <1>5, <1>6 DEF Dispatched, got
  <2> HIDE DEF x
  <2>2. Same(x, q)
    BY <2>1, R404Same DEF Settled
  <2> QED BY <2>1, <2>2 DEF Settled, Same
<1>7. CASE UriType(r.query.uri) # "BAD"
  <2> DEFINE selected == [got EXCEPT !.page = select_page(r)]
             switched == switch_content_type(selected)
  <2>1. /\ ~Supported(selected) => q = R404(switched, "error_unsupported_feed_fmt")
        /\ Supported(selected) => q \in Handle(switched)
    BY <1>7 DEF Dispatched, got
  <2>2. Unserved(selected) /\ Settled(r, selected) /\ selected.page = select_page(r)
    BY <1>5
  <2> HIDE DEF selected
  <2>3. /\ ~Supported(selected) => Settled(selected, switched)
        /\ Supported(selected) => Ready(switched) /\ switched.id = selected.id /\ switched.page = selected.page
    BY <2>2, SwitchReady
  <2> HIDE DEF switched
  <2>4. CASE ~Supported(selected)
    BY <2>1, <2>2, <2>3, <2>4, R404Same DEF Settled, Same
  <2>5. CASE Supported(selected)
    <3>1. Settled(switched, q)
      BY <2>1, <2>2, <2>3, <2>5, PageHandled, HandleSettles
    <3> QED BY <2>2, <2>3, <2>5, <3>1 DEF Settled
  <2> QED BY <2>4, <2>5
<1> QED BY <1>6, <1>7

LEMMA NewUnserved ==
  ASSUME NEW id, NEW query, NEW walks, NEW trail
  PROVE  Unserved(NewRequest(id, query, walks, trail)) /\ NewRequest(id, query, walks, trail).id = id
<1> DEFINE r == NewRequest(id, query, walks, trail)
           scope == [posts |-> <<>>]
<1>1. /\ Fields \subseteq DOMAIN r /\ r.id = id /\ r.vars = <<scope>> /\ r.refs = [s \in Strings |-> 0]
      /\ r.fmt = None
  BY DEF NewRequest, Fields
<1>2. DOMAIN scope = {"posts"}
  OBVIOUS
<1> HIDE DEF scope, r
<1>3. r.vars \in Seq({scope}) /\ Len(r.vars) = 1 /\ DOMAIN r.vars = {1} /\ r.vars[1] = scope
  BY <1>1
<1>4. WF(r)
  <2>1. Scopes(r) /\ Len(r.vars) > 0
    BY <1>3 DEF Scopes
  <2>2. r.refs \in [Strings -> Int]
    BY <1>1
  <2> QED BY <1>1, <2>1, <2>2 DEF WF
<1>5. \A n \in RefNames : n \notin DOMAIN scope
  BY <1>2 DEF RefNames
<1>6. ASSUME NEW s \in Strings PROVE Debt(r, s) = 0
  <2>1. RefSlots(r, s) = {}
    BY <1>3, <1>5 DEF RefSlots
  <2>2. VarRefs(r, s) = 0
    BY <1>4, <2>1, SlotsFinite, FS_EmptySet
  <2>3. FmtOwes(r, s) = 0 /\ r.refs[s] = 0
    BY <1>1 DEF FmtOwes
  <2> QED BY <2>2, <2>3 DEF Debt
<1>7. Bare(r, "title") /\ Bare(r, "tagid")
  BY <1>3, <1>5 DEF Bare, RefNames
<1> QED BY <1>1, <1>4, <1>6, <1>7 DEF Unserved, Ready, r

-----------------------------------------------------------------------------
(* The inductive invariant *)

\* PutFmt, and vars_destroy of the rest: what is put is what was owed
LEMMA DestroyPutsAll ==
  ASSUME NEW r, WF(r), NEW s \in Strings, Debt(r, s) = 0
  PROVE  LET put == PutFmt(r) IN put.refs[s] - VarRefs(put, s) = 0
<1> DEFINE put == PutFmt(r)
<1>1. VarRefs(r, s) \in Nat /\ r.refs \in [Strings -> Int] /\ "feed" \in Strings
  BY SlotsFinite DEF WF, Strings
<1>2. VarRefs(put, s) = VarRefs(r, s)
  <2>1. put.vars = r.vars
    BY <1>1, PutOwes DEF PutFmt
  <2> QED BY <2>1 DEF VarRefs
<1>3. put.refs[s] = r.refs[s] - FmtOwes(r, s)
  BY <1>1 DEF PutFmt, Put, FmtOwes, WF, Fields
<1>4. FmtOwes(r, s) \in Int /\ r.refs[s] \in Int
  BY <1>1 DEF FmtOwes
<1> HIDE DEF put
<1>5. r.refs[s] - VarRefs(r, s) - FmtOwes(r, s) = 0
  BY DEF Debt
<1> QED BY <1>1, <1>2, <1>3, <1>4, <1>5 DEF put

MapsInv == /\ DOMAIN pc = Threads /\ DOMAIN req = Threads
           /\ DOMAIN session = Threads /\ DOMAIN log = Threads

\* what a request has got, it will put
DebtInv == \A t \in Threads :
  /\ pc[t] = "idle" => req[t].refs = [s \in Strings |-> 0]
  /\ pc[t] # "idle" => WF(req[t]) /\ \A s \in Strings : Debt(req[t], s) = 0
  /\ pc[t] = "dispatch" => Unserved(req[t])

\* log_request is the last to write
LogInv == \A t \in Threads : pc[t] # "destroy" => log[t] = NoEntry

IInv == MapsInv /\ DebtInv /\ LogInv /\ SessionsOwn

LEMMA InitHolds == Init => IInv
<1> HAVE Init
<1>1. NoRequest.refs = [s \in Strings |-> 0] /\ NoRequest.id = 0
  BY DEF NoRequest, NewRequest
<1>2. "session" \notin DOMAIN NoEntry
  BY DEF NoEntry
<1> QED BY <1>1, <1>2 DEF Init, IInv, MapsInv, DebtInv, LogInv, SessionsOwn

\* init_request
LEMMA AcceptStep ==
  ASSUME IInv, NEW t \in Threads, NEW query, NEW walks, NEW trail, Accept(t, query, walks, trail)
  PROVE  IInv'
<1> DEFINE id == FreshId
           new == NewRequest(id, query, walks, trail)
<1>1. /\ pc' = [pc EXCEPT ![t] = "dispatch"] /\ req' = [req EXCEPT ![t] = new]
      /\ session' = [session EXCEPT ![t] = id] /\ log' = log
  BY DEF Accept, set_session
<1> HIDE DEF id
<1>2. Unserved(new) /\ new.id = id
  BY NewUnserved
<1> HIDE DEF new
<1>3. /\ pc'[t] = "dispatch" /\ req'[t] = new /\ session'[t] = id
      /\ \A u \in Threads \ {t} : pc'[u] = pc[u] /\ req'[u] = req[u] /\ session'[u] = session[u]
  BY <1>1 DEF IInv, MapsInv
<1>4. MapsInv'
  BY <1>1 DEF IInv, MapsInv
<1>5. DebtInv'
  BY <1>2, <1>3 DEF IInv, DebtInv, Unserved, Ready
<1>6. LogInv' /\ log[t] = NoEntry /\ "session" \notin DOMAIN NoEntry
  BY <1>1, <1>3 DEF IInv, LogInv, Accept, NoEntry
<1>7. SessionsOwn'
  BY <1>1, <1>2, <1>3, <1>6 DEF IInv, SessionsOwn
<1> QED BY <1>4, <1>5, <1>6, <1>7 DEF IInv

\* one thread's request becomes q, which has settled
LEMMA SettledStep ==
  ASSUME IInv, NEW t \in Threads, pc[t] \notin {"idle", "destroy"}, NEW q, Settled(req[t], q), NEW stage,
         stage \notin {"idle", "dispatch"},
         pc' = [pc EXCEPT ![t] = stage], req' = [req EXCEPT ![t] = q], UNCHANGED <<session, log>>
  PROVE  IInv'
<1>1. /\ pc'[t] = stage /\ req'[t] = q
      /\ \A u \in Threads \ {t} : pc'[u] = pc[u] /\ req'[u] = req[u]
  BY DEF IInv, MapsInv
<1>2. MapsInv'
  BY DEF IInv, MapsInv
<1>3. DebtInv'
  BY <1>1 DEF IInv, DebtInv, Settled
<1>4. LogInv'
  BY <1>1 DEF IInv, LogInv
<1>5. SessionsOwn'
  BY <1>1 DEF IInv, SessionsOwn, Settled
<1> QED BY <1>2, <1>3, <1>4, <1>5 DEF IInv

LEMMA OutputSettles ==
  ASSUME NEW r, WF(r), \A s \in Strings : Debt(r, s) = 0, NEW len
  PROVE  Settled(r, req_head([r EXCEPT !.bodylen = len], "Content-Length", len))
<1> DEFINE b == [r EXCEPT !.bodylen = len]
<1>1. Fields \subseteq DOMAIN b /\ b.id = r.id /\ b.vars = r.vars /\ b.refs = r.refs /\ b.fmt = r.fmt
  BY DEF WF, Fields
<1> HIDE DEF b
<1>2. Same(r, b)
  BY <1>1, OtherField
<1>3. Same(b, req_head(b, "Content-Length", len))
  BY <1>2, HeadSame DEF Same
<1> QED BY <1>2, <1>3 DEF Same, Settled, b

LEMMA DestroyStep ==
  ASSUME IInv, NEW t \in Threads, Destroy(t)
  PROVE  IInv'
<1> DEFINE put == PutFmt(req[t])
           left == [s \in Strings |-> put.refs[s] - VarRefs(put, s)]
           q == [NoRequest EXCEPT !.refs = left]
<1>1. /\ pc[t] = "destroy" /\ pc' = [pc EXCEPT ![t] = "idle"] /\ req' = [req EXCEPT ![t] = q]
      /\ session' = [session EXCEPT ![t] = 0] /\ log' = [log EXCEPT ![t] = NoEntry]
  BY DEF Destroy, set_session
<1>2. \A s \in Strings : put.refs[s] - VarRefs(put, s) = 0
  BY <1>1, DestroyPutsAll DEF IInv, DebtInv
<1>3. left = [s \in Strings |-> 0]
  BY <1>2
<1> HIDE DEF left, put
<1>4. q.refs = [s \in Strings |-> 0] /\ q.id = 0
  BY <1>3 DEF NoRequest, NewRequest
<1> HIDE DEF q
<1>5. "session" \notin DOMAIN NoEntry
  BY DEF NoEntry
<1>6. /\ pc'[t] = "idle" /\ req'[t] = q /\ session'[t] = 0 /\ log'[t] = NoEntry
      /\ \A u \in Threads \ {t} :
           pc'[u] = pc[u] /\ req'[u] = req[u] /\ session'[u] = session[u] /\ log'[u] = log[u]
  BY <1>1 DEF IInv, MapsInv
<1>7. MapsInv'
  BY <1>1 DEF IInv, MapsInv
<1>8. DebtInv'
  BY <1>4, <1>6 DEF IInv, DebtInv
<1>9. LogInv'
  BY <1>6 DEF IInv, LogInv
<1>10. SessionsOwn'
  BY <1>4, <1>5, <1>6 DEF IInv, SessionsOwn
<1> QED BY <1>7, <1>8, <1>9, <1>10 DEF IInv

LEMMA StepHolds ==
  ASSUME IInv, [Next]_vars
  PROVE  IInv'
<1>1. ASSUME NEW t \in Threads, Ask(t) \/ FollowOlder(t) \/ FollowNewer(t) PROVE IInv'
  <2>1. \E query, walks, trail : Accept(t, query, walks, trail)
    BY <1>1 DEF Ask, FollowOlder, FollowNewer
  <2> QED BY <2>1, AcceptStep
<1>2. ASSUME NEW t \in Threads, Dispatch(t) PROVE IInv'
  <2>1. pc[t] = "dispatch" /\ Unserved(req[t])
    BY <1>2 DEF Dispatch, IInv, DebtInv
  <2>2. PICK q \in Dispatched(req[t]) : req' = [req EXCEPT ![t] = q]
    BY <1>2 DEF Dispatch
  <2>3. Settled(req[t], q)
    BY <2>1, DispatchSettles
  <2> QED BY <1>2, <2>1, <2>2, <2>3, SettledStep DEF Dispatch
<1>3. ASSUME NEW t \in Threads, Output(t) PROVE IInv'
  <2> DEFINE len == IF req[t].bodylen = 0 THEN Size(req[t].body) ELSE req[t].bodylen
             q == req_head([req[t] EXCEPT !.bodylen = len], "Content-Length", len)
  <2>1. /\ pc[t] = "output" /\ pc' = [pc EXCEPT ![t] = "log"] /\ req' = [req EXCEPT ![t] = q]
        /\ UNCHANGED <<session, log>>
    BY <1>3 DEF Output
  <2> HIDE DEF len
  <2>2. Settled(req[t], q)
    BY <2>1, OutputSettles DEF IInv, DebtInv
  <2> QED BY <2>1, <2>2, SettledStep
<1>4. ASSUME NEW t \in Threads, Log(t) PROVE IInv'
  <2>1. /\ pc[t] = "log" /\ pc' = [pc EXCEPT ![t] = "destroy"] /\ UNCHANGED <<req, session>>
    BY <1>4 DEF Log
  <2>2. PICK written \in {Entry(t), Complaint(t)} : log' = [log EXCEPT ![t] = written]
    BY <1>4 DEF Log
  <2>3. "session" \in DOMAIN written => written.session = session[t]
    BY <2>2 DEF Entry, Complaint
  <2>4. pc'[t] = "destroy" /\ log'[t] = written
        /\ \A u \in Threads \ {t} : pc'[u] = pc[u] /\ log'[u] = log[u]
    BY <2>1, <2>2 DEF IInv, MapsInv
  <2>5. SessionsOwn'
    BY <2>1, <2>3, <2>4 DEF IInv, SessionsOwn
  <2>6. LogInv'
    BY <2>4 DEF IInv, LogInv
  <2>7. MapsInv'
    BY <2>1, <2>2 DEF IInv, MapsInv
  <2>8. DebtInv'
    BY <2>1 DEF IInv, MapsInv, DebtInv
  <2> QED BY <2>5, <2>6, <2>7, <2>8 DEF IInv
<1>5. CASE UNCHANGED vars
  BY <1>5 DEF vars, IInv, MapsInv, DebtInv, LogInv, SessionsOwn
<1> QED BY <1>1, <1>2, <1>3, <1>4, <1>5, DestroyStep DEF Next

\* The inductive invariant: every request will put just what it has got.
THEOREM Invariance == Spec => []IInv
BY InitHolds, StepHolds, PTL DEF Spec

\* str_getref and str_putref in req.c, the handlers and vars.c: every path
\* of a request puts each string as often as it gets it, and none too early.
THEOREM AlwaysBalanced == Spec => []RefsBalanced
<1>1. ASSUME IInv PROVE RefsBalanced
  <2> SUFFICES ASSUME NEW t \in Threads, NEW s \in Strings
               PROVE  req[t].refs[s] >= 0 /\ (pc[t] = "idle" => req[t].refs[s] = 0)
    BY DEF RefsBalanced
  <2>1. CASE pc[t] = "idle"
    BY <1>1, <2>1 DEF IInv, DebtInv
  <2>2. CASE pc[t] # "idle"
    <3>1. WF(req[t]) /\ Debt(req[t], s) = 0
      BY <1>1, <2>2 DEF IInv, DebtInv
    <3>2. VarRefs(req[t], s) \in Nat /\ req[t].refs[s] \in Int
      BY <3>1, SlotsFinite DEF WF
    <3>3. FmtOwes(req[t], s) \in {0, 1}
      BY DEF FmtOwes
    <3> HIDE DEF VarRefs, FmtOwes
    <3> QED BY <2>2, <3>1, <3>2, <3>3 DEF Debt
  <2> QED BY <2>1, <2>2
<1> QED BY <1>1, Invariance, PTL

\* set_session and log_request: a thread's log is marked with the request
\* it works on, for any number of threads.
THEOREM AlwaysOwn == Spec => []SessionsOwn
BY Invariance, PTL DEF IInv

-----------------------------------------------------------------------------
(* What a client gets *)

\* the reader is the same, and asks for the same
Walker(r, q) == q.query = r.query /\ q.walks = r.walks /\ q.trail = r.trail

\* what the answer depends on, besides the body
Kept(r, q) ==
  /\ Walker(r, q) /\ q.index_stories = r.index_stories
  /\ Fields \subseteq DOMAIN q
  /\ q.query = r.query /\ q.page = r.page /\ q.fmt = r.fmt
  /\ q.status = r.status /\ q.headers = r.headers /\ q.bodylen = r.bodylen

LEMMA SetKept ==
  ASSUME NEW r, Fields \subseteq DOMAIN r, NEW name, NEW val
  PROVE  Kept(r, vars_set(r, name, val))
BY DEF Kept, Walker, Fields, vars_set

LEMMA PushKept ==
  ASSUME NEW r, Fields \subseteq DOMAIN r
  PROVE  Kept(r, vars_scope_push(r))
BY DEF Kept, Walker, Fields, vars_scope_push

LEMMA RefKept ==
  ASSUME NEW r, Fields \subseteq DOMAIN r, NEW s
  PROVE  Kept(r, Get(r, s)) /\ Kept(r, Put(r, s))
BY DEF Kept, Walker, Fields, Get, Put

LEMMA KeptTrans ==
  ASSUME NEW r, NEW p, NEW q, Kept(r, p), Kept(p, q)
  PROVE  Kept(r, q)
BY DEF Kept, Walker

LEMMA StorePagesKept ==
  ASSUME NEW r, Fields \subseteq DOMAIN r, NEW page, NEW q \in store_pages(r, page)
  PROVE  Kept(r, q)
<1>1. PICK n : q = vars_set(vars_set(vars_set(r, "prevpage", n), "curpage", page), "nextpage", U64(page - 1))
  BY DEF store_pages
<1> DEFINE a == vars_set(r, "prevpage", n)
           b == vars_set(a, "curpage", page)
<1>2. Kept(r, a)
  BY SetKept
<1> HIDE DEF a
<1>3. Kept(a, b)
  BY <1>2, SetKept DEF Kept
<1> HIDE DEF b
<1>4. Kept(b, q)
  BY <1>1, <1>3, SetKept DEF Kept, a, b
<1> QED BY <1>2, <1>3, <1>4, KeptTrans

\* a page of a listing, up to its rendering
LEMMA ListingKept ==
  ASSUME NEW r, Fields \subseteq DOMAIN r, NEW page, NEW q \in store_pages(r, page), NEW tree, NEW months
  PROVE  Kept(r, LoadPosts(vars_scope_push(q), tree, months, page))
<1> DEFINE p == vars_scope_push(q)
           posts == index_get_posts(tree, months, (page * p.index_stories) % UIntSize, p.index_stories)
           a == vars_set(p, "posts", posts)
           more == IF Len(posts) = p.index_stories THEN 1 ELSE 0
<1>1. Kept(r, q)
  BY StorePagesKept
<1>2. Kept(q, p)
  BY <1>1, PushKept DEF Kept
<1>3. LoadPosts(p, tree, months, page) = vars_set(a, "moreposts", more)
  BY DEF LoadPosts
<1> HIDE DEF p, posts, more
<1>4. Kept(p, a)
  BY <1>2, SetKept DEF Kept
<1> HIDE DEF a
<1>5. Kept(a, vars_set(a, "moreposts", more))
  BY <1>4, SetKept DEF Kept
<1>6. Kept(r, vars_set(a, "moreposts", more))
  BY <1>1, <1>2, <1>4, <1>5, KeptTrans
<1> QED BY <1>3, <1>6 DEF p

\* what is to be sent fits together, but for Content-Length, which is not there yet
Answer(r) ==
  /\ Fields \subseteq DOMAIN r /\ Fits(r) /\ r.bodylen \in {0, Size(r.body)}
  /\ "Content-Type" \in DOMAIN r.headers

LEMMA PageAnswer ==
  ASSUME NEW r, Fields \subseteq DOMAIN r, r.fmt \in DOMAIN Templates, NEW tmpl \in Templates[r.fmt],
         "Content-Type" \in DOMAIN r.headers, r.headers["Content-Type"] = TypeOfPage(r.fmt), r.bodylen = 0,
         r.status = 200 /\ "feed" \in DOMAIN r.query => r.fmt = r.query.feed,
         r.status = 404 <=> tmpl \in {"404", "error_unsupported_feed_fmt"},
         r.status = 301 <=> "Location" \in DOMAIN r.headers,
         tmpl = "storyview" /\ vars_lookup(r, "posts")[1].draft => is_preview(r)
  PROVE  Answer(render_page(r, tmpl))
<1> DEFINE q == render_page(r, tmpl)
<1>1. /\ Fields \subseteq DOMAIN q /\ q.query = r.query /\ q.status = r.status /\ q.headers = r.headers
      /\ q.bodylen = 0 /\ q.body.kind = "page" /\ q.body.tmpl = tmpl /\ q.body.fmt = r.fmt
      /\ q.body.posts = vars_lookup(r, "posts")
  BY DEF render_page, Fields
<1>2. is_preview(r) => HasInt(q, "preview") /\ q.query.preview = PREVIEW_SECRET
  BY <1>1 DEF is_preview, HasInt
<1> HIDE DEF q
<1>3. Fits(q)
  BY <1>1, <1>2 DEF Fits
<1> QED BY <1>1, <1>3 DEF Answer, q

\* the request of a handler
Plain(r) ==
  /\ Fields \subseteq DOMAIN r /\ r.status = 200 /\ r.bodylen = 0 /\ "Location" \notin DOMAIN r.headers
  /\ r.fmt = IF "feed" \in DOMAIN r.query THEN r.query.feed ELSE "html"
  /\ r.fmt = "html" => r.index_stories = html_index_stories
  /\ "Content-Type" \in DOMAIN r.headers /\ r.headers["Content-Type"] = TypeOfPage(r.fmt)
  /\ "feed" \in DOMAIN r.query => r.page \in {"INDEX", "STORY"} /\ r.query.feed \in DOMAIN FeedTypes

LEMMA KeptPlain == ASSUME NEW r, NEW q, Plain(r), Kept(r, q) PROVE Plain(q)
BY DEF Plain, Kept

\* a page that is no error's
LEMMA PlainAnswer ==
  ASSUME NEW r, Plain(r), NEW tmpl,
         \/ tmpl \in {"index", "storyview"}
         \/ r.fmt = "html" /\ tmpl \in {"archive", "tagindex", "comment_saved", "comment_error"},
         tmpl = "storyview" /\ vars_lookup(r, "posts")[1].draft => is_preview(r)
  PROVE  Answer(render_page(r, tmpl))
<1>1. r.fmt \in DOMAIN Templates /\ tmpl \in Templates[r.fmt]
  BY DEF Plain, Templates, FeedTypes
<1>2. tmpl \notin {"404", "error_unsupported_feed_fmt"}
  OBVIOUS
<1> QED BY <1>1, <1>2, PageAnswer DEF Plain

LEMMA HeadFields ==
  ASSUME NEW r, Fields \subseteq DOMAIN r, NEW name, NEW val
  PROVE  /\ Fields \subseteq DOMAIN req_head(r, name, val)
         /\ req_head(r, name, val).query = r.query /\ req_head(r, name, val).page = r.page
         /\ req_head(r, name, val).fmt = r.fmt /\ req_head(r, name, val).status = r.status
         /\ req_head(r, name, val).bodylen = r.bodylen /\ req_head(r, name, val).body = r.body
         /\ req_head(r, name, val).id = r.id /\ req_head(r, name, val).vars = r.vars
         /\ Walker(r, req_head(r, name, val)) /\ req_head(r, name, val).index_stories = r.index_stories
         /\ DOMAIN req_head(r, name, val).headers = DOMAIN r.headers \cup {name}
         /\ req_head(r, name, val).headers[name] = val
         /\ \A n \in DOMAIN r.headers \ {name} : req_head(r, name, val).headers[n] = r.headers[n]
<1> DEFINE new == [n \in DOMAIN r.headers \cup {name} |-> IF n = name THEN val ELSE r.headers[n]]
           q == req_head(r, name, val)
<1>1. /\ Fields \subseteq DOMAIN q /\ q.query = r.query /\ q.page = r.page /\ q.fmt = r.fmt
      /\ q.status = r.status /\ q.bodylen = r.bodylen /\ q.body = r.body /\ q.id = r.id /\ q.headers = new
      /\ Walker(r, q) /\ q.index_stories = r.index_stories /\ q.vars = r.vars
  BY DEF req_head, Fields, Walker
<1>2. /\ DOMAIN new = DOMAIN r.headers \cup {name} /\ new[name] = val
      /\ \A n \in DOMAIN r.headers \ {name} : new[n] = r.headers[n]
  OBVIOUS
<1> HIDE DEF new
<1> QED BY <1>1, <1>2

\* errors and redirects are HTML, whatever was asked for
LEMMA HtmlFields ==
  ASSUME NEW r, Fields \subseteq DOMAIN r
  PROVE  /\ Kept(r, PutFmt(r))
         /\ \A st : LET q == HtmlAnswer(r, st)
                    IN /\ Fields \subseteq DOMAIN q /\ q.query = r.query /\ q.fmt = "html" /\ q.status = st
                       /\ q.bodylen = r.bodylen /\ DOMAIN q.headers = DOMAIN r.headers \cup {"Content-Type"}
                       /\ q.headers["Content-Type"] = "text/html"
<1>1. Kept(r, PutFmt(r))
  BY RefKept DEF PutFmt, Kept, Walker
<1>2. ASSUME NEW st PROVE LET q == HtmlAnswer(r, st)
                          IN /\ Fields \subseteq DOMAIN q /\ q.query = r.query /\ q.fmt = "html" /\ q.status = st
                             /\ q.bodylen = r.bodylen
                             /\ DOMAIN q.headers = DOMAIN r.headers \cup {"Content-Type"}
                             /\ q.headers["Content-Type"] = "text/html"
  <2> DEFINE head == req_head(PutFmt(r), "Content-Type", "text/html")
             q == HtmlAnswer(r, st)
  <2>1. /\ Fields \subseteq DOMAIN head /\ head.query = r.query /\ head.bodylen = r.bodylen
        /\ DOMAIN head.headers = DOMAIN r.headers \cup {"Content-Type"}
        /\ head.headers["Content-Type"] = "text/html"
    BY <1>1, HeadFields DEF Kept
  <2>2. q = [head EXCEPT !.status = st, !.fmt = "html"]
    BY DEF HtmlAnswer
  <2> HIDE DEF head, q
  <2>3. /\ Fields \subseteq DOMAIN q /\ q.query = head.query /\ q.fmt = "html" /\ q.status = st
        /\ q.bodylen = head.bodylen /\ q.headers = head.headers
    BY <2>1, <2>2 DEF Fields
  <2> QED BY <2>1, <2>3 DEF q
<1> QED BY <1>1, <1>2

\* a request that has not been answered
Open(r) == Fields \subseteq DOMAIN r /\ r.bodylen = 0 /\ "Location" \notin DOMAIN r.headers

LEMMA R404Answer ==
  ASSUME NEW r, Open(r), NEW tmpl \in {"404", "error_unsupported_feed_fmt"}
  PROVE  Answer(R404(r, tmpl))
<1> DEFINE html == HtmlAnswer(r, 404)
           q == vars_scope_push(html)
<1>1. /\ Fields \subseteq DOMAIN html /\ html.fmt = "html" /\ html.status = 404
      /\ html.bodylen = 0 /\ "Location" \notin DOMAIN html.headers
      /\ "Content-Type" \in DOMAIN html.headers /\ html.headers["Content-Type"] = "text/html"
  BY HtmlFields DEF Open
<1>2. R404(r, tmpl) = render_page(q, tmpl)
  BY DEF R404, HtmlAnswer
<1> HIDE DEF html
<1>3. Kept(html, q)
  BY <1>1, PushKept
<1> HIDE DEF q
<1>4. q.fmt \in DOMAIN Templates /\ tmpl \in Templates[q.fmt] /\ TypeOfPage(q.fmt) = "text/html"
      /\ tmpl # "storyview"
  BY <1>1, <1>3 DEF Kept, Templates, TypeOfPage
<1>5. Answer(render_page(q, tmpl))
  BY <1>1, <1>3, <1>4, PageAnswer DEF Kept
<1> QED BY <1>2, <1>5

LEMMA R301Answer ==
  ASSUME NEW r, Open(r), NEW url
  PROVE  Answer(R301(r, url))
<1> DEFINE p == PutFmt(r)
           h == req_head(p, "Content-Type", "text/html")
           l == req_head(h, "Location", url)
           html == [l EXCEPT !.status = 301, !.fmt = "html"]
           pushed == vars_scope_push(html)
           q == vars_set(pushed, "redirect", [ref |-> "url"])
<1>1. Fields \subseteq DOMAIN p /\ p.bodylen = 0
  BY HtmlFields DEF Kept, Open
<1>2. R301(r, url) = render_page(q, "301")
  BY DEF R301
<1> HIDE DEF p
<1>3. /\ Fields \subseteq DOMAIN h /\ h.bodylen = 0 /\ "Content-Type" \in DOMAIN h.headers
      /\ h.headers["Content-Type"] = "text/html"
  BY <1>1, HeadFields
<1> HIDE DEF h
<1>4. /\ Fields \subseteq DOMAIN l /\ l.bodylen = 0 /\ {"Content-Type", "Location"} \subseteq DOMAIN l.headers
      /\ l.headers["Content-Type"] = "text/html"
  BY <1>3, HeadFields
<1> HIDE DEF l
<1>5. /\ Fields \subseteq DOMAIN html /\ html.bodylen = 0 /\ html.headers = l.headers
      /\ html.status = 301 /\ html.fmt = "html"
  BY <1>4 DEF Fields
<1> HIDE DEF html
<1>6. Kept(html, pushed)
  BY <1>5, PushKept
<1> HIDE DEF pushed
<1>7. Kept(pushed, q)
  BY <1>6, SetKept DEF Kept
<1> HIDE DEF q
<1>8. /\ Fields \subseteq DOMAIN q /\ q.fmt = "html" /\ q.bodylen = 0 /\ q.status = 301
      /\ q.headers["Content-Type"] = "text/html" /\ {"Content-Type", "Location"} \subseteq DOMAIN q.headers
  BY <1>4, <1>5, <1>6, <1>7 DEF Kept
<1>9. q.fmt \in DOMAIN Templates /\ "301" \in Templates[q.fmt] /\ TypeOfPage(q.fmt) = "text/html"
  BY <1>8 DEF Templates, TypeOfPage
<1>10. Answer(render_page(q, "301"))
  BY <1>8, <1>9, PageAnswer
<1> QED BY <1>2, <1>10

\* a variable that was just set is the one a template finds
LEMMA LookupSet ==
  ASSUME NEW r, WF(r), NEW name, NEW val
  PROVE  vars_lookup(vars_set(r, name, val), name) = val
<1> DEFINE q == vars_set(r, name, val)
           last == Len(r.vars)
<1>1. /\ WF(q) /\ Len(q.vars) = last /\ DOMAIN q.vars = DOMAIN r.vars /\ last \in DOMAIN r.vars
      /\ DOMAIN q.vars[last] = DOMAIN r.vars[last] \cup {name} /\ q.vars[last][name] = val
  BY VarSet
<1>2. DOMAIN q.vars = 1..last /\ last \in Nat
  <2>1. PICK S : r.vars \in Seq(S)
    BY DEF WF, Scopes
  <2> QED BY <1>1, <2>1
<1> HIDE DEF q
<1>3. \A i \in DOMAIN q.vars :
        /\ name \in DOMAIN q.vars[i]
        /\ \A j \in DOMAIN q.vars : j > i => name \notin DOMAIN q.vars[j]
        => i = last
  BY <1>1, <1>2
<1>4. /\ last \in DOMAIN q.vars /\ name \in DOMAIN q.vars[last]
      /\ \A j \in DOMAIN q.vars : j > last => name \notin DOMAIN q.vars[j]
  BY <1>1, <1>2
<1>5. last = CHOOSE i \in DOMAIN q.vars :
               /\ name \in DOMAIN q.vars[i]
               /\ \A j \in DOMAIN q.vars : j > i => name \notin DOMAIN q.vars[j]
  BY <1>3, <1>4
<1>6. vars_lookup(q, name) = q.vars[last][name]
  BY <1>5 DEF vars_lookup
<1> QED BY <1>1, <1>6 DEF q

LEMMA StaticAnswer ==
  ASSUME NEW r, Plain(r), r.page = "STATIC", NEW q \in blahg_static(r)
  PROVE  Answer(q)
<1> DEFINE g == Get(r, "uri")
           got == Put(g, "uri")
<1>1. Kept(r, g)
  BY RefKept DEF Plain
<1>2. Kept(g, got)
  <2> HIDE DEF g
  <2> QED BY <1>1, RefKept DEF Kept
<1>3. Plain(got) /\ got.query = r.query /\ got.page = "STATIC"
  BY <1>1, <1>2, KeptTrans, KeptPlain DEF Kept
<1>4. CASE r.query.uri \in DOMAIN WebDir
  <2> DEFINE type == ContentTypeOf[r.query.uri]
             head == req_head(got, "Content-Type", type)
  <2>1. q = [head EXCEPT !.body = [kind |-> "file", name |-> r.query.uri], !.bodylen = WebDir[r.query.uri]]
    BY <1>4 DEF blahg_static
  <2> HIDE DEF got, type
  <2>2. /\ Fields \subseteq DOMAIN head /\ head.query = r.query /\ head.status = 200
        /\ "Content-Type" \in DOMAIN head.headers /\ head.headers["Content-Type"] = type /\ "Location" \notin DOMAIN head.headers
    BY <1>3, HeadFields DEF Plain
  <2> HIDE DEF head
  <2>3. /\ Fields \subseteq DOMAIN q /\ q.query = r.query /\ q.status = 200
        /\ "Content-Type" \in DOMAIN q.headers /\ q.headers["Content-Type"] = type /\ "Location" \notin DOMAIN q.headers
        /\ q.body = [kind |-> "file", name |-> r.query.uri] /\ q.bodylen = WebDir[r.query.uri]
    BY <2>1, <2>2 DEF Fields
  <2>4. "feed" \notin DOMAIN r.query
    BY DEF Plain
  <2>5. Size(q.body) = WebDir[r.query.uri] /\ q.body.kind = "file"
    BY <2>3 DEF Size
  <2> QED BY <2>3, <2>4, <2>5 DEF Answer, Fits, type
<1>5. CASE r.query.uri \notin DOMAIN WebDir
  <2>1. q = R404(got, "404")
    BY <1>5 DEF blahg_static
  <2> HIDE DEF got
  <2>2. Open(got)
    BY <1>3 DEF Plain, Open
  <2> QED BY <2>1, <2>2, R404Answer
<1> QED BY <1>4, <1>5

LEMMA IndexAnswer ==
  ASSUME NEW r, Plain(r), NEW q \in blahg_index(r)
  PROVE  Answer(q)
<1> DEFINE page == get_page_number(r)
           a == vars_set(r, "title", [ref |-> None])
<1>1. PICK s \in store_pages(a, page) :
        q = render_page(LoadPosts(vars_scope_push(s), ByTime, AllMonths, page), "index")
  BY DEF blahg_index
<1>2. Kept(r, a)
  BY SetKept DEF Plain
<1> HIDE DEF a, page
<1> DEFINE b == LoadPosts(vars_scope_push(s), ByTime, AllMonths, page)
<1>3. Kept(a, b)
  BY <1>2, ListingKept DEF Kept
<1> HIDE DEF b
<1>4. Plain(b)
  BY <1>2, <1>3, KeptPlain
<1>5. Answer(render_page(b, "index"))
  BY <1>4, PlainAnswer
<1> QED BY <1>1, <1>5 DEF b

\* the text/html of a handler is what was there
LEMMA HtmlPlain ==
  ASSUME NEW r, Plain(r), r.fmt = "html"
  PROVE  Plain(req_head(r, "Content-Type", "text/html"))
<1> DEFINE q == req_head(r, "Content-Type", "text/html")
<1>1. /\ Fields \subseteq DOMAIN q /\ q.query = r.query /\ q.page = r.page /\ q.fmt = r.fmt
      /\ q.index_stories = r.index_stories /\ q.status = r.status /\ q.bodylen = r.bodylen
      /\ DOMAIN q.headers = DOMAIN r.headers \cup {"Content-Type"}
      /\ q.headers["Content-Type"] = "text/html"
  BY HeadFields DEF Plain
<1> HIDE DEF q
<1>2. TypeOfPage(r.fmt) = "text/html"
  BY DEF TypeOfPage
<1>3. Plain(q)
  BY <1>1, <1>2 DEF Plain
<1> QED BY <1>3 DEF q

\* only the front page and the posts may be had as feeds
LEMMA NotFeed ==
  ASSUME NEW r, Plain(r), r.page \notin {"INDEX", "STORY"}
  PROVE  r.fmt = "html"
BY DEF Plain

LEMMA ArchiveAnswer ==
  ASSUME NEW r, Plain(r), r.fmt = "html", NEW q \in blahg_archive(r)
  PROVE  Answer(q)
<1> DEFINE page == get_page_number(r)
           archid == get_arch_id(r)
           h == req_head(r, "Content-Type", "text/html")
           a == vars_set(h, "title", [ref |-> None])
           t == vars_set(a, "archid", archid)
<1>1. PICK s \in store_pages(t, page) :
        q = render_page(LoadPosts(vars_scope_push(s), ByTime, Months(archid), page), "archive")
  BY DEF blahg_archive
<1>2. Plain(h) /\ h.fmt = "html"
  BY HtmlPlain, HeadFields DEF Plain
<1> HIDE DEF h, archid, page
<1>3. Kept(h, a)
  BY <1>2, SetKept DEF Plain
<1> HIDE DEF a
<1>4. Kept(a, t)
  BY <1>3, SetKept DEF Kept
<1> HIDE DEF t
<1> DEFINE b == LoadPosts(vars_scope_push(s), ByTime, Months(archid), page)
<1>5. Kept(t, b)
  BY <1>4, ListingKept DEF Kept
<1> HIDE DEF b
<1>6. Kept(h, b)
  BY <1>3, <1>4, <1>5, KeptTrans
<1>7. Plain(b) /\ b.fmt = "html"
  BY <1>2, <1>6, KeptPlain DEF Kept
<1>8. Answer(render_page(b, "archive"))
  BY <1>7, PlainAnswer
<1> QED BY <1>1, <1>8 DEF b

LEMMA TagAnswer ==
  ASSUME NEW r, Plain(r), r.fmt = "html", NEW q \in blahg_tag(r)
  PROVE  Answer(q)
<1> DEFINE page == get_page_number(r)
           g1 == Get(r, "tag")
           g2 == Get(g1, "tag")
           g3 == Get(g2, "tag")
           h == req_head(g3, "Content-Type", "text/html")
           a == vars_set(h, "title", [ref |-> "tag"])
           t == vars_set(a, "tagid", [ref |-> "tag"])
<1>1. PICK s \in store_pages(t, page) :
        q = render_page(Put(LoadPosts(vars_scope_push(s), ByTag(r.query.tag), AllMonths, page), "tag"), "tagindex")
  BY DEF blahg_tag
<1> HIDE DEF page
<1>2. Kept(r, g1)
  BY RefKept DEF Plain
<1> HIDE DEF g1
<1>3. Kept(g1, g2)
  BY <1>2, RefKept DEF Kept
<1> HIDE DEF g2
<1>4. Kept(g2, g3)
  BY <1>3, RefKept DEF Kept
<1> HIDE DEF g3
<1>5. Kept(r, g3)
  BY <1>2, <1>3, <1>4, KeptTrans
<1>6. Plain(g3) /\ g3.fmt = "html"
  BY <1>5, KeptPlain DEF Kept
<1>7. Plain(h) /\ h.fmt = "html"
  BY <1>6, HtmlPlain, HeadFields DEF Plain
<1> HIDE DEF h
<1>8. Kept(h, a)
  BY <1>7, SetKept DEF Plain
<1> HIDE DEF a
<1>9. Kept(a, t)
  BY <1>8, SetKept DEF Kept
<1> HIDE DEF t
<1> DEFINE b == LoadPosts(vars_scope_push(s), ByTag(r.query.tag), AllMonths, page)
           p == Put(b, "tag")
<1>10. Kept(t, b)
  BY <1>9, ListingKept DEF Kept
<1> HIDE DEF b
<1>11. Kept(b, p)
  BY <1>10, RefKept DEF Kept
<1> HIDE DEF p
<1>12. Kept(h, p)
  BY <1>8, <1>9, <1>10, <1>11, KeptTrans
<1>13. Plain(p) /\ p.fmt = "html"
  BY <1>7, <1>12, KeptPlain DEF Kept
<1>14. Answer(render_page(p, "tagindex"))
  BY <1>13, PlainAnswer
<1> QED BY <1>1, <1>14 DEF b, p

LEMMA CategoryAnswer ==
  ASSUME NEW r, Plain(r), NEW q \in blahg_category(r)
  PROVE  Answer(q)
<1> DEFINE g == Get(r, "cat")
           got == Put(g, "cat")
           u == Get(got, "url")
<1>1. q = R404(got, "404") \/ q = R301(u, category_to_tag[r.query.cat])
  BY DEF blahg_category
<1>2. Kept(r, g)
  BY RefKept DEF Plain
<1> HIDE DEF g
<1>3. Kept(g, got)
  BY <1>2, RefKept DEF Kept
<1> HIDE DEF got
<1>4. Kept(got, u)
  BY <1>3, RefKept DEF Kept
<1> HIDE DEF u
<1>5. Open(got) /\ Open(u)
  BY <1>2, <1>3, <1>4 DEF Kept, Plain, Open
<1> QED BY <1>1, <1>5, R404Answer, R301Answer

LEMMA CommentAnswer ==
  ASSUME NEW r, Plain(r), r.fmt = "html", NEW q \in blahg_comment(r)
  PROVE  Answer(q)
<1> DEFINE h == req_head(r, "Content-Type", "text/html")
           got == vars_scope_push(h)
           e == vars_set(got, "comment_error_str", None)
<1>1. q = render_page(e, "comment_error") \/ q = render_page(got, "comment_saved")
  BY DEF blahg_comment
<1>2. Plain(h) /\ h.fmt = "html"
  BY HtmlPlain, HeadFields DEF Plain
<1> HIDE DEF h
<1>3. Kept(h, got)
  BY <1>2, PushKept DEF Plain
<1> HIDE DEF got
<1>4. Kept(got, e)
  BY <1>3, SetKept DEF Kept
<1> HIDE DEF e
<1>5. Plain(got) /\ got.fmt = "html" /\ Plain(e) /\ e.fmt = "html"
  BY <1>2, <1>3, <1>4, KeptPlain DEF Kept
<1>6. Answer(render_page(e, "comment_error")) /\ Answer(render_page(got, "comment_saved"))
  BY <1>5, PlainAnswer
<1> QED BY <1>1, <1>6

\* a draft is shown only to whom the secret is known
LEMMA StoryAnswer ==
  ASSUME NEW r, Plain(r), WF(r), NEW q \in blahg_story(r)
  PROVE  Answer(q)
<1> DEFINE pushed == vars_scope_push(r)
           t == vars_set(pushed, "title", [ref |-> None])
           draft == is_preview(r)
           posts == <<[id |-> r.query.p, draft |-> draft]>>
           v == vars_set(t, "posts", posts)
<1>1. q = R404(r, "404") \/ q = R404(t, "404") \/ q = render_page(v, "storyview")
  BY DEF blahg_story
<1>2. posts[1].draft = draft
  OBVIOUS
<1> HIDE DEF posts
<1>3. Kept(r, pushed) /\ WF(pushed)
  BY PushKept, PushSame DEF Plain, Same
<1> HIDE DEF pushed
<1>4. Kept(pushed, t) /\ WF(t)
  BY <1>3, SetKept, VarSet DEF Kept
<1> HIDE DEF t
<1>5. Kept(t, v) /\ vars_lookup(v, "posts") = posts
  BY <1>4, SetKept, LookupSet DEF Kept
<1> HIDE DEF v
<1>6. Kept(r, v) /\ Plain(v) /\ Plain(t)
  BY <1>3, <1>4, <1>5, KeptTrans, KeptPlain
<1>7. draft => is_preview(v)
  BY <1>6 DEF Kept, is_preview, HasInt
<1> HIDE DEF draft
<1>8. Answer(render_page(v, "storyview"))
  BY <1>2, <1>5, <1>6, <1>7, PlainAnswer
<1>9. Open(r) /\ Open(t)
  BY <1>6 DEF Plain, Open
<1> QED BY <1>1, <1>8, <1>9, R404Answer

LEMMA AdminAnswer ==
  ASSUME NEW r, Plain(r), r.page = "ADMIN", NEW q \in blahg_admin(r)
  PROVE  Answer(q)
<1> DEFINE h == req_head(r, "Content-Type", "text/plain")
<1>1. q = [h EXCEPT !.body = [kind |-> "text"]]
  BY DEF blahg_admin
<1>2. /\ Fields \subseteq DOMAIN h /\ h.query = r.query /\ h.status = 200 /\ h.bodylen = 0
      /\ "Location" \notin DOMAIN h.headers /\ "Content-Type" \in DOMAIN h.headers
  BY HeadFields DEF Plain
<1> HIDE DEF h
<1>3. /\ Fields \subseteq DOMAIN q /\ q.query = r.query /\ q.status = 200 /\ q.bodylen = 0
      /\ "Location" \notin DOMAIN q.headers /\ "Content-Type" \in DOMAIN q.headers /\ q.body.kind = "text"
  BY <1>1, <1>2 DEF Fields
<1>4. "feed" \notin DOMAIN r.query
  BY DEF Plain
<1> QED BY <1>3, <1>4 DEF Answer, Fits

\* a request before its dispatch: req_init
Fresh(r) == Fields \subseteq DOMAIN r /\ r.status = 200 /\ r.bodylen = 0 /\ DOMAIN r.headers = {}

LEMMA SwitchPlain ==
  ASSUME NEW r, Fresh(r)
  PROVE  /\ IF Supported(r) THEN Plain(switch_content_type(r)) ELSE Open(switch_content_type(r))
         /\ Walker(r, switch_content_type(r))
<1> DEFINE q == switch_content_type(r)
           g == Get(r, "feed")
<1>1. Kept(r, g) /\ Fields \subseteq DOMAIN r
  BY RefKept DEF Fresh
<1>2. CASE ~Supported(r)
  <2>1. Kept(g, Put(g, "feed"))
    BY <1>1, RefKept DEF Kept
  <2>2. Kept(r, Put(g, "feed"))
    BY <1>1, <2>1, KeptTrans
  <2>3. q = r \/ q = Put(g, "feed")
    BY <1>2 DEF switch_content_type
  <2> HIDE DEF q, g
  <2>4. Open(q)
    BY <2>2, <2>3 DEF Fresh, Open, Kept
  <2>5. Walker(r, q)
    BY <2>2, <2>3 DEF Kept, Walker
  <2> QED BY <1>2, <2>4, <2>5 DEF q
<1>3. CASE Supported(r) /\ "feed" \notin DOMAIN r.query
  <2> DEFINE h == req_head(r, "Content-Type", "text/html")
  <2>1. q = [h EXCEPT !.fmt = "html", !.index_stories = html_index_stories]
    BY <1>3 DEF switch_content_type
  <2>2. /\ Fields \subseteq DOMAIN h /\ h.query = r.query /\ h.status = 200 /\ h.bodylen = 0
        /\ DOMAIN h.headers = {"Content-Type"} /\ h.headers["Content-Type"] = "text/html"
        /\ Walker(r, h)
    BY HeadFields DEF Fresh
  <2> HIDE DEF h, q
  <2>3. /\ Fields \subseteq DOMAIN q /\ q.query = r.query /\ q.status = 200 /\ q.bodylen = 0
        /\ DOMAIN q.headers = {"Content-Type"} /\ q.headers["Content-Type"] = "text/html"
        /\ q.fmt = "html" /\ q.index_stories = html_index_stories /\ Walker(r, q)
    BY <2>1, <2>2 DEF Fields, Walker
  <2>4. Plain(q)
    BY <1>3, <2>3 DEF Plain, TypeOfPage
  <2> QED BY <1>3, <2>3, <2>4 DEF q
<1>4. CASE Supported(r) /\ "feed" \in DOMAIN r.query
  <2> DEFINE type == FeedTypes[r.query.feed]
             h == req_head(g, "Content-Type", type)
  <2>1. q = [h EXCEPT !.fmt = r.query.feed, !.index_stories = feed_index_stories]
    BY <1>4 DEF switch_content_type
  <2> HIDE DEF type, g
  <2>2. /\ Fields \subseteq DOMAIN h /\ h.query = r.query /\ h.status = 200 /\ h.bodylen = 0
        /\ DOMAIN h.headers = {"Content-Type"} /\ h.headers["Content-Type"] = type
        /\ h.page = r.page /\ Walker(r, h)
    BY <1>1, HeadFields DEF Kept, Fresh, Walker
  <2> HIDE DEF h, q
  <2>3. /\ Fields \subseteq DOMAIN q /\ q.query = r.query /\ q.status = 200 /\ q.bodylen = 0
        /\ DOMAIN q.headers = {"Content-Type"} /\ q.headers["Content-Type"] = type
        /\ q.fmt = r.query.feed /\ q.page = r.page /\ Walker(r, q)
    BY <2>1, <2>2 DEF Fields, Walker
  <2>4. r.query.feed \in DOMAIN FeedTypes /\ r.page \in {"INDEX", "STORY"}
    BY <1>4 DEF Supported
  <2>5. type = TypeOfPage(r.query.feed)
    BY <2>4 DEF type, TypeOfPage, FeedTypes
  <2>6. q.fmt # "html"
    BY <2>3, <2>4 DEF FeedTypes
  <2>7. Plain(q)
    BY <1>4, <2>3, <2>4, <2>5, <2>6 DEF Plain
  <2> QED BY <1>4, <2>3, <2>7 DEF q
<1> QED BY <1>2, <1>3, <1>4

LEMMA HandleAnswers ==
  ASSUME NEW r, Plain(r), WF(r),
         r.page \in {"STATIC", "ARCHIVE", "CATEGORY", "TAG", "COMMENT", "INDEX", "STORY", "ADMIN"},
         NEW q \in Handle(r)
  PROVE  Answer(q)
<1>1. \/ r.page = "STATIC" /\ q \in blahg_static(r)
      \/ r.page = "ARCHIVE" /\ q \in blahg_archive(r)
      \/ r.page = "CATEGORY" /\ q \in blahg_category(r)
      \/ r.page = "TAG" /\ q \in blahg_tag(r)
      \/ r.page = "COMMENT" /\ q \in blahg_comment(r)
      \/ r.page = "INDEX" /\ q \in blahg_index(r)
      \/ r.page = "STORY" /\ q \in blahg_story(r)
      \/ r.page = "ADMIN" /\ q \in blahg_admin(r)
  BY DEF Handle
<1>2. r.page \in {"ARCHIVE", "TAG", "COMMENT"} => r.fmt = "html"
  BY NotFeed
<1> QED BY <1>1, <1>2, StaticAnswer, ArchiveAnswer, CategoryAnswer, TagAnswer, CommentAnswer,
           IndexAnswer, StoryAnswer, AdminAnswer

\* the request whose page is known
Selected(r, page) == [Put(Get(r, "uri"), "uri") EXCEPT !.page = page]

LEMMA SelectedFresh ==
  ASSUME NEW r, Unserved(r), Fresh(r), NEW page
  PROVE  /\ Unserved(Selected(r, page)) /\ Fresh(Selected(r, page))
         /\ Walker(r, Selected(r, page)) /\ Selected(r, page).page = page
<1> DEFINE g == Get(r, "uri")
           got == Put(g, "uri")
           x == [got EXCEPT !.page = page]
<1>1. "uri" \in Strings /\ WF(r)
  BY DEF Strings, Unserved, Ready
<1>2. Owing(r, g, "uri", 1) /\ g.vars = r.vars /\ g.fmt = r.fmt /\ Kept(r, g)
  BY <1>1, GetOwes, RefKept DEF Fresh
<1> HIDE DEF g
<1>3. Owing(g, got, "uri", -1) /\ got.vars = r.vars /\ got.fmt = r.fmt /\ Kept(g, got)
  BY <1>1, <1>2, PutOwes, RefKept DEF Owing, Kept
<1> HIDE DEF got
<1>4. Unserved(got)
  BY <1>2, <1>3 DEF Unserved, Ready, Settled, Owing, Bare
<1>5. Fresh(got) /\ Walker(r, got)
  BY <1>2, <1>3 DEF Fresh, Kept, Walker
<1>6. /\ Fields \subseteq DOMAIN x /\ x.id = got.id /\ x.vars = got.vars /\ x.refs = got.refs
      /\ x.fmt = got.fmt /\ x.page = page
      /\ x.query = got.query /\ x.walks = got.walks /\ x.trail = got.trail
      /\ x.status = got.status /\ x.bodylen = got.bodylen /\ x.headers = got.headers
  BY <1>4 DEF Unserved, Ready, WF, Fields
<1> HIDE DEF x
<1>7. Same(got, x)
  BY <1>4, <1>6, OtherField DEF Unserved, Ready
<1>8. Unserved(x)
  BY <1>4, <1>6, <1>7 DEF Unserved, Ready, Same, Bare
<1>9. Fresh(x) /\ Walker(r, x)
  BY <1>5, <1>6 DEF Fresh, Walker
<1> QED BY <1>6, <1>8, <1>9 DEF Selected, x, got, g

LEMMA DispatchAnswers ==
  ASSUME NEW r, Unserved(r), Fresh(r), NEW q \in Dispatched(r)
  PROVE  Answer(q)
<1>1. CASE UriType(r.query.uri) = "BAD"
  <2> DEFINE x == Selected(r, "INDEX")
  <2>1. q = R404(x, "404") /\ Fresh(x)
    BY <1>1, SelectedFresh DEF Dispatched, Selected
  <2> HIDE DEF x
  <2>2. Open(x)
    BY <2>1 DEF Fresh, Open
  <2> QED BY <2>1, <2>2, R404Answer
<1>2. CASE UriType(r.query.uri) # "BAD"
  <2> DEFINE selected == Selected(r, select_page(r))
             switched == switch_content_type(selected)
  <2>1. /\ ~Supported(selected) => q = R404(switched, "error_unsupported_feed_fmt")
        /\ Supported(selected) => q \in Handle(switched)
    BY <1>2 DEF Dispatched, Selected
  <2>2. Unserved(selected) /\ Fresh(selected) /\ selected.page = select_page(r)
    BY SelectedFresh
  <2> HIDE DEF selected
  <2>3. CASE ~Supported(selected)
    <3>1. Open(switched)
      BY <2>2, <2>3, SwitchPlain
    <3> HIDE DEF switched
    <3> QED BY <2>1, <2>3, <3>1, R404Answer
  <2>4. CASE Supported(selected)
    <3>1. Plain(switched) /\ Ready(switched) /\ switched.page = select_page(r)
      BY <2>2, <2>4, SwitchPlain, SwitchReady
    <3>2. WF(switched)
      BY <3>1 DEF Ready
    <3> HIDE DEF switched
    <3> QED BY <2>1, <2>4, <3>1, <3>2, PageHandled, HandleAnswers
  <2> QED BY <2>3, <2>4
<1> QED BY <1>1, <1>2

\* req_output
LEMMA OutputFits ==
  ASSUME NEW r, Answer(r), NEW len, len = IF r.bodylen = 0 THEN Size(r.body) ELSE r.bodylen
  PROVE  LET done == req_head([r EXCEPT !.bodylen = len], "Content-Length", len)
         IN Fits(done) /\ done.headers["Content-Length"] = Size(done.body)
<1> DEFINE b == [r EXCEPT !.bodylen = len]
           done == req_head(b, "Content-Length", len)
<1>1. /\ Fields \subseteq DOMAIN b /\ b.query = r.query /\ b.status = r.status /\ b.body = r.body
      /\ b.headers = r.headers
  BY DEF Answer, Fields
<1>2. len = Size(r.body)
  BY DEF Answer
<1> HIDE DEF b
<1>3. /\ done.query = r.query /\ done.status = r.status /\ done.body = r.body
      /\ DOMAIN done.headers = DOMAIN r.headers \cup {"Content-Length"}
      /\ done.headers["Content-Length"] = len
      /\ \A n \in DOMAIN r.headers \ {"Content-Length"} : done.headers[n] = r.headers[n]
  BY <1>1, HeadFields
<1> HIDE DEF done
<1>4. /\ done.headers["Content-Type"] = r.headers["Content-Type"]
      /\ "Location" \in DOMAIN done.headers <=> "Location" \in DOMAIN r.headers
  BY <1>3 DEF Answer
<1>5. Fits(done)
  BY <1>3, <1>4 DEF Answer, Fits, HasInt
<1> QED BY <1>2, <1>3, <1>5 DEF done, b

\* A request is fresh until its dispatch, and then answered.
AnswerInv == \A t \in Threads :
  /\ pc[t] = "dispatch" => Fresh(req[t])
  /\ pc[t] = "output" => Answer(req[t])

ClientInv == DOMAIN sent = Threads /\ AnswerInv /\ ResponseConsistent

LEMMA ClientInit == Init => ClientInv
<1> HAVE Init
<1>1. NoRequest.id = 0
  BY DEF NoRequest, NewRequest
<1> QED BY <1>1 DEF Init, ClientInv, AnswerInv, ResponseConsistent

LEMMA NewFresh ==
  ASSUME NEW id, NEW query, NEW walks, NEW trail
  PROVE  Fresh(NewRequest(id, query, walks, trail))
BY DEF Fresh, NewRequest, NoHeaders, Fields

\* nothing is there for a client before the request is served
LEMMA ClientAccept ==
  ASSUME IInv, ClientInv, NEW t \in Threads, NEW query, NEW walks, NEW trail, Accept(t, query, walks, trail)
  PROVE  ClientInv'
<1> DEFINE new == NewRequest(FreshId, query, walks, trail)
<1>1. /\ pc' = [pc EXCEPT ![t] = "dispatch"] /\ req' = [req EXCEPT ![t] = new]
      /\ sent' = [sent EXCEPT ![t] = NoRequest]
  BY DEF Accept
<1>2. Fresh(new) /\ NoRequest.id = 0
  BY NewFresh DEF NoRequest, NewRequest
<1> HIDE DEF new
<1>3. /\ pc'[t] = "dispatch" /\ req'[t] = new /\ sent'[t] = NoRequest
      /\ \A u \in Threads \ {t} : pc'[u] = pc[u] /\ req'[u] = req[u] /\ sent'[u] = sent[u]
  BY <1>1 DEF IInv, MapsInv, ClientInv
<1>4. AnswerInv'
  BY <1>2, <1>3 DEF ClientInv, AnswerInv
<1>5. ResponseConsistent'
  BY <1>2, <1>3 DEF ClientInv, ResponseConsistent
<1> QED BY <1>1, <1>4, <1>5 DEF ClientInv

LEMMA ClientDispatch ==
  ASSUME IInv, ClientInv, NEW t \in Threads, Dispatch(t)
  PROVE  ClientInv'
<1>1. pc[t] = "dispatch" /\ Unserved(req[t]) /\ Fresh(req[t])
  BY DEF Dispatch, IInv, DebtInv, ClientInv, AnswerInv
<1>2. PICK q \in Dispatched(req[t]) : req' = [req EXCEPT ![t] = q]
  BY DEF Dispatch
<1>3. Answer(q)
  BY <1>1, DispatchAnswers
<1>4. pc' = [pc EXCEPT ![t] = "output"] /\ sent' = sent
  BY DEF Dispatch
<1>5. /\ pc'[t] = "output" /\ req'[t] = q
      /\ \A u \in Threads \ {t} : pc'[u] = pc[u] /\ req'[u] = req[u]
  BY <1>2, <1>4 DEF IInv, MapsInv
<1>6. AnswerInv'
  BY <1>3, <1>5 DEF ClientInv, AnswerInv
<1> QED BY <1>4, <1>6 DEF ClientInv, ResponseConsistent

LEMMA ClientOutput ==
  ASSUME IInv, ClientInv, NEW t \in Threads, Output(t)
  PROVE  ClientInv'
<1> DEFINE r == req[t]
           len == IF r.bodylen = 0 THEN Size(r.body) ELSE r.bodylen
           done == req_head([r EXCEPT !.bodylen = len], "Content-Length", len)
<1>1. /\ pc[t] = "output" /\ pc' = [pc EXCEPT ![t] = "log"]
      /\ req' = [req EXCEPT ![t] = done] /\ sent' = [sent EXCEPT ![t] = done]
  BY DEF Output
<1>2. Answer(r)
  BY <1>1 DEF ClientInv, AnswerInv
<1>3. Fits(done) /\ done.headers["Content-Length"] = Size(done.body)
  BY <1>2, OutputFits
<1> HIDE DEF done
<1>4. /\ pc'[t] = "log" /\ req'[t] = done /\ sent'[t] = done
      /\ \A u \in Threads \ {t} : pc'[u] = pc[u] /\ req'[u] = req[u] /\ sent'[u] = sent[u]
  BY <1>1 DEF IInv, MapsInv, ClientInv
<1>5. AnswerInv'
  BY <1>4 DEF ClientInv, AnswerInv
<1>6. ResponseConsistent'
  BY <1>3, <1>4 DEF ClientInv, ResponseConsistent
<1> QED BY <1>1, <1>5, <1>6 DEF ClientInv

LEMMA ClientStep ==
  ASSUME IInv, ClientInv, [Next]_vars
  PROVE  ClientInv'
<1>1. ASSUME NEW t \in Threads, Ask(t) \/ FollowOlder(t) \/ FollowNewer(t) PROVE ClientInv'
  <2>1. \E query, walks, trail : Accept(t, query, walks, trail)
    BY <1>1 DEF Ask, FollowOlder, FollowNewer
  <2> QED BY <2>1, ClientAccept
<1>2. ASSUME NEW t \in Threads, Log(t) PROVE ClientInv'
  <2>1. pc' = [pc EXCEPT ![t] = "destroy"] /\ req' = req /\ sent' = sent
    BY <1>2 DEF Log
  <2>2. AnswerInv'
    BY <2>1 DEF IInv, MapsInv, ClientInv, AnswerInv
  <2> QED BY <2>1, <2>2 DEF ClientInv, ResponseConsistent
<1>3. ASSUME NEW t \in Threads, Destroy(t) PROVE ClientInv'
  <2> DEFINE kept == IF Older(sent[t]) \cup Newer(sent[t]) = {} THEN NoRequest ELSE sent[t]
  <2>1. pc' = [pc EXCEPT ![t] = "idle"] /\ sent' = [sent EXCEPT ![t] = kept]
    BY <1>3 DEF Destroy, ClientInv
  <2>2. \A u \in Threads \ {t} : req'[u] = req[u]
    BY <1>3 DEF Destroy, IInv, MapsInv
  <2>3. NoRequest.id = 0 /\ kept \in {NoRequest, sent[t]}
    BY DEF NoRequest, NewRequest
  <2> HIDE DEF kept
  <2>4. /\ pc'[t] = "idle" /\ sent'[t] = kept
        /\ \A u \in Threads \ {t} : pc'[u] = pc[u] /\ sent'[u] = sent[u]
    BY <2>1 DEF IInv, MapsInv, ClientInv
  <2>5. AnswerInv'
    BY <2>2, <2>4 DEF ClientInv, AnswerInv
  <2>6. ResponseConsistent'
    BY <2>3, <2>4 DEF ClientInv, ResponseConsistent
  <2> QED BY <2>1, <2>5, <2>6 DEF ClientInv
<1>4. CASE UNCHANGED vars
  BY <1>4 DEF vars, ClientInv, AnswerInv, ResponseConsistent
<1> QED BY <1>1, <1>2, <1>3, <1>4, ClientDispatch, ClientOutput DEF Next

\* req_dispatch, the handlers, R404, R301 and req_output: for every query,
\* whatever can be read and whatever fails, what a client gets fits together.
THEOREM AlwaysConsistent == Spec => []ResponseConsistent
<1>1. Init => IInv /\ ClientInv
  BY InitHolds, ClientInit
<1>2. IInv /\ ClientInv /\ [Next]_vars => (IInv /\ ClientInv)'
  BY StepHolds, ClientStep
<1>3. IInv /\ ClientInv => ResponseConsistent
  BY DEF ClientInv
<1> QED BY <1>1, <1>2, <1>3, PTL DEF Spec

-----------------------------------------------------------------------------
(* The places of the posts of a tree *)

Places(S) == S \subseteq DOMAIN Listed

LEMMA PlacesFinite ==
  ASSUME NEW S, Places(S)
  PROVE  /\ IsFiniteSet(S) /\ Cardinality(S) \in Nat /\ S \subseteq Nat \ {0}
         /\ Cardinality(S) <= Len(Listed) /\ Len(Listed) \in Nat
<1>1. DOMAIN Listed = 1..Len(Listed) /\ Len(Listed) \in Nat
  BY RequestAssumption
<1>2. IsFiniteSet(1..Len(Listed)) /\ Cardinality(1..Len(Listed)) = Len(Listed)
  <2> DEFINE n == Len(Listed)
  <2>1. n \in Nat
    BY <1>1
  <2> HIDE DEF n
  <2>2. IsFiniteSet(1..n) /\ Cardinality(1..n) = IF 1 > n THEN 0 ELSE n - 1 + 1
    BY <2>1, FS_Interval
  <2>3. Cardinality(1..n) = n
    BY <2>1, <2>2
  <2> QED BY <2>2, <2>3 DEF n
<1>3. IsFiniteSet(S) /\ Cardinality(S) <= Len(Listed)
  BY <1>1, <1>2, FS_Subset DEF Places
<1> QED BY <1>1, <1>3, FS_CardinalityType DEF Places

LEMMA RankBelow ==
  ASSUME NEW S, Places(S), NEW p \in S
  PROVE  Rank(S, p) \in 0..Cardinality(S) - 1
<1> DEFINE A == {q \in S : q < p}
<1>1. p \notin A
  BY PlacesFinite
<1>2. IsFiniteSet(S \ {p}) /\ Cardinality(S \ {p}) = Cardinality(S) - 1 /\ Cardinality(S) \in Nat
  BY PlacesFinite, FS_RemoveElement
<1>3. A \subseteq S \ {p}
  BY <1>1
<1>4. Cardinality(A) <= Cardinality(S) - 1 /\ Cardinality(A) \in Nat
  <2> HIDE DEF A
  <2> QED BY <1>2, <1>3, FS_Subset, FS_CardinalityType
<1>5. Rank(S, p) = Cardinality(A)
  BY DEF Rank
<1> HIDE DEF A
<1> QED BY <1>2, <1>4, <1>5

LEMMA RankGrows ==
  ASSUME NEW S, Places(S), NEW p \in S, NEW q \in S, q < p
  PROVE  Rank(S, q) < Rank(S, p)
<1> DEFINE A == {x \in S : x < p}
           B == {x \in S : x < q}
<1>1. q \in A /\ q \notin B /\ B \subseteq A
  BY PlacesFinite
<1>2. Rank(S, p) = Cardinality(A) /\ Rank(S, q) = Cardinality(B)
  BY DEF Rank
<1>3. A \subseteq S /\ IsFiniteSet(S)
  BY PlacesFinite
<1> HIDE DEF A, B
<1>4. IsFiniteSet(A) /\ IsFiniteSet(B) /\ Cardinality(A) \in Nat /\ Cardinality(B) \in Nat
  BY <1>1, <1>3, FS_Subset, FS_CardinalityType
<1>5. Cardinality(B) <= Cardinality(A) /\ Cardinality(B) # Cardinality(A)
  BY <1>1, <1>4, FS_Subset
<1> QED BY <1>2, <1>4, <1>5

\* the rank tells which of two places comes first
LEMMA RankOrders ==
  ASSUME NEW S, Places(S), NEW p \in S, NEW q \in S
  PROVE  /\ Rank(S, p) \in Nat
         /\ Rank(S, q) < Rank(S, p) <=> q < p
         /\ Rank(S, q) = Rank(S, p) => q = p
<1>1. p \in Nat /\ q \in Nat /\ Cardinality(S) \in Nat
  BY PlacesFinite
<1>2. Rank(S, p) \in Nat /\ Rank(S, q) \in Nat
  BY <1>1, RankBelow
<1>3. q < p => Rank(S, q) < Rank(S, p)
  BY RankGrows
<1>4. p < q => Rank(S, p) < Rank(S, q)
  BY RankGrows
<1> HIDE DEF Rank
<1> QED BY <1>1, <1>2, <1>3, <1>4

\* there is a place of every rank
LEMMA RankOnto ==
  ASSUME NEW S, Places(S), NEW i \in 0..Cardinality(S) - 1
  PROVE  \E p \in S : Rank(S, p) = i
<1> DEFINE T == 0..Cardinality(S) - 1
           f == [p \in S |-> Rank(S, p)]
<1>1. IsFiniteSet(S) /\ Cardinality(S) \in Nat
  BY PlacesFinite
<1>2. IsFiniteSet(T) /\ Cardinality(T) = Cardinality(S)
  BY <1>1, FS_Interval
<1>3. f \in [S -> T]
  BY RankBelow
<1>4. \A p, q \in S : f[p] = f[q] => p = q
  BY RankOrders
<1>5. f \in Injection(S, T)
  BY <1>3, <1>4 DEF Injection, IsInjective
<1>6. f \in Surjection(S, T)
  <2> HIDE DEF f, T
  <2> QED BY <1>1, <1>2, <1>5, FS_Injection
<1>7. \E p \in S : f[p] = i
  <2> HIDE DEF f
  <2> QED BY <1>6 DEF Surjection
<1> QED BY <1>7

\* InOrder lists a set from the first place on, without repetition
LEMMA InOrderLists ==
  ASSUME NEW S, Places(S)
  PROVE  /\ \A i \in 1..Cardinality(S) : InOrder(S)[i] \in S /\ Rank(S, InOrder(S)[i]) = i - 1
         /\ \A p \in S : Rank(S, p) + 1 \in 1..Cardinality(S) /\ InOrder(S)[Rank(S, p) + 1] = p
<1> DEFINE all == InOrder(S)
           n == Cardinality(S)
<1>1. n \in Nat
  BY PlacesFinite
<1>3. ASSUME NEW i \in 1..n PROVE all[i] \in S /\ Rank(S, all[i]) = i - 1
  <2>1. \E p \in S : Rank(S, p) = i - 1
    BY <1>1, RankOnto
  <2>2. all[i] = CHOOSE p \in S : Rank(S, p) = i - 1
    BY DEF InOrder
  <2> QED BY <2>1, <2>2
<1> HIDE DEF all
<1>4. ASSUME NEW p \in S PROVE Rank(S, p) + 1 \in 1..n /\ all[Rank(S, p) + 1] = p
  <2>1. Rank(S, p) \in 0..n - 1
    BY RankBelow
  <2>2. Rank(S, p) + 1 \in 1..n /\ (Rank(S, p) + 1) - 1 = Rank(S, p)
    BY <1>1, <2>1
  <2>3. all[Rank(S, p) + 1] \in S /\ Rank(S, all[Rank(S, p) + 1]) = Rank(S, p)
    BY <1>3, <2>2
  <2>4. all[Rank(S, p) + 1] = p
    BY <2>3, RankOrders
  <2> QED BY <2>2, <2>4
<1> QED BY <1>3, <1>4 DEF all

\* The places after the first loop have the ranks that are left over.
LEMMA AfterSkipRanks ==
  ASSUME NEW L, Places(L), NEW skip \in Nat, skip <= Cardinality(L)
  PROVE  /\ Places(AfterSkip(L, skip)) /\ Cardinality(AfterSkip(L, skip)) = Cardinality(L) - skip
         /\ \A p \in AfterSkip(L, skip) : Rank(L, p) = Rank(AfterSkip(L, skip), p) + skip
<1> DEFINE F == AfterSkip(L, skip)
           D == {q \in L : Rank(L, q) < skip}
<1>1. Cardinality(L) \in Nat /\ IsFiniteSet(L)
  BY PlacesFinite
<1>2. F = {p \in L : Rank(L, p) >= skip}
  BY DEF AfterSkip
<1> HIDE DEF F
<1>4. \A p \in L : Rank(L, p) \in 0..Cardinality(L) - 1
  BY RankBelow
<1>5. L = D \cup F /\ D \cap F = {} /\ F \subseteq L /\ D \subseteq L
  BY <1>1, <1>2, <1>4
<1>6. /\ Places(F) /\ IsFiniteSet(F) /\ Cardinality(F) \in Nat
      /\ IsFiniteSet(D) /\ Cardinality(D) \in Nat
  <2> HIDE DEF D
  <2>1. Places(F) /\ Places(D)
    BY <1>5 DEF Places
  <2> QED BY <2>1, PlacesFinite
<1>7. Cardinality(L) = Cardinality(D) + Cardinality(F)
  <2> HIDE DEF D
  <2>1. Cardinality(D \cup F) = Cardinality(D) + Cardinality(F) - Cardinality(D \cap F)
    BY <1>6, FS_Union
  <2>2. Cardinality(D \cap F) = 0
    BY <1>5, FS_EmptySet
  <2> QED BY <1>5, <1>6, <2>1, <2>2
<1>8. Cardinality(D) = skip
  <2>1. CASE skip = Cardinality(L)
    <3>1. D = L
      BY <1>1, <1>4, <2>1
    <3> QED BY <2>1, <3>1
  <2>2. CASE skip < Cardinality(L)
    <3>1. skip \in 0..Cardinality(L) - 1
      BY <1>1, <2>2
    <3>2. PICK p \in L : Rank(L, p) = skip
      BY <3>1, RankOnto
    <3>3. \A q \in L : Rank(L, q) < skip <=> q < p
      BY <3>2, RankOrders
    <3>4. D = {q \in L : q < p}
      BY <3>3
    <3> QED BY <3>2, <3>4 DEF Rank
  <2> QED BY <1>1, <2>1, <2>2
<1>9. ASSUME NEW p \in F PROVE Rank(L, p) = Rank(F, p) + skip
  <2> DEFINE A == {q \in L : q < p}
             N == {q \in F : q < p}
  <2>1. p \in L /\ Rank(L, p) >= skip /\ Rank(L, p) \in Nat
    BY <1>1, <1>2, <1>4, <1>5
  <2>2. \A q \in L : Rank(L, q) < Rank(L, p) <=> q < p
    BY <2>1, RankOrders
  <2>3. \A q \in D : q < p
    BY <1>4, <2>1, <2>2
  <2>4. A = D \cup N /\ D \cap N = {} /\ N \subseteq F
    BY <1>5, <2>3
  <2>5. Rank(L, p) = Cardinality(A) /\ Rank(F, p) = Cardinality(N)
    BY DEF Rank
  <2> HIDE DEF D, A, N
  <2>6. IsFiniteSet(N) /\ Cardinality(N) \in Nat
    BY <1>6, <2>4, FS_Subset, FS_CardinalityType
  <2>7. Cardinality(A) = Cardinality(D) + Cardinality(N) - Cardinality(D \cap N)
    BY <1>6, <2>4, <2>6, FS_Union
  <2>8. Cardinality(D \cap N) = 0
    BY <2>4, FS_EmptySet
  <2> QED BY <1>6, <1>8, <2>5, <2>6, <2>7, <2>8
<1>10. Cardinality(F) = Cardinality(L) - skip
  <2> HIDE DEF D
  <2> QED BY <1>1, <1>6, <1>7, <1>8
<1> QED BY <1>6, <1>9, <1>10 DEF F

LEMMA LenIs ==
  ASSUME NEW m \in Nat, NEW f, DOMAIN f = 1..m, f = [i \in 1..m |-> f[i]]
  PROVE  Len(f) = m
<1>1. f \in Seq({f[i] : i \in 1..m})
  OBVIOUS
<1> QED BY <1>1

LEMMA DivBounds ==
  ASSUME NEW a \in Nat, NEW n \in Nat \ {0}
  PROVE  a \div n \in Nat /\ (a \div n) * n <= a /\ a < (a \div n) * n + n
<1>1. a \div n \in Nat
  OBVIOUS
<1>2. (a \div n) * n <= a
  OBVIOUS
<1>3. a < (a \div n) * n + n
  OBVIOUS
<1> QED BY <1>1, <1>2, <1>3

\* index_get_posts returns the first posts of those it finds
LEMMA GetPostsIs ==
  ASSUME NEW tree, Places(tree), NEW months, NEW skip, NEW n \in Nat,
         NEW found, found = Found(tree, months, skip), NEW page, page = index_get_posts(tree, months, skip, n)
  PROVE  /\ Places(found) /\ Cardinality(found) \in Nat
         /\ DOMAIN page = 1..Len(page)
         /\ \A k \in DOMAIN page : page[k] = Listed[InOrder(found)[k]]
         /\ Len(page) = IF Cardinality(found) < n THEN Cardinality(found) ELSE n
<1> DEFINE c == Cardinality(found)
           m == IF c < n THEN c ELSE n
<1>1. Places(found)
  BY DEF Found, AfterSkip, Places
<1>2. page = [k \in {j \in 1..n : j <= c} |-> Listed[InOrder(found)[k]]]
  BY DEF index_get_posts
<1>3. c \in Nat
  BY <1>1, PlacesFinite
<1> HIDE DEF c
<1>4. DOMAIN page = {j \in 1..n : j <= c} /\ page = [k \in DOMAIN page |-> page[k]]
      /\ \A k \in DOMAIN page : page[k] = Listed[InOrder(found)[k]]
  BY <1>2
<1>5. {j \in 1..n : j <= c} = 1..m /\ m \in Nat
  BY <1>3
<1> HIDE DEF m
<1>6. Len(page) = m
  BY <1>4, <1>5, LenIs
<1> QED BY <1>1, <1>3, <1>4, <1>5, <1>6 DEF c, m

\* A full page is within the tree, and its numbers are those of an int.
LEMMA FullWithin ==
  ASSUME NEW tree, Places(tree), NEW months, NEW k \in Nat, NEW n \in Nat \ {0},
         Len(index_get_posts(tree, months, k * n, n)) = n
  PROVE  /\ (k + 1) * n <= Cardinality(tree) /\ (k + 1) * n \in Nat
         /\ k + 1 <= (k + 1) * n /\ (k + 1) * n <= INT_MAX
<1> DEFINE skip == k * n
           found == Found(tree, months, skip)
           after == AfterSkip(tree, skip)
           c == Cardinality(found)
           C == Cardinality(tree)
<1>1. C \in Nat /\ C <= INT_MAX /\ INT_MAX \in Nat
  BY PlacesFinite, RequestAssumption
<1>2. skip \in Nat /\ (k + 1) * n = skip + n /\ k <= skip
  OBVIOUS
<1>3. c \in Nat /\ n <= c /\ Places(found)
  <2> DEFINE page == index_get_posts(tree, months, skip, n)
  <2>0. found = Found(tree, months, skip) /\ page = index_get_posts(tree, months, skip, n) /\ Len(page) = n
    OBVIOUS
  <2>1. c \in Nat /\ n = (IF c < n THEN c ELSE n) /\ Places(found)
    <3> HIDE DEF found, page, skip
    <3> QED BY <2>0, GetPostsIs
  <2> HIDE DEF c
  <2> QED BY <2>1
<1>4. after \subseteq tree /\ found \subseteq after /\ \A p \in after : Rank(tree, p) >= skip
  BY DEF AfterSkip, Found
<1> HIDE DEF skip, found, after
<1>5. found # {}
  BY <1>3, FS_EmptySet
<1>6. skip <= C
  <2>1. PICK p \in after : TRUE
    BY <1>4, <1>5
  <2>2. Rank(tree, p) \in 0..C - 1
    BY <1>4, RankBelow
  <2> HIDE DEF C
  <2> QED BY <1>1, <1>2, <1>4, <2>2
<1>7. Places(after) /\ Cardinality(after) = C - skip
  BY <1>2, <1>6, AfterSkipRanks DEF after
<1>8. c <= Cardinality(after)
  BY <1>4, <1>7, PlacesFinite, FS_Subset
<1> HIDE DEF c, C
<1>9. skip + n <= C
  BY <1>1, <1>2, <1>3, <1>7, <1>8
<1>10. k + 1 <= skip + n
  BY <1>2
<1>11. (k + 1) * n = skip + n
  BY <1>2
<1>12. skip + n <= INT_MAX /\ skip + n \in Nat
  BY <1>1, <1>2, <1>9
<1> QED BY <1>9, <1>10, <1>11, <1>12 DEF C

\* the posts of a set of places
LEMMA PostsAtIs ==
  ASSUME NEW S, Places(S)
  PROVE  /\ DOMAIN PostsAt(S) = 1..Cardinality(S) /\ Len(PostsAt(S)) = Cardinality(S)
         /\ ToSet(PostsAt(S)) = {Listed[i] : i \in S}
         /\ \A p \in S : PostsAt(S)[Rank(S, p) + 1] = Listed[p]
<1> DEFINE all == PostsAt(S)
           n == Cardinality(S)
<1>1. all = [k \in 1..n |-> Listed[InOrder(S)[k]]] /\ n \in Nat
  BY PlacesFinite DEF PostsAt
<1>2. /\ \A i \in 1..n : InOrder(S)[i] \in S
      /\ \A p \in S : Rank(S, p) + 1 \in 1..n /\ InOrder(S)[Rank(S, p) + 1] = p
  BY InOrderLists
<1> HIDE DEF all, n
<1>3. DOMAIN all = 1..n /\ all = [k \in 1..n |-> all[k]] /\ \A k \in 1..n : all[k] = Listed[InOrder(S)[k]]
  BY <1>1
<1>4. Len(all) = n
  BY <1>1, <1>3, LenIs
<1>5. \A p \in S : Rank(S, p) + 1 \in 1..n /\ all[Rank(S, p) + 1] = Listed[p]
  BY <1>2, <1>3
<1>6. ToSet(all) \subseteq {Listed[i] : i \in S}
  BY <1>2, <1>3 DEF ToSet
<1>7. {Listed[i] : i \in S} \subseteq ToSet(all)
  BY <1>3, <1>5 DEF ToSet
<1> QED BY <1>3, <1>4, <1>5, <1>6, <1>7 DEF all, n

\* the places that a listing shows
Wanted(tree, months) == {i \in tree : Listed[i].month \in months}

LEMMA PageWanted ==
  ASSUME NEW tree, Places(tree), NEW months, NEW skip, NEW n \in Nat
  PROVE  ToSet(index_get_posts(tree, months, skip, n)) \subseteq {Listed[i] : i \in Wanted(tree, months)}
<1> DEFINE found == Found(tree, months, skip)
           page == index_get_posts(tree, months, skip, n)
           c == Cardinality(found)
<1>1. found \subseteq Wanted(tree, months)
  BY DEF Found, AfterSkip, Wanted
<1>2. /\ Places(found) /\ c \in Nat /\ DOMAIN page = 1..Len(page)
      /\ \A k \in DOMAIN page : page[k] = Listed[InOrder(found)[k]]
      /\ Len(page) = IF c < n THEN c ELSE n
  <2>1. found = Found(tree, months, skip) /\ page = index_get_posts(tree, months, skip, n)
    OBVIOUS
  <2> HIDE DEF found, page
  <2> QED BY <2>1, GetPostsIs
<1>3. \A k \in 1..c : InOrder(found)[k] \in found
  BY <1>2, InOrderLists
<1> HIDE DEF found, page, c
<1>5. DOMAIN page \subseteq 1..c
  BY <1>2
<1>4. \A k \in DOMAIN page : page[k] \in {Listed[i] : i \in Wanted(tree, months)}
  BY <1>1, <1>2, <1>3, <1>5
<1> QED BY <1>4 DEF ToSet, page

\* A wanted post is on the page of its place in the tree, and on a page before
\* it that is not full.
LEMMA ShownOn ==
  ASSUME NEW tree, Places(tree), NEW months, NEW p \in Wanted(tree, months),
         NEW skip \in Nat, skip <= Rank(tree, p), NEW n \in Nat,
         \/ Rank(tree, p) < skip + n
         \/ Len(index_get_posts(tree, months, skip, n)) # n
  PROVE  Listed[p] \in ToSet(index_get_posts(tree, months, skip, n))
<1> DEFINE found == Found(tree, months, skip)
           after == AfterSkip(tree, skip)
           page == index_get_posts(tree, months, skip, n)
           c == Cardinality(found)
           C == Cardinality(tree)
           x == Rank(found, p)
<1>1. p \in tree /\ p \in after /\ p \in found /\ found \subseteq after
  BY DEF Wanted, Found, AfterSkip
<1>2. /\ Places(found) /\ c \in Nat /\ DOMAIN page = 1..Len(page)
      /\ \A k \in DOMAIN page : page[k] = Listed[InOrder(found)[k]]
      /\ Len(page) = IF c < n THEN c ELSE n
  <2>1. found = Found(tree, months, skip) /\ page = index_get_posts(tree, months, skip, n)
    OBVIOUS
  <2> HIDE DEF found, page
  <2> QED BY <2>1, GetPostsIs
<1>3. Rank(tree, p) \in 0..C - 1 /\ C \in Nat
  BY <1>1, RankBelow, PlacesFinite
<1>4. skip <= C
  <2> HIDE DEF C
  <2> QED BY <1>3
<1>5. Places(after) /\ Rank(tree, p) = Rank(after, p) + skip
  BY <1>1, <1>4, AfterSkipRanks
<1>6. x \in 0..c - 1 /\ InOrder(found)[x + 1] = p
  BY <1>1, <1>2, RankBelow, InOrderLists
<1>7. x <= Rank(after, p) /\ Rank(after, p) \in Nat
  <2> DEFINE A == {q \in after : q < p}
             B == {q \in found : q < p}
  <2>1. Rank(after, p) = Cardinality(A) /\ x = Cardinality(B) /\ B \subseteq A /\ A \subseteq after
    BY <1>1 DEF Rank
  <2> HIDE DEF A, B
  <2>2. IsFiniteSet(A)
    BY <1>5, <2>1, PlacesFinite, FS_Subset
  <2> QED BY <2>1, <2>2, FS_Subset, FS_CardinalityType
<1> HIDE DEF found, after, c, C, x, page
<1>8. Rank(tree, p) < skip + n \/ Len(page) # n
  BY DEF page
<1>9. x + 1 \in 1..n
  <2>1. x \in Nat /\ x < c
    BY <1>2, <1>6
  <2>2. CASE Rank(tree, p) < skip + n
    BY <1>5, <1>7, <2>1, <2>2
  <2>3. CASE Len(page) # n
    BY <1>2, <2>1, <2>3
  <2> QED BY <1>8, <2>2, <2>3
<1>10. x + 1 \in DOMAIN page
  BY <1>2, <1>6, <1>9
<1> QED BY <1>2, <1>6, <1>10 DEF ToSet, page

\* When a page is not full, each wanted post is on it or on one before it.
LEMMA AllShown ==
  ASSUME NEW tree, Places(tree), NEW months, NEW n \in Nat \ {0}, NEW last \in Nat,
         Len(index_get_posts(tree, months, last * n, n)) # n, NEW p \in Wanted(tree, months)
  PROVE  \E k \in 0..last : Listed[p] \in ToSet(index_get_posts(tree, months, k * n, n))
<1> DEFINE m == Rank(tree, p)
           q == m \div n
<1>1. m \in Nat
  BY RankOrders DEF Wanted
<1> HIDE DEF m
<1>2. q \in Nat /\ q * n <= m /\ m < q * n + n /\ q * n \in Nat
  BY <1>1, DivBounds
<1> HIDE DEF q
<1>3. CASE last * n <= m
  <2>1. last * n \in Nat /\ last \in 0..last
    OBVIOUS
  <2> QED BY <1>3, <2>1, ShownOn DEF m
<1>4. CASE ~(last * n <= m)
  <2>1. q \in 0..last
    <3>1. CASE q <= last
      BY <1>2, <3>1
    <3>2. CASE q > last
      <4>1. PICK d \in Nat : q = last + d
        <5>1. q - last \in Nat /\ q = last + (q - last)
          BY <1>2, <3>2
        <5> QED BY <5>1
      <4>2. q * n = last * n + d * n /\ d * n \in Nat /\ last * n \in Nat
        BY <4>1
      <4> QED BY <1>1, <1>2, <1>4, <4>2
    <3> QED BY <1>2, <3>1, <3>2
  <2>2. Listed[p] \in ToSet(index_get_posts(tree, months, q * n, n))
    BY <1>2, ShownOn DEF m
  <2> QED BY <2>1, <2>2
<1> QED BY <1>3, <1>4

\* a page of the index or of a tag is a stretch of the listing
LEMMA TreePage ==
  ASSUME NEW tree, Places(tree), NEW skip \in Nat, skip <= Cardinality(tree), NEW n \in Nat
  PROVE  index_get_posts(tree, AllMonths, skip, n) = Stretch(PostsAt(tree), skip, n)
<1> DEFINE found == Found(tree, AllMonths, skip)
           after == AfterSkip(tree, skip)
           all == PostsAt(tree)
           page == index_get_posts(tree, AllMonths, skip, n)
           c == Cardinality(found)
           C == Cardinality(tree)
<1>1. found = after /\ after \subseteq tree
  BY DEF Found, AfterSkip, AllMonths, Places
<1>2. /\ Places(found) /\ c \in Nat /\ DOMAIN page = 1..Len(page)
      /\ \A k \in DOMAIN page : page[k] = Listed[InOrder(found)[k]]
      /\ Len(page) = IF c < n THEN c ELSE n
  <2>1. found = Found(tree, AllMonths, skip) /\ page = index_get_posts(tree, AllMonths, skip, n)
    OBVIOUS
  <2> HIDE DEF found, page
  <2> QED BY <2>1, GetPostsIs
<1>3. /\ c = C - skip /\ C \in Nat
      /\ \A p \in after : Rank(tree, p) = Rank(after, p) + skip
  BY <1>1, AfterSkipRanks, PlacesFinite
<1>4. Len(all) = C /\ \A p \in tree : all[Rank(tree, p) + 1] = Listed[p]
  BY PostsAtIs
<1>5. \A k \in 1..c : InOrder(found)[k] \in found /\ Rank(found, InOrder(found)[k]) = k - 1
  BY <1>2, InOrderLists
<1>0. page = [k \in DOMAIN page |-> page[k]]
  BY DEF index_get_posts
<1> HIDE DEF found, after, all, page, c, C
<1>6. DOMAIN page = {j \in 1..n : skip + j <= Len(all)}
  <2>1. DOMAIN page = {j \in 1..n : j <= c}
    BY <1>2
  <2> QED BY <1>3, <1>4, <2>1
<1>7. ASSUME NEW k \in DOMAIN page PROVE page[k] = all[skip + k]
  <2> DEFINE p == InOrder(found)[k]
  <2>1. k \in 1..c /\ k \in Nat
    BY <1>2
  <2>2. p \in tree /\ p \in after /\ Rank(found, p) = k - 1
    BY <1>1, <1>5, <2>1
  <2>3. Rank(tree, p) = (k - 1) + skip
    BY <1>1, <1>3, <2>2
  <2>4. Rank(tree, p) + 1 = skip + k
    BY <2>1, <2>3
  <2>5. page[k] = Listed[p]
    BY <1>2
  <2> HIDE DEF p
  <2> QED BY <1>4, <2>2, <2>4, <2>5
<1>8. page = Stretch(all, skip, n)
  BY <1>0, <1>6, <1>7 DEF Stretch
<1> QED BY <1>8 DEF page, all

-----------------------------------------------------------------------------
(* Variables in scopes *)

\* a template finds val under the name
Bound(r, name, val) ==
  \E i \in DOMAIN r.vars :
    /\ name \in DOMAIN r.vars[i] /\ r.vars[i][name] = val
    /\ \A j \in DOMAIN r.vars : j > i => name \notin DOMAIN r.vars[j]

LEMMA BoundFound ==
  ASSUME NEW r, WF(r), NEW name, NEW val, Bound(r, name, val)
  PROVE  vars_lookup(r, name) = val
<1>1. PICK i \in DOMAIN r.vars :
        /\ name \in DOMAIN r.vars[i] /\ r.vars[i][name] = val
        /\ \A j \in DOMAIN r.vars : j > i => name \notin DOMAIN r.vars[j]
  BY DEF Bound
<1>2. DOMAIN r.vars = 1..Len(r.vars) /\ Len(r.vars) \in Nat
  <2>1. PICK S : r.vars \in Seq(S)
    BY DEF WF, Scopes
  <2> QED BY <2>1
<1>3. ASSUME NEW k \in DOMAIN r.vars, name \in DOMAIN r.vars[k],
             \A j \in DOMAIN r.vars : j > k => name \notin DOMAIN r.vars[j]
      PROVE  k = i
  BY <1>1, <1>2, <1>3
<1>4. i = CHOOSE k \in DOMAIN r.vars :
            /\ name \in DOMAIN r.vars[k]
            /\ \A j \in DOMAIN r.vars : j > k => name \notin DOMAIN r.vars[j]
  BY <1>1, <1>3
<1> QED BY <1>1, <1>4 DEF vars_lookup

LEMMA SetBinds ==
  ASSUME NEW r, WF(r), NEW name, NEW val
  PROVE  /\ WF(vars_set(r, name, val)) /\ Bound(vars_set(r, name, val), name, val)
         /\ \A other, v : other # name /\ Bound(r, other, v) => Bound(vars_set(r, name, val), other, v)
<1> DEFINE q == vars_set(r, name, val)
           last == Len(r.vars)
<1>1. /\ WF(q) /\ Len(q.vars) = last /\ DOMAIN q.vars = DOMAIN r.vars /\ last \in DOMAIN r.vars
      /\ DOMAIN q.vars[last] = DOMAIN r.vars[last] \cup {name} /\ q.vars[last][name] = val
      /\ \A i \in DOMAIN r.vars \ {last} : q.vars[i] = r.vars[i]
      /\ \A n \in DOMAIN r.vars[last] \ {name} : q.vars[last][n] = r.vars[last][n]
  BY VarSet
<1>2. DOMAIN r.vars = 1..last /\ last \in Nat
  <2>1. PICK S : r.vars \in Seq(S)
    BY DEF WF, Scopes
  <2> QED BY <2>1
<1> HIDE DEF q, last
<1>3. Bound(q, name, val)
  <2>1. \A j \in DOMAIN q.vars : ~(j > last)
    BY <1>1, <1>2
  <2>2. last \in DOMAIN q.vars /\ name \in DOMAIN q.vars[last]
    BY <1>1
  <2> QED BY <1>1, <2>1, <2>2 DEF Bound
<1>4. ASSUME NEW other, NEW v, other # name, Bound(r, other, v) PROVE Bound(q, other, v)
  <2>1. PICK i \in DOMAIN r.vars :
          /\ other \in DOMAIN r.vars[i] /\ r.vars[i][other] = v
          /\ \A j \in DOMAIN r.vars : j > i => other \notin DOMAIN r.vars[j]
    BY <1>4 DEF Bound
  <2>2. \A j \in DOMAIN q.vars : other \in DOMAIN q.vars[j] <=> other \in DOMAIN r.vars[j]
    BY <1>1, <1>4
  <2>3. q.vars[i][other] = v
    BY <1>1, <1>4, <2>1
  <2> QED BY <1>1, <2>1, <2>2, <2>3 DEF Bound
<1> QED BY <1>1, <1>3, <1>4 DEF q

LEMMA PushBinds ==
  ASSUME NEW r, WF(r)
  PROVE  /\ WF(vars_scope_push(r))
         /\ \A name, v : Bound(r, name, v) => Bound(vars_scope_push(r), name, v)
<1> DEFINE q == vars_scope_push(r)
           new == [n \in {} |-> 0]
           last == Len(r.vars)
<1>1. q.vars = Append(r.vars, new)
  BY DEF vars_scope_push, WF, Fields
<1>2. PICK S : r.vars \in Seq(S)
  BY DEF WF, Scopes
<1>3. r.vars \in Seq(S \cup {new}) /\ last \in Nat
  BY <1>2
<1>4. /\ \A i \in 1..last : q.vars[i] = r.vars[i]
      /\ q.vars[last + 1] = new
      /\ DOMAIN q.vars = 1..(last + 1) /\ DOMAIN r.vars = 1..last
  BY <1>1, <1>3
<1>5. WF(q)
  BY PushSame DEF Same
<1>6. DOMAIN new = {}
  OBVIOUS
<1> HIDE DEF new, q, last
<1>7. ASSUME NEW name, NEW v, Bound(r, name, v) PROVE Bound(q, name, v)
  <2>1. PICK i \in DOMAIN r.vars :
          /\ name \in DOMAIN r.vars[i] /\ r.vars[i][name] = v
          /\ \A j \in DOMAIN r.vars : j > i => name \notin DOMAIN r.vars[j]
    BY <1>7 DEF Bound
  <2>2. i \in DOMAIN q.vars /\ q.vars[i] = r.vars[i]
    BY <1>3, <1>4
  <2>3. \A j \in DOMAIN q.vars : j > i => name \notin DOMAIN q.vars[j]
    BY <1>3, <1>4, <1>6, <2>1
  <2> QED BY <2>1, <2>2, <2>3 DEF Bound
<1> QED BY <1>5, <1>7 DEF q

PageVars == {"posts", "moreposts", "curpage", "prevpage", "nextpage"}

\* the templates find the posts of a page, and what leads to its neighbours
OnPage(r, page, posts, n) ==
  /\ Bound(r, "posts", posts) /\ Bound(r, "moreposts", IF Len(posts) = n THEN 1 ELSE 0)
  /\ Bound(r, "curpage", page) /\ Bound(r, "nextpage", U64(page - 1))
  /\ page # INT_MAX => Bound(r, "prevpage", page + 1)

\* the variables of a listing's page
LEMMA ListingVars ==
  ASSUME NEW r, WF(r), NEW page, NEW q \in store_pages(r, page), NEW tree, NEW months,
         NEW b, b = LoadPosts(vars_scope_push(q), tree, months, page), NEW n, n = r.index_stories,
         NEW skip, skip = (page * n) % UIntSize, NEW posts, posts = index_get_posts(tree, months, skip, n)
  PROVE  /\ WF(b) /\ Kept(r, b) /\ OnPage(b, page, posts, n)
         /\ \A name, v : name \notin PageVars /\ Bound(r, name, v) => Bound(b, name, v)
<1>1. PICK prev : /\ q = vars_set(vars_set(vars_set(r, "prevpage", prev), "curpage", page), "nextpage", U64(page - 1))
                  /\ page # INT_MAX => prev = page + 1
  BY DEF store_pages
<1> DEFINE x == vars_set(r, "prevpage", prev)
           y == vars_set(x, "curpage", page)
           z == vars_scope_push(q)
           w == vars_set(z, "posts", posts)
           more == IF Len(posts) = n THEN 1 ELSE 0
           next == U64(page - 1)
<1>2. Kept(r, b) /\ Kept(r, q)
  BY ListingKept, StorePagesKept DEF WF
<1>3. Kept(q, z)
  BY <1>2, PushKept DEF Kept
<1>4. b = vars_set(w, "moreposts", more)
  BY <1>2, <1>3 DEF LoadPosts, Kept
<1> HIDE DEF more, next
<1>5. WF(x) /\ Bound(x, "prevpage", prev) /\ \A m, v : m # "prevpage" /\ Bound(r, m, v) => Bound(x, m, v)
  BY SetBinds
<1> HIDE DEF x
<1>6. WF(y) /\ Bound(y, "curpage", page) /\ \A m, v : m # "curpage" /\ Bound(x, m, v) => Bound(y, m, v)
  BY <1>5, SetBinds
<1> HIDE DEF y
<1>7. WF(q) /\ Bound(q, "nextpage", next) /\ \A m, v : m # "nextpage" /\ Bound(y, m, v) => Bound(q, m, v)
  BY <1>1, <1>6, SetBinds DEF x, y, next
<1>8. WF(z) /\ \A m, v : Bound(q, m, v) => Bound(z, m, v)
  BY <1>7, PushBinds
<1> HIDE DEF z
<1>9. WF(w) /\ Bound(w, "posts", posts) /\ \A m, v : m # "posts" /\ Bound(z, m, v) => Bound(w, m, v)
  BY <1>8, SetBinds
<1> HIDE DEF w
<1>10. WF(b) /\ Bound(b, "moreposts", more) /\ \A m, v : m # "moreposts" /\ Bound(w, m, v) => Bound(b, m, v)
  BY <1>4, <1>9, SetBinds
<1>11. Bound(b, "posts", posts) /\ Bound(b, "curpage", page) /\ Bound(b, "nextpage", next) /\ Bound(b, "prevpage", prev)
  BY <1>5, <1>6, <1>7, <1>8, <1>9, <1>10
<1>12. \A m, v : m \notin PageVars /\ Bound(r, m, v) => Bound(b, m, v)
  BY <1>5, <1>6, <1>7, <1>8, <1>9, <1>10 DEF PageVars
<1>13. OnPage(b, page, posts, n)
  BY <1>1, <1>10, <1>11 DEF OnPage, more, next
<1> QED BY <1>2, <1>10, <1>12, <1>13

-----------------------------------------------------------------------------
(* The walk *)

\* the tree and the months of the listing that a request asks for
TreeOf(r) == IF select_page(r) = "TAG" THEN ByTag(r.query.tag) ELSE ByTime
MonthsOf(r) == IF select_page(r) = "ARCHIVE" THEN Months(get_arch_id(r)) ELSE AllMonths

\* the k-th page of that listing, from 0
PageAt(r, k) == index_get_posts(TreeOf(r), MonthsOf(r), k * html_index_stories, html_index_stories)

Asking(link) == [query |-> link]

\* the link is to the k-th page of the listing
LeadsTo(r, link, k) ==
  /\ TreeOf(Asking(link)) = TreeOf(r) /\ MonthsOf(Asking(link)) = MonthsOf(r)
  /\ get_page_number(Asking(link)) = k /\ Survives(link)

\* a reader who is where the page number says, past full pages of the listing
Trail(r) ==
  /\ Survives(r.query) /\ get_page_number(r) = Len(r.trail)
  /\ r.trail \in Seq({PageAt(r, k) : k \in Nat})
  /\ \A k \in 1..Len(r.trail) : r.trail[k] = PageAt(r, k - 1) /\ Len(r.trail[k]) = html_index_stories

PagerTemplates == [INDEX |-> "index", TAG |-> "tagindex", ARCHIVE |-> "archive"]

\* what a page shows to a reader who is there, and where its links lead
Signposted(r) ==
  /\ select_page(r) \in DOMAIN PagerTemplates /\ r.body.tmpl = PagerTemplates[select_page(r)]
  /\ r.body.posts = PageAt(r, Len(r.trail))
  /\ Older(r) = {} <=> Len(r.body.posts) # html_index_stories
  /\ Newer(r) = {} <=> Len(r.trail) = 0
  /\ \A link \in Older(r) : LeadsTo(r, link, Len(r.trail) + 1)
  /\ \A link \in Newer(r) : LeadsTo(r, link, Len(r.trail) - 1)

Links(r) ==
  r.body.kind = "page" =>
    IF HasPager(r, r.body.tmpl) THEN Signposted(r) ELSE Older(r) = {} /\ Newer(r) = {}

\* all of this is read off the query
LEMMA SameQuery ==
  ASSUME NEW r, NEW q, q.query = r.query
  PROVE  /\ select_page(q) = select_page(r) /\ get_page_number(q) = get_page_number(r)
         /\ get_arch_id(q) = get_arch_id(r) /\ TreeOf(q) = TreeOf(r) /\ MonthsOf(q) = MonthsOf(r)
         /\ \A k : PageAt(q, k) = PageAt(r, k)
<1>1. select_page(q) = select_page(r)
  BY DEF select_page, UriType
<1>2. get_page_number(q) = get_page_number(r) /\ get_arch_id(q) = get_arch_id(r)
  BY DEF get_page_number, get_arch_id, HasInt
<1>3. TreeOf(q) = TreeOf(r) /\ MonthsOf(q) = MonthsOf(r)
  BY <1>1, <1>2 DEF TreeOf, MonthsOf
<1> QED BY <1>1, <1>2, <1>3 DEF PageAt

LEMMA WalkerTrail ==
  ASSUME NEW r, NEW q, Walker(r, q), Trail(r)
  PROVE  Trail(q)
<1>1. get_page_number(q) = get_page_number(r) /\ \A k : PageAt(q, k) = PageAt(r, k)
  BY SameQuery DEF Walker
<1>2. {PageAt(q, k) : k \in Nat} = {PageAt(r, k) : k \in Nat}
  BY <1>1
<1> QED BY <1>1, <1>2 DEF Trail, Walker

LEMMA TreePlaces == ASSUME NEW r PROVE Places(TreeOf(r))
BY DEF TreeOf, ByTag, ByTime, Places

LEMMA StoriesPositive == html_index_stories \in Nat \ {0} /\ INT_MAX \in Nat
BY RequestAssumption

\* A reader does not get beyond the tree.
LEMMA TrailWithin ==
  ASSUME NEW r, Trail(r)
  PROVE  LET K == Len(r.trail) n == html_index_stories
         IN /\ K \in Nat /\ K * n \in Nat /\ K <= INT_MAX /\ K * n <= Cardinality(TreeOf(r))
            /\ (K * n) % UIntSize = K * n
<1> DEFINE K == Len(r.trail)
           n == html_index_stories
           C == Cardinality(TreeOf(r))
<1>1. K \in Nat /\ n \in Nat \ {0} /\ C \in Nat /\ INT_MAX \in Nat
  BY TreePlaces, PlacesFinite, StoriesPositive DEF Trail
<1>2. \A k \in 1..K : Len(PageAt(r, k - 1)) = n
  BY DEF Trail
<1> HIDE DEF K, n, C
<1>3. K * n \in Nat /\ K * n <= C /\ K * n <= INT_MAX /\ K <= INT_MAX
  <2>1. CASE K = 0
    BY <1>1, <2>1
  <2>2. CASE K # 0
    <3> DEFINE k == K - 1
    <3>1. k \in Nat /\ k + 1 = K /\ K \in 1..K
      BY <1>1, <2>2
    <3> HIDE DEF k
    <3>2. Len(index_get_posts(TreeOf(r), MonthsOf(r), k * n, n)) = n
      <4>1. Len(PageAt(r, k)) = n
        BY <1>2, <3>1 DEF k
      <4> QED BY <4>1 DEF PageAt, n
    <3>3. /\ (k + 1) * n <= C /\ (k + 1) * n \in Nat
          /\ k + 1 <= (k + 1) * n /\ (k + 1) * n <= INT_MAX
      BY <1>1, <3>1, <3>2, TreePlaces, FullWithin DEF C
    <3>4. K * n <= C /\ K * n \in Nat /\ K <= K * n /\ K * n <= INT_MAX
      BY <3>1, <3>3
    <3> QED BY <1>1, <3>4
  <2> QED BY <2>1, <2>2
<1>4. UIntSize \in Nat /\ K * n < UIntSize
  BY <1>1, <1>3, RequestAssumption
<1>5. \A a \in Nat, u \in Nat : a < u => a % u = a
  OBVIOUS
<1>6. (K * n) % UIntSize = K * n
  <2> DEFINE a == K * n
  <2>1. a \in Nat /\ a < UIntSize
    BY <1>3, <1>4
  <2> HIDE DEF a
  <2>2. a % UIntSize = a
    BY <1>4, <1>5, <2>1
  <2> QED BY <2>2 DEF a
<1> QED BY <1>1, <1>3, <1>6 DEF K, n, C

\* a page without a pager
LEMMA UnpagedLinks ==
  ASSUME NEW r, Fields \subseteq DOMAIN r, NEW tmpl, ~HasPager(r, tmpl)
  PROVE  Links(render_page(r, tmpl)) /\ Walker(r, render_page(r, tmpl))
<1> DEFINE q == render_page(r, tmpl)
<1>1. /\ q.fmt = r.fmt /\ q.query = r.query /\ q.walks = r.walks /\ q.trail = r.trail
      /\ q.body.kind = "page" /\ q.body.tmpl = tmpl /\ q.body.older = {} /\ q.body.newer = {}
  BY DEF render_page, Fields
<1> HIDE DEF q
<1>2. ~HasPager(q, tmpl)
  BY <1>1 DEF HasPager
<1>3. Links(q) /\ Walker(r, q)
  BY <1>1, <1>2 DEF Links, Older, Newer, Walker
<1> QED BY <1>3 DEF q

\* The links lead to the neighbours, as the page numbers are those of an int.
LEMMA PagedLinks ==
  ASSUME NEW r, Trail(r), NEW tmpl, NEW b, Fields \subseteq DOMAIN b, Walker(r, b), b.fmt = "html",
         select_page(r) \in DOMAIN PagerTemplates, tmpl = PagerTemplates[select_page(r)],
         NEW posts, posts = vars_lookup(b, "posts"), posts = PageAt(r, get_page_number(r)),
         vars_lookup(b, "moreposts") = IF Len(posts) = html_index_stories THEN 1 ELSE 0,
         NEW page, page = get_page_number(r), vars_lookup(b, "curpage") = page,
         page # INT_MAX => vars_lookup(b, "prevpage") = page + 1,
         vars_lookup(b, "nextpage") = U64(page - 1),
         \A name \in {"prevpage", "nextpage"} :
           LET link == Link(b, tmpl, name)
           IN /\ TreeOf(Asking(link)) = TreeOf(r) /\ MonthsOf(Asking(link)) = MonthsOf(r)
              /\ "paged" \in DOMAIN link /\ link.paged = vars_lookup(b, name) /\ Survives(link)
  PROVE  Links(render_page(b, tmpl)) /\ Walker(r, render_page(b, tmpl))
<1> DEFINE q == render_page(b, tmpl)
           n == html_index_stories
           older == Link(b, tmpl, "prevpage")
           newer == Link(b, tmpl, "nextpage")
           more == vars_lookup(b, "moreposts")
           cur == vars_lookup(b, "curpage")
<1>1. HasPager(b, tmpl)
  BY DEF HasPager, Paged, PagerTemplates
<1>2. /\ q.fmt = b.fmt /\ q.query = b.query /\ q.walks = b.walks /\ q.trail = b.trail
      /\ q.body.kind = "page" /\ q.body.tmpl = tmpl /\ q.body.posts = posts
      /\ q.body.older = IF more = 1 THEN {older} ELSE {}
      /\ q.body.newer = IF cur > 0 THEN {newer} ELSE {}
  BY <1>1 DEF render_page, Fields
<1>3. /\ page = Len(r.trail) /\ page \in Nat /\ page <= INT_MAX /\ INT_MAX \in Nat /\ n \in Nat \ {0}
  BY TrailWithin, StoriesPositive DEF Trail
<1>4. more = (IF Len(posts) = n THEN 1 ELSE 0) /\ cur = page
  OBVIOUS
<1>5. /\ TreeOf(Asking(older)) = TreeOf(r) /\ MonthsOf(Asking(older)) = MonthsOf(r)
      /\ "paged" \in DOMAIN older /\ (page # INT_MAX => older.paged = page + 1)
      /\ TreeOf(Asking(newer)) = TreeOf(r) /\ MonthsOf(Asking(newer)) = MonthsOf(r)
      /\ "paged" \in DOMAIN newer /\ newer.paged = U64(page - 1)
      /\ Survives(older) /\ Survives(newer)
  OBVIOUS
<1> HIDE DEF q, older, newer, more, cur
<1>6. ASSUME NEW link, "paged" \in DOMAIN link, NEW k \in Nat, k <= INT_MAX, link.paged = k
      PROVE  get_page_number(Asking(link)) = k
  <2>1. Asking(link).query = link /\ k # NotInt
    BY <1>6 DEF Asking, NotInt
  <2> QED BY <1>6, <2>1 DEF get_page_number, HasInt
<1>7. ASSUME Len(posts) = n PROVE LeadsTo(r, older, page + 1)
  <2>1. Len(index_get_posts(TreeOf(r), MonthsOf(r), page * n, n)) = n
    BY <1>7 DEF PageAt
  <2>2. page + 1 <= (page + 1) * n /\ (page + 1) * n <= INT_MAX /\ (page + 1) * n \in Nat
    BY <1>3, <2>1, TreePlaces, FullWithin
  <2> DEFINE prod == (page + 1) * n
  <2>3. page + 1 <= prod /\ prod <= INT_MAX /\ prod \in Nat
    BY <2>2
  <2> HIDE DEF prod, n
  <2>4. page + 1 \in Nat /\ page + 1 <= INT_MAX /\ page # INT_MAX
    BY <1>3, <2>3
  <2> QED BY <1>5, <1>6, <2>4 DEF LeadsTo
<1>8. ASSUME page > 0 PROVE LeadsTo(r, newer, page - 1)
  <2>1. page - 1 \in Nat /\ page - 1 <= INT_MAX
    BY <1>3, <1>8
  <2>2. Word \in Nat /\ page - 1 < Word
    BY <1>3, <2>1, RequestAssumption
  <2>3. U64(page - 1) = page - 1
    BY <2>1, <2>2 DEF U64
  <2> QED BY <1>5, <1>6, <2>1, <2>3 DEF LeadsTo
<1>9. /\ Older(q) = IF Len(posts) = n THEN {older} ELSE {}
      /\ Newer(q) = IF page > 0 THEN {newer} ELSE {}
  BY <1>2, <1>4 DEF Older, Newer
<1>10. Walker(r, q)
  BY <1>2 DEF Walker
<1>11. /\ select_page(q) = select_page(r) /\ TreeOf(q) = TreeOf(r) /\ MonthsOf(q) = MonthsOf(r)
       /\ \A k : PageAt(q, k) = PageAt(r, k)
  BY <1>10, SameQuery DEF Walker
<1>12. q.trail = r.trail /\ q.body.posts = PageAt(q, Len(q.trail))
  BY <1>2, <1>3, <1>10, <1>11 DEF Walker
<1>13. /\ \A link \in Older(q) : LeadsTo(q, link, Len(q.trail) + 1)
       /\ \A link \in Newer(q) : LeadsTo(q, link, Len(q.trail) - 1)
  BY <1>3, <1>7, <1>8, <1>9, <1>11, <1>12 DEF LeadsTo
<1>14. /\ Older(q) = {} <=> Len(q.body.posts) # n
       /\ Newer(q) = {} <=> Len(q.trail) = 0
  BY <1>2, <1>3, <1>9, <1>12
<1>15. Signposted(q)
  BY <1>2, <1>11, <1>12, <1>13, <1>14 DEF Signposted, n
<1>16. HasPager(q, q.body.tmpl)
  BY <1>1, <1>2 DEF HasPager
<1> QED BY <1>10, <1>15, <1>16 DEF Links, q

LEMMA RenderWalker ==
  ASSUME NEW r, Fields \subseteq DOMAIN r, NEW tmpl
  PROVE  Walker(r, render_page(r, tmpl))
BY DEF render_page, Fields, Walker

LEMMA WalkerTrans ==
  ASSUME NEW r, NEW p, NEW q, Walker(r, p), Walker(p, q)
  PROVE  Walker(r, q)
BY DEF Walker

\* a request for a listing is of a page that is no file
LEMMA ListingUri ==
  ASSUME NEW r, select_page(r) \in DOMAIN PagerTemplates
  PROVE  UriType(r.query.uri) # "STATIC"
BY DEF select_page, PagerTemplates

\* The links of a pager ask for the page they are on.
LEMMA LinkSelects ==
  ASSUME NEW link, UriType(link.uri) # "STATIC"
  PROVE  /\ DOMAIN link = {"uri", "paged"} => select_page(Asking(link)) = "INDEX"
         /\ DOMAIN link = {"uri", "tag", "paged"} => select_page(Asking(link)) = "TAG"
         /\ DOMAIN link = {"uri", "m", "paged"} => select_page(Asking(link)) = "ARCHIVE"
<1> DEFINE asked == {i \in DOMAIN PageKeys : PageKeys[i] \in DOMAIN link}
<1>1. Asking(link).query = link
  BY DEF Asking
<1>2. select_page(Asking(link)) = IF asked = {} THEN "INDEX" ELSE PageOf[PageKeys[Min(asked)]]
  BY <1>1 DEF select_page
<1>3. /\ DOMAIN PageKeys = 1..6 /\ PageKeys[1] = "comment" /\ PageKeys[2] = "tag" /\ PageKeys[3] = "cat"
      /\ PageKeys[4] = "m" /\ PageKeys[5] = "p" /\ PageKeys[6] = "admin"
  BY DEF PageKeys
<1>4. \A i \in 1..6 : i = 1 \/ i = 2 \/ i = 3 \/ i = 4 \/ i = 5 \/ i = 6
  OBVIOUS
<1>5. ASSUME NEW i \in Nat PROVE Min({i}) = i
  BY DEF Min
<1>6. ASSUME DOMAIN link = {"uri", "paged"} PROVE select_page(Asking(link)) = "INDEX"
  <2>1. asked = {}
    BY <1>3, <1>4, <1>6
  <2> QED BY <1>2, <2>1
<1>7. ASSUME DOMAIN link = {"uri", "tag", "paged"} PROVE select_page(Asking(link)) = "TAG"
  <2>1. asked = {2}
    BY <1>3, <1>4, <1>7
  <2>2. PageOf["tag"] = "TAG" /\ Min({2}) = 2
    BY <1>5 DEF PageOf
  <2> QED BY <1>2, <1>3, <2>1, <2>2
<1>8. ASSUME DOMAIN link = {"uri", "m", "paged"} PROVE select_page(Asking(link)) = "ARCHIVE"
  <2>1. asked = {4}
    BY <1>3, <1>4, <1>8
  <2>2. PageOf["m"] = "ARCHIVE" /\ Min({4}) = 4
    BY <1>5 DEF PageOf
  <2> QED BY <1>2, <1>3, <2>1, <2>2
<1> QED BY <1>6, <1>7, <1>8

\* A tag page has been asked for with a tag.
LEMMA TagAsked ==
  ASSUME NEW r, select_page(r) = "TAG"
  PROVE  "tag" \in DOMAIN r.query
<1> DEFINE asked == {i \in DOMAIN PageKeys : PageKeys[i] \in DOMAIN r.query}
           least == Min(asked)
<1>1. asked # {} /\ PageOf[PageKeys[least]] = "TAG"
  BY DEF select_page
<1>2. /\ DOMAIN PageKeys = 1..6 /\ PageKeys[1] = "comment" /\ PageKeys[2] = "tag" /\ PageKeys[3] = "cat"
      /\ PageKeys[4] = "m" /\ PageKeys[5] = "p" /\ PageKeys[6] = "admin"
  BY DEF PageKeys
<1>3. least \in asked
  <2>1. asked \subseteq 1..6 /\ asked # {}
    BY <1>1, <1>2
  <2> QED BY <2>1, LeastAsked
<1>4. PageKeys[least] \in {"comment", "tag", "cat", "m", "p", "admin"} /\ PageKeys[least] \in DOMAIN r.query
  BY <1>2, <1>3
<1> HIDE DEF least
<1> QED BY <1>1, <1>4 DEF PageOf

\* The URL leaves such a tag as it is.
LEMMA PlainLink ==
  ASSUME NEW uri, NEW tag, UrlPlain(tag), NEW page
  PROVE  TagLink(uri, tag, page) = [uri |-> uri, tag |-> tag, paged |-> page]
<1>1. tag \in Seq(Characters \ UrlSpecial) /\ Len(tag) \in Nat /\ DOMAIN tag = 1..Len(tag)
  BY DEF UrlPlain
<1>2. \A i \in DOMAIN tag : tag[i] \notin UrlSpecial
  BY <1>1
<1>3. ASSUME NEW ends, ends \subseteq UrlSpecial PROVE Upto(tag, ends) = tag
  <2>1. {i \in DOMAIN tag : tag[i] \in ends} \cup {Len(tag) + 1} = {Len(tag) + 1}
    BY <1>2, <1>3
  <2>2. Min({Len(tag) + 1}) - 1 = Len(tag)
    BY <1>1 DEF Min
  <2>3. SubSeq(tag, 1, Len(tag)) = tag
    BY <1>1
  <2> QED BY <2>1, <2>2, <2>3 DEF Upto
<1>4. Upto(tag, {"quot", "#"}) = tag /\ Upto(tag, {"&"}) = tag
  BY <1>3 DEF UrlSpecial
<1>5. Decoded(tag) = tag
  <2>1. \A i \in DOMAIN tag : tag[i] # "+" /\ tag[i] # "%2B"
    BY <1>2 DEF UrlSpecial
  <2>2. Decoded(tag) = [i \in DOMAIN tag |-> tag[i]]
    BY <2>1 DEF Decoded
  <2> QED BY <1>1, <2>2
<1>6. {j \in 1..(Len(tag) - 1) : tag[j] = "&"} = {}
  <2>1. \A j \in 1..(Len(tag) - 1) : j \in DOMAIN tag
    BY <1>1
  <2> QED BY <1>2, <2>1 DEF UrlSpecial
<1>7. TagLink(uri, tag, page) =
        [n \in {"uri", "tag"} \cup {"paged"} \cup {} |->
           CASE n = "uri" -> uri
             [] n = "tag" -> tag
             [] n = "paged" -> page
             [] n \in {"m", "p", "preview"} -> NotInt
             [] OTHER -> ""]
  <2>1. {tag[i + 1] : i \in {j \in 1..(Len(tag) - 1) : tag[j] = "&"}} = {}
    BY <1>6
  <2> QED BY <1>4, <1>5, <2>1 DEF TagLink
<1> QED BY <1>7

\* An archive's link has the id that the page is of.
LEMMA ArchiveId ==
  ASSUME NEW r, NEW link, "m" \in DOMAIN link, link.m = get_arch_id(r)
  PROVE  get_arch_id(Asking(link)) = get_arch_id(r)
<1> DEFINE id == get_arch_id(r)
<1>1. valid_arch_id(id)
  <2>1. 197001 \div 100 = 1970 /\ 197001 % 100 = 1
    OBVIOUS
  <2>2. valid_arch_id(197001)
    BY <2>1 DEF valid_arch_id
  <2> QED BY <2>2 DEF get_arch_id
<1>2. id # NotInt
  <2>1. ~((0 - 1) \div 100 >= 1970)
    OBVIOUS
  <2>2. ~valid_arch_id(0 - 1)
    BY <2>1 DEF valid_arch_id
  <2>3. NotInt = 0 - 1
    BY DEF NotInt
  <2> HIDE DEF id
  <2> QED BY <1>1, <2>2, <2>3
<1> HIDE DEF id
<1>3. Asking(link).query = link /\ link.m = id
  BY DEF Asking, id
<1>4. get_arch_id(Asking(link)) = id
  BY <1>1, <1>2, <1>3 DEF get_arch_id, HasInt
<1> QED BY <1>4 DEF id

\* the page that a reader asks for is read from the place its number says
LEMMA PageRead ==
  ASSUME NEW r, Trail(r), NEW page, page = get_page_number(r), NEW n, n = html_index_stories,
         NEW skip, skip = (page * n) % UIntSize
  PROVE  index_get_posts(TreeOf(r), MonthsOf(r), skip, n) = PageAt(r, page)
<1>1. (page * n) % UIntSize = page * n
  BY TrailWithin DEF Trail
<1> QED BY <1>1 DEF PageAt

\* the pager's links are for the listing that r asks for
Returns(r, b, tmpl) ==
  \A name \in {"prevpage", "nextpage"} :
    LET link == Link(b, tmpl, name)
    IN /\ TreeOf(Asking(link)) = TreeOf(r) /\ MonthsOf(Asking(link)) = MonthsOf(r)
       /\ "paged" \in DOMAIN link /\ link.paged = vars_lookup(b, name) /\ Survives(link)

\* A page of a listing, b being the request when its template is rendered.
LEMMA PagerWalks ==
  ASSUME NEW r, Plain(r), NEW b, WF(b), Kept(r, b), NEW tmpl,
         select_page(r) \in DOMAIN PagerTemplates, tmpl = PagerTemplates[select_page(r)],
         NEW page, page = get_page_number(r), NEW n, n = r.index_stories,
         NEW skip, skip = (page * n) % UIntSize,
         NEW posts, posts = index_get_posts(TreeOf(r), MonthsOf(r), skip, n),
         OnPage(b, page, posts, n), Trail(r) => Returns(r, b, tmpl), NEW q, q = render_page(b, tmpl)
  PROVE  Walker(r, q) /\ (Trail(r) => Links(q))
<1>1. Plain(b) /\ Walker(r, b) /\ Fields \subseteq DOMAIN b
  BY KeptPlain DEF Kept
<1>2. Walker(r, q)
  BY <1>1, RenderWalker, WalkerTrans
<1>3. CASE b.fmt # "html"
  <2>1. ~HasPager(b, tmpl)
    BY <1>3 DEF HasPager
  <2> QED BY <1>1, <1>2, <2>1, UnpagedLinks
<1>4. ASSUME b.fmt = "html", Trail(r) PROVE Links(q)
  <2>1. n = html_index_stories
    BY <1>4 DEF Plain, Kept
  <2>2. posts = PageAt(r, page)
    BY <1>4, <2>1, PageRead
  <2>3. /\ vars_lookup(b, "posts") = posts
        /\ vars_lookup(b, "moreposts") = (IF Len(posts) = html_index_stories THEN 1 ELSE 0)
        /\ vars_lookup(b, "curpage") = page /\ vars_lookup(b, "nextpage") = U64(page - 1)
        /\ page # INT_MAX => vars_lookup(b, "prevpage") = page + 1
    BY <2>1, BoundFound DEF OnPage
  <2>4. Links(render_page(b, tmpl))
    BY <1>1, <1>4, <2>2, <2>3, PagedLinks DEF Returns
  <2> QED BY <2>4
<1> QED BY <1>2, <1>3, <1>4

LEMMA IndexWalks ==
  ASSUME NEW r, Plain(r), WF(r), select_page(r) = "INDEX", NEW q \in blahg_index(r)
  PROVE  Walker(r, q) /\ (Trail(r) => Links(q))
<1> DEFINE page == get_page_number(r)
           a == vars_set(r, "title", [ref |-> None])
           n == r.index_stories
           skip == (page * n) % UIntSize
           posts == index_get_posts(ByTime, AllMonths, skip, n)
<1>1. PICK s \in store_pages(a, page) :
        q = render_page(LoadPosts(vars_scope_push(s), ByTime, AllMonths, page), "index")
  BY DEF blahg_index
<1> DEFINE b == LoadPosts(vars_scope_push(s), ByTime, AllMonths, page)
<1>2. Kept(r, a) /\ WF(a)
  BY SetKept, SetBinds DEF Plain
<1>3. page = get_page_number(r) /\ n = a.index_stories /\ n = r.index_stories
      /\ skip = (page * n) % UIntSize /\ posts = index_get_posts(ByTime, AllMonths, skip, n)
      /\ b = LoadPosts(vars_scope_push(s), ByTime, AllMonths, page)
  BY <1>2 DEF Kept
<1> HIDE DEF a, page, n, skip, posts, b
<1>4. WF(b) /\ Kept(a, b) /\ OnPage(b, page, posts, n)
  BY <1>1, <1>2, <1>3, ListingVars
<1>5. Kept(r, b)
  BY <1>2, <1>4, KeptTrans
<1>6. TreeOf(r) = ByTime /\ MonthsOf(r) = AllMonths
  BY DEF TreeOf, MonthsOf
<1>7. ASSUME NEW name \in {"prevpage", "nextpage"}
      PROVE  LET link == Link(b, "index", name)
             IN /\ TreeOf(Asking(link)) = TreeOf(r) /\ MonthsOf(Asking(link)) = MonthsOf(r)
                /\ "paged" \in DOMAIN link /\ link.paged = vars_lookup(b, name) /\ Survives(link)
  <2> DEFINE link == Link(b, "index", name)
  <2>1. link = [uri |-> r.query.uri, paged |-> vars_lookup(b, name)]
    BY <1>5 DEF Link, Kept
  <2>2. /\ DOMAIN link = {"uri", "paged"} /\ link.uri = r.query.uri /\ link.paged = vars_lookup(b, name)
        /\ Survives(link)
    BY <2>1 DEF Survives
  <2> HIDE DEF link
  <2>3. select_page(Asking(link)) = "INDEX"
    BY <2>2, ListingUri, LinkSelects DEF PagerTemplates
  <2>4. TreeOf(Asking(link)) = ByTime /\ MonthsOf(Asking(link)) = AllMonths
    BY <2>3 DEF TreeOf, MonthsOf
  <2> QED BY <1>6, <2>2, <2>4 DEF link
<1>8. select_page(r) \in DOMAIN PagerTemplates /\ PagerTemplates[select_page(r)] = "index"
  BY DEF PagerTemplates
<1>9. Returns(r, b, "index") /\ q = render_page(b, "index")
  BY <1>1, <1>3, <1>7 DEF Returns
<1> QED BY <1>3, <1>4, <1>5, <1>6, <1>8, <1>9, PagerWalks

LEMMA ArchiveWalks ==
  ASSUME NEW r, Plain(r), WF(r), select_page(r) = "ARCHIVE", r.fmt = "html", NEW q \in blahg_archive(r)
  PROVE  Walker(r, q) /\ (Trail(r) => Links(q))
<1> DEFINE page == get_page_number(r)
           id == get_arch_id(r)
           months == Months(id)
           h == req_head(r, "Content-Type", "text/html")
           x == vars_set(h, "title", [ref |-> None])
           a == vars_set(x, "archid", id)
           n == r.index_stories
           skip == (page * n) % UIntSize
           posts == index_get_posts(ByTime, months, skip, n)
<1>1. PICK s \in store_pages(a, page) :
        q = render_page(LoadPosts(vars_scope_push(s), ByTime, months, page), "archive")
  BY DEF blahg_archive
<1> DEFINE b == LoadPosts(vars_scope_push(s), ByTime, months, page)
<1>2. WF(h) /\ Plain(h) /\ Walker(r, h) /\ h.index_stories = n /\ Fields \subseteq DOMAIN h
  BY HeadSame, HeadFields, HtmlPlain DEF Same, Plain
<1> HIDE DEF h
<1>3. Kept(h, x) /\ WF(x)
  BY <1>2, SetKept, SetBinds
<1> HIDE DEF x
<1>4. Kept(x, a) /\ WF(a) /\ Bound(a, "archid", id)
  BY <1>3, SetKept, SetBinds DEF Kept
<1>5. page = get_page_number(r) /\ n = a.index_stories /\ n = r.index_stories /\ months = Months(id)
      /\ skip = (page * n) % UIntSize /\ posts = index_get_posts(ByTime, months, skip, n)
      /\ b = LoadPosts(vars_scope_push(s), ByTime, months, page) /\ id = get_arch_id(r)
  BY <1>2, <1>3, <1>4 DEF Kept
<1> HIDE DEF a, page, n, skip, posts, months, b, id
<1>6. WF(b) /\ Kept(a, b) /\ OnPage(b, page, posts, n)
  BY <1>1, <1>4, <1>5, ListingVars
<1>7. vars_lookup(b, "archid") = id
  <2>1. "archid" \notin PageVars
    BY DEF PageVars
  <2>2. Bound(b, "archid", id)
    BY <1>1, <1>4, <1>5, <2>1, ListingVars
  <2> QED BY <1>6, <2>2, BoundFound
<1>8. Kept(h, b)
  BY <1>3, <1>4, <1>6, KeptTrans
<1>9. b.query = r.query /\ h.query = r.query
  BY <1>2, <1>8 DEF Kept, Walker
<1>10. TreeOf(r) = ByTime /\ MonthsOf(r) = months
  BY <1>5 DEF TreeOf, MonthsOf
<1>11. ASSUME NEW name \in {"prevpage", "nextpage"}
       PROVE  LET link == Link(b, "archive", name)
              IN /\ TreeOf(Asking(link)) = TreeOf(r) /\ MonthsOf(Asking(link)) = MonthsOf(r)
                 /\ "paged" \in DOMAIN link /\ link.paged = vars_lookup(b, name) /\ Survives(link)
  <2> DEFINE link == Link(b, "archive", name)
  <2>1. link = [uri |-> r.query.uri, m |-> id, paged |-> vars_lookup(b, name)]
    BY <1>7, <1>9 DEF Link
  <2>2. /\ DOMAIN link = {"uri", "m", "paged"} /\ link.uri = r.query.uri /\ link.m = id
        /\ link.paged = vars_lookup(b, name) /\ Survives(link)
    BY <2>1 DEF Survives
  <2> HIDE DEF link
  <2>3. select_page(Asking(link)) = "ARCHIVE"
    BY <2>2, ListingUri, LinkSelects DEF PagerTemplates
  <2>4. get_arch_id(Asking(link)) = id
    BY <1>5, <2>2, ArchiveId
  <2>5. TreeOf(Asking(link)) = ByTime /\ MonthsOf(Asking(link)) = months
    BY <1>5, <2>3, <2>4 DEF TreeOf, MonthsOf
  <2> QED BY <1>10, <2>2, <2>5 DEF link
<1>12. /\ select_page(h) = select_page(r) /\ get_page_number(h) = get_page_number(r)
       /\ TreeOf(h) = TreeOf(r) /\ MonthsOf(h) = MonthsOf(r)
  BY <1>9, SameQuery
<1>13. select_page(h) \in DOMAIN PagerTemplates /\ PagerTemplates[select_page(h)] = "archive"
  BY <1>12 DEF PagerTemplates
<1>14. Returns(h, b, "archive") /\ q = render_page(b, "archive")
  BY <1>1, <1>5, <1>11, <1>12 DEF Returns
<1>15. Walker(h, q) /\ (Trail(h) => Links(q))
  BY <1>2, <1>5, <1>6, <1>8, <1>10, <1>12, <1>13, <1>14, PagerWalks
<1> QED BY <1>2, <1>15, WalkerTrans, WalkerTrail

LEMMA TagWalks ==
  ASSUME NEW r, Plain(r), WF(r), select_page(r) = "TAG", r.fmt = "html", NEW q \in blahg_tag(r)
  PROVE  Walker(r, q) /\ (Trail(r) => Links(q))
<1> DEFINE page == get_page_number(r)
           tree == ByTag(r.query.tag)
           g1 == Get(r, "tag")
           g2 == Get(g1, "tag")
           g3 == Get(g2, "tag")
           h == req_head(g3, "Content-Type", "text/html")
           x == vars_set(h, "title", [ref |-> "tag"])
           a == vars_set(x, "tagid", [ref |-> "tag"])
           n == r.index_stories
           skip == (page * n) % UIntSize
           posts == index_get_posts(tree, AllMonths, skip, n)
<1>1. PICK s \in store_pages(a, page) :
        q = render_page(Put(LoadPosts(vars_scope_push(s), tree, AllMonths, page), "tag"), "tagindex")
  BY DEF blahg_tag
<1> DEFINE b == LoadPosts(vars_scope_push(s), tree, AllMonths, page)
           p == Put(b, "tag")
<1>2. "tag" \in Strings
  BY DEF Strings
<1>3. Kept(r, g3) /\ WF(g3)
  <2>1. Kept(r, g1) /\ WF(g1)
    BY <1>2, GetOwes, RefKept DEF Owing, Plain
  <2> HIDE DEF g1
  <2>2. Kept(g1, g2) /\ WF(g2)
    BY <1>2, <2>1, GetOwes, RefKept DEF Owing, Kept
  <2> HIDE DEF g2
  <2>3. Kept(g2, g3) /\ WF(g3)
    BY <1>2, <2>2, GetOwes, RefKept DEF Owing, Kept
  <2> HIDE DEF g3
  <2> QED BY <2>1, <2>2, <2>3, KeptTrans
<1> HIDE DEF g3
<1>4. WF(h) /\ Plain(h) /\ Walker(r, h) /\ h.index_stories = n /\ Fields \subseteq DOMAIN h
  <2>1. Plain(g3) /\ g3.fmt = "html" /\ Walker(r, g3) /\ g3.index_stories = n /\ Fields \subseteq DOMAIN g3
    BY <1>3, KeptPlain DEF Kept
  <2>2. WF(h) /\ Plain(h) /\ Walker(g3, h) /\ h.index_stories = n /\ Fields \subseteq DOMAIN h
    BY <1>3, <2>1, HeadSame, HeadFields, HtmlPlain DEF Same
  <2> QED BY <2>1, <2>2, WalkerTrans
<1> HIDE DEF h
<1>5. Kept(h, x) /\ WF(x)
  BY <1>4, SetKept, SetBinds
<1> HIDE DEF x
<1>6. Kept(x, a) /\ WF(a) /\ Bound(a, "tagid", [ref |-> "tag"])
  BY <1>5, SetKept, SetBinds DEF Kept
<1>7. page = get_page_number(r) /\ n = a.index_stories /\ n = r.index_stories
      /\ skip = (page * n) % UIntSize /\ posts = index_get_posts(tree, AllMonths, skip, n)
      /\ b = LoadPosts(vars_scope_push(s), tree, AllMonths, page) /\ tree = ByTag(r.query.tag)
  BY <1>4, <1>5, <1>6 DEF Kept
<1> DEFINE id == [ref |-> "tag"]
<1>8. id.ref = "tag" /\ Bound(a, "tagid", id)
  BY <1>6
<1> HIDE DEF a, page, n, skip, posts, tree, b, id
<1>9. WF(b) /\ Kept(a, b) /\ OnPage(b, page, posts, n)
  BY <1>1, <1>6, <1>7, ListingVars
<1>10. Bound(b, "tagid", id)
  <2>1. "tagid" \notin PageVars
    BY DEF PageVars
  <2> QED BY <1>1, <1>6, <1>7, <1>8, <2>1, ListingVars
<1>11. WF(p) /\ Kept(b, p) /\ p.vars = b.vars
  BY <1>2, <1>9, PutOwes, RefKept DEF Owing, Kept
<1> HIDE DEF p
<1>12. OnPage(p, page, posts, n) /\ vars_lookup(p, "tagid") = id
  <2>1. OnPage(p, page, posts, n) /\ Bound(p, "tagid", id)
    BY <1>9, <1>10, <1>11 DEF OnPage, Bound
  <2> QED BY <1>11, <2>1, BoundFound
<1>13. Kept(h, p)
  BY <1>5, <1>6, <1>9, <1>11, KeptTrans
<1>14. p.query = r.query /\ h.query = r.query
  BY <1>4, <1>13 DEF Kept, Walker
<1>15. TreeOf(r) = tree /\ MonthsOf(r) = AllMonths
  BY <1>7 DEF TreeOf, MonthsOf
<1>16. ASSUME Survives(r.query), NEW name \in {"prevpage", "nextpage"}
       PROVE  LET link == Link(p, "tagindex", name)
              IN /\ TreeOf(Asking(link)) = TreeOf(r) /\ MonthsOf(Asking(link)) = MonthsOf(r)
                 /\ "paged" \in DOMAIN link /\ link.paged = vars_lookup(p, name) /\ Survives(link)
  <2> DEFINE link == Link(p, "tagindex", name)
  <2>1. link = TagLink(r.query.uri, r.query.tag, vars_lookup(p, name))
    BY <1>8, <1>12, <1>14 DEF Link
  <2>2. /\ DOMAIN link = {"uri", "tag", "paged"} /\ link.uri = r.query.uri /\ link.tag = r.query.tag
        /\ link.paged = vars_lookup(p, name) /\ Survives(link)
    <3>1. UrlPlain(r.query.tag)
      BY <1>16, TagAsked DEF Survives
    <3>2. link = [uri |-> r.query.uri, tag |-> r.query.tag, paged |-> vars_lookup(p, name)]
      BY <2>1, <3>1, PlainLink
    <3> QED BY <3>1, <3>2 DEF Survives
  <2> HIDE DEF link
  <2>3. select_page(Asking(link)) = "TAG"
    BY <2>2, ListingUri, LinkSelects DEF PagerTemplates
  <2>4. Asking(link).query.tag = r.query.tag
    BY <2>2 DEF Asking
  <2>5. TreeOf(Asking(link)) = tree /\ MonthsOf(Asking(link)) = AllMonths
    BY <1>7, <2>3, <2>4 DEF TreeOf, MonthsOf
  <2> QED BY <1>15, <2>2, <2>5 DEF link
<1>17. /\ select_page(h) = select_page(r) /\ get_page_number(h) = get_page_number(r)
       /\ TreeOf(h) = TreeOf(r) /\ MonthsOf(h) = MonthsOf(r)
  BY <1>14, SameQuery
<1>18. select_page(h) \in DOMAIN PagerTemplates /\ PagerTemplates[select_page(h)] = "tagindex"
  BY <1>17 DEF PagerTemplates
<1>19. (Trail(h) => Returns(h, p, "tagindex")) /\ q = render_page(p, "tagindex")
  BY <1>1, <1>7, <1>14, <1>16, <1>17 DEF Returns, Trail, p
<1>20. Walker(h, q) /\ (Trail(h) => Links(q))
  BY <1>4, <1>7, <1>11, <1>12, <1>13, <1>15, <1>17, <1>18, <1>19, PagerWalks
<1> QED BY <1>4, <1>20, WalkerTrans, WalkerTrail

\* The reader is the same, and the page has no neighbours.
Rests(r, q) == Walker(r, q) /\ Links(q)

LEMMA UnpagedRests ==
  ASSUME NEW r, NEW p, Walker(r, p), Fields \subseteq DOMAIN p, NEW tmpl, tmpl \notin Paged
  PROVE  Rests(r, render_page(p, tmpl))
<1>1. ~HasPager(p, tmpl)
  BY DEF HasPager
<1> QED BY <1>1, UnpagedLinks, WalkerTrans DEF Rests

LEMMA R404Rests ==
  ASSUME NEW r, Fields \subseteq DOMAIN r, NEW tmpl, tmpl \notin Paged
  PROVE  Rests(r, R404(r, tmpl))
<1> DEFINE p == PutFmt(r)
           h == req_head(p, "Content-Type", "text/html")
           html == [h EXCEPT !.status = 404, !.fmt = "html"]
           q == vars_scope_push(html)
<1>1. Walker(r, p) /\ Fields \subseteq DOMAIN p
  BY HtmlFields DEF Kept
<1>2. R404(r, tmpl) = render_page(q, tmpl)
  BY DEF R404
<1> HIDE DEF p
<1>3. Walker(p, h) /\ Fields \subseteq DOMAIN h
  BY <1>1, HeadFields
<1> HIDE DEF h
<1>4. Walker(h, html) /\ Fields \subseteq DOMAIN html
  BY <1>3 DEF Walker, Fields
<1> HIDE DEF html
<1>5. Walker(html, q) /\ Fields \subseteq DOMAIN q
  BY <1>4, PushKept DEF Kept
<1> HIDE DEF q
<1>6. Walker(r, q)
  BY <1>1, <1>3, <1>4, <1>5 DEF Walker
<1> QED BY <1>2, <1>5, <1>6, UnpagedRests

LEMMA R301Rests ==
  ASSUME NEW r, Fields \subseteq DOMAIN r, NEW url
  PROVE  Rests(r, R301(r, url))
<1> DEFINE p == PutFmt(r)
           h == req_head(p, "Content-Type", "text/html")
           l == req_head(h, "Location", url)
           html == [l EXCEPT !.status = 301, !.fmt = "html"]
           pushed == vars_scope_push(html)
           q == vars_set(pushed, "redirect", [ref |-> "url"])
<1>1. Walker(r, p) /\ Fields \subseteq DOMAIN p
  BY HtmlFields DEF Kept
<1>2. R301(r, url) = render_page(q, "301")
  BY DEF R301
<1> HIDE DEF p
<1>3. Walker(p, h) /\ Fields \subseteq DOMAIN h
  BY <1>1, HeadFields
<1> HIDE DEF h
<1>4. Walker(h, l) /\ Fields \subseteq DOMAIN l
  BY <1>3, HeadFields
<1> HIDE DEF l
<1>5. Walker(l, html) /\ Fields \subseteq DOMAIN html
  BY <1>4 DEF Walker, Fields
<1> HIDE DEF html
<1>6. Walker(html, pushed) /\ Fields \subseteq DOMAIN pushed
  BY <1>5, PushKept DEF Kept
<1> HIDE DEF pushed
<1>7. Walker(pushed, q) /\ Fields \subseteq DOMAIN q
  BY <1>6, SetKept DEF Kept
<1> HIDE DEF q
<1>8. Walker(r, q)
  BY <1>1, <1>3, <1>4, <1>5, <1>6, <1>7 DEF Walker
<1>9. "301" \notin Paged
  BY DEF Paged
<1> QED BY <1>2, <1>7, <1>8, <1>9, UnpagedRests

LEMMA StaticRests ==
  ASSUME NEW r, Fields \subseteq DOMAIN r, NEW q \in blahg_static(r)
  PROVE  Rests(r, q)
<1> DEFINE g == Get(r, "uri")
           got == Put(g, "uri")
<1>1. Kept(r, g)
  BY RefKept
<1>2. Kept(g, got)
  <2> HIDE DEF g
  <2> QED BY <1>1, RefKept DEF Kept
<1>3. Walker(r, got) /\ Fields \subseteq DOMAIN got
  BY <1>1, <1>2, KeptTrans DEF Kept
<1>4. CASE r.query.uri \in DOMAIN WebDir
  <2> DEFINE file == [kind |-> "file", name |-> r.query.uri]
             size == WebDir[r.query.uri]
             type == ContentTypeOf[r.query.uri]
             h == req_head(got, "Content-Type", type)
  <2>1. q = [h EXCEPT !.body = file, !.bodylen = size]
    BY <1>4 DEF blahg_static
  <2>2. file.kind = "file"
    OBVIOUS
  <2> HIDE DEF got, file, size, type
  <2>3. Walker(got, h) /\ Fields \subseteq DOMAIN h
    BY <1>3, HeadFields
  <2> HIDE DEF h
  <2>4. Walker(h, q) /\ q.body = file
    BY <2>1, <2>3 DEF Walker, Fields
  <2>5. Links(q)
    BY <2>2, <2>4 DEF Links
  <2> QED BY <1>3, <2>3, <2>4, <2>5 DEF Rests, Walker
<1>5. CASE r.query.uri \notin DOMAIN WebDir
  <2>1. q = R404(got, "404") /\ "404" \notin Paged
    BY <1>5 DEF blahg_static, Paged
  <2> HIDE DEF got
  <2>2. Rests(got, q)
    BY <1>3, <2>1, R404Rests
  <2> QED BY <1>3, <2>2, WalkerTrans DEF Rests
<1> QED BY <1>4, <1>5

LEMMA CategoryRests ==
  ASSUME NEW r, Fields \subseteq DOMAIN r, NEW q \in blahg_category(r)
  PROVE  Rests(r, q)
<1> DEFINE g == Get(r, "cat")
           got == Put(g, "cat")
           u == Get(got, "url")
<1>1. q = R404(got, "404") \/ q = R301(u, category_to_tag[r.query.cat])
  BY DEF blahg_category
<1>2. Kept(r, g)
  BY RefKept
<1> HIDE DEF g
<1>3. Kept(g, got)
  BY <1>2, RefKept DEF Kept
<1> HIDE DEF got
<1>4. Kept(got, u)
  BY <1>3, RefKept DEF Kept
<1> HIDE DEF u
<1>5. Walker(r, got) /\ Walker(r, u) /\ Fields \subseteq DOMAIN got /\ Fields \subseteq DOMAIN u
  BY <1>2, <1>3, <1>4 DEF Kept, Walker
<1>6. "404" \notin Paged
  BY DEF Paged
<1>7. Rests(got, q) \/ Rests(u, q)
  BY <1>1, <1>5, <1>6, R404Rests, R301Rests
<1> QED BY <1>5, <1>7, WalkerTrans DEF Rests

LEMMA CommentRests ==
  ASSUME NEW r, Fields \subseteq DOMAIN r, NEW q \in blahg_comment(r)
  PROVE  Rests(r, q)
<1> DEFINE h == req_head(r, "Content-Type", "text/html")
           got == vars_scope_push(h)
           e == vars_set(got, "comment_error_str", None)
<1>1. q = render_page(e, "comment_error") \/ q = render_page(got, "comment_saved")
  BY DEF blahg_comment
<1>2. Walker(r, h) /\ Fields \subseteq DOMAIN h
  BY HeadFields
<1> HIDE DEF h
<1>3. Walker(h, got) /\ Fields \subseteq DOMAIN got
  BY <1>2, PushKept DEF Kept
<1> HIDE DEF got
<1>4. Walker(got, e) /\ Fields \subseteq DOMAIN e
  BY <1>3, SetKept DEF Kept
<1> HIDE DEF e
<1>5. Walker(r, got) /\ Walker(r, e)
  BY <1>2, <1>3, <1>4, WalkerTrans
<1>6. "comment_error" \notin Paged /\ "comment_saved" \notin Paged
  BY DEF Paged
<1> QED BY <1>1, <1>3, <1>4, <1>5, <1>6, UnpagedRests

LEMMA StoryRests ==
  ASSUME NEW r, Fields \subseteq DOMAIN r, NEW q \in blahg_story(r)
  PROVE  Rests(r, q)
<1> DEFINE pushed == vars_scope_push(r)
           t == vars_set(pushed, "title", [ref |-> None])
           posts == <<[id |-> r.query.p, draft |-> is_preview(r)]>>
           v == vars_set(t, "posts", posts)
<1>1. q = R404(r, "404") \/ q = R404(t, "404") \/ q = render_page(v, "storyview")
  BY DEF blahg_story
<1> HIDE DEF posts
<1>2. Walker(r, pushed) /\ Fields \subseteq DOMAIN pushed
  BY PushKept DEF Kept
<1> HIDE DEF pushed
<1>3. Walker(pushed, t) /\ Fields \subseteq DOMAIN t
  BY <1>2, SetKept DEF Kept
<1> HIDE DEF t
<1>4. Walker(t, v) /\ Fields \subseteq DOMAIN v
  BY <1>3, SetKept DEF Kept
<1> HIDE DEF v
<1>5. Walker(r, t) /\ Walker(r, v) /\ Walker(r, r)
  BY <1>2, <1>3, <1>4 DEF Walker
<1>6. "404" \notin Paged /\ "storyview" \notin Paged
  BY DEF Paged
<1>7. Rests(r, q) \/ Rests(t, q)
  BY <1>1, <1>3, <1>4, <1>5, <1>6, R404Rests, UnpagedRests
<1> QED BY <1>5, <1>7, WalkerTrans DEF Rests

LEMMA AdminRests ==
  ASSUME NEW r, Fields \subseteq DOMAIN r, NEW q \in blahg_admin(r)
  PROVE  Rests(r, q)
<1> DEFINE h == req_head(r, "Content-Type", "text/plain")
<1>1. q = [h EXCEPT !.body = [kind |-> "text"]]
  BY DEF blahg_admin
<1>2. Walker(r, h) /\ Fields \subseteq DOMAIN h
  BY HeadFields
<1> HIDE DEF h
<1>3. Walker(h, q) /\ q.body.kind = "text"
  BY <1>1, <1>2 DEF Walker, Fields
<1> QED BY <1>2, <1>3 DEF Rests, Links, Walker

LEMMA HandleWalks ==
  ASSUME NEW r, Plain(r), WF(r), r.page = select_page(r), NEW q \in Handle(r)
  PROVE  Walker(r, q) /\ (Trail(r) => Links(q))
<1>1. \/ r.page = "STATIC" /\ q \in blahg_static(r)
      \/ r.page = "ARCHIVE" /\ q \in blahg_archive(r)
      \/ r.page = "CATEGORY" /\ q \in blahg_category(r)
      \/ r.page = "TAG" /\ q \in blahg_tag(r)
      \/ r.page = "COMMENT" /\ q \in blahg_comment(r)
      \/ r.page = "INDEX" /\ q \in blahg_index(r)
      \/ r.page = "STORY" /\ q \in blahg_story(r)
      \/ r.page = "ADMIN" /\ q \in blahg_admin(r)
  BY PageHandled DEF Handle
<1>2. r.page \in {"ARCHIVE", "TAG"} => r.fmt = "html"
  BY NotFeed
<1>3. CASE r.page \in {"INDEX", "ARCHIVE", "TAG"}
  BY <1>1, <1>2, <1>3, IndexWalks, ArchiveWalks, TagWalks
<1>4. CASE r.page \notin {"INDEX", "ARCHIVE", "TAG"}
  <2>1. Rests(r, q)
    BY <1>1, <1>4, StaticRests, CategoryRests, CommentRests, StoryRests, AdminRests DEF Plain
  <2> QED BY <2>1 DEF Rests
<1> QED BY <1>3, <1>4

\* req_dispatch
LEMMA DispatchWalks ==
  ASSUME NEW r, Unserved(r), Fresh(r), NEW q \in Dispatched(r)
  PROVE  Walker(r, q) /\ (Trail(r) => Links(q))
<1>1. "404" \notin Paged /\ "error_unsupported_feed_fmt" \notin Paged
  BY DEF Paged
<1>2. CASE UriType(r.query.uri) = "BAD"
  <2> DEFINE x == Selected(r, "INDEX")
  <2>1. q = R404(x, "404") /\ Fresh(x) /\ Walker(r, x)
    BY <1>2, SelectedFresh DEF Dispatched, Selected
  <2> HIDE DEF x
  <2>2. Rests(x, q)
    BY <1>1, <2>1, R404Rests DEF Fresh
  <2> QED BY <2>1, <2>2, WalkerTrans DEF Rests
<1>3. CASE UriType(r.query.uri) # "BAD"
  <2> DEFINE selected == Selected(r, select_page(r))
             switched == switch_content_type(selected)
  <2>1. /\ ~Supported(selected) => q = R404(switched, "error_unsupported_feed_fmt")
        /\ Supported(selected) => q \in Handle(switched)
    BY <1>3 DEF Dispatched, Selected
  <2>2. /\ Unserved(selected) /\ Fresh(selected) /\ Walker(r, selected)
        /\ selected.page = select_page(r)
    BY SelectedFresh
  <2> HIDE DEF selected
  <2>3. Walker(r, switched)
    BY <2>2, SwitchPlain, WalkerTrans
  <2>4. CASE ~Supported(selected)
    <3>1. Fields \subseteq DOMAIN switched
      BY <2>2, <2>4, SwitchPlain DEF Open
    <3> HIDE DEF switched
    <3>2. Rests(switched, q)
      BY <1>1, <2>1, <2>4, <3>1, R404Rests
    <3> QED BY <2>3, <3>2, WalkerTrans DEF Rests
  <2>5. CASE Supported(selected)
    <3>1. Plain(switched) /\ Ready(switched) /\ switched.page = select_page(r)
      BY <2>2, <2>5, SwitchPlain, SwitchReady
    <3> HIDE DEF switched
    <3>2. WF(switched) /\ switched.page = select_page(switched)
      BY <2>3, <3>1, SameQuery DEF Ready, Walker
    <3>3. Walker(switched, q) /\ (Trail(switched) => Links(q))
      BY <2>1, <2>5, <3>1, <3>2, HandleWalks
    <3> QED BY <2>3, <3>3, WalkerTrans, WalkerTrail
  <2> QED BY <2>4, <2>5
<1> QED BY <1>2, <1>3

-----------------------------------------------------------------------------
(* The walk in every behaviour *)

\* A thread's request is of a reader whose trail is of the listing, and what
\* was sent last leads on from there.
WalkInv == \A t \in Threads :
  /\ pc[t] \in {"dispatch", "output"} /\ req[t].walks => Trail(req[t])
  /\ pc[t] = "output" /\ req[t].walks => Links(req[t])
  /\ sent[t].walks => Trail(sent[t]) /\ Links(sent[t])

LEMMA WalkInit == Init => WalkInv
<1> HAVE Init
<1>1. ~NoRequest.walks
  BY DEF NoRequest, NewRequest
<1> QED BY <1>1 DEF Init, WalkInv

\* a first page
LEMMA StartTrail ==
  ASSUME NEW r, "paged" \notin DOMAIN r.query, Survives(r.query), r.trail = <<>>
  PROVE  Trail(r)
<1>1. get_page_number(r) = 0
  BY DEF get_page_number, HasInt
<1> QED BY <1>1 DEF Trail

LEMMA OlderTrail ==
  ASSUME NEW s, Trail(s), Links(s), NEW link \in Older(s), NEW r,
         r.query = link, r.trail = Append(s.trail, s.body.posts)
  PROVE  Trail(r)
<1> DEFINE n == html_index_stories
           K == Len(s.trail)
           pages == {PageAt(s, k) : k \in Nat}
<1>1. Signposted(s)
  BY DEF Links, Older
<1>2. /\ s.body.posts = PageAt(s, K) /\ Len(s.body.posts) = n /\ LeadsTo(s, link, K + 1)
  BY <1>1 DEF Signposted
<1>3. /\ s.trail \in Seq(pages) /\ K \in Nat
      /\ \A k \in 1..K : s.trail[k] = PageAt(s, k - 1) /\ Len(s.trail[k]) = n
  BY DEF Trail
<1>4. /\ TreeOf(r) = TreeOf(s) /\ MonthsOf(r) = MonthsOf(s) /\ get_page_number(r) = K + 1
      /\ Survives(r.query)
  BY <1>2, SameQuery DEF LeadsTo, Asking
<1>5. \A k : PageAt(r, k) = PageAt(s, k)
  BY <1>4 DEF PageAt
<1>6. {PageAt(r, k) : k \in Nat} = pages
  BY <1>5
<1>7. s.body.posts \in pages
  BY <1>2, <1>3
<1> HIDE DEF pages, n, K
<1>8. /\ r.trail \in Seq(pages) /\ Len(r.trail) = K + 1 /\ r.trail[K + 1] = s.body.posts
      /\ \A k \in 1..K : r.trail[k] = s.trail[k]
  BY <1>3, <1>7 DEF K
<1>9. \A k \in 1..(K + 1) : r.trail[k] = PageAt(s, k - 1) /\ Len(r.trail[k]) = n
  <2>1. ASSUME NEW k \in 1..(K + 1) PROVE r.trail[k] = PageAt(s, k - 1) /\ Len(r.trail[k]) = n
    <3>1. CASE k = K + 1
      <4>1. k - 1 = K
        BY <1>3, <3>1
      <4> QED BY <1>2, <1>8, <3>1, <4>1
    <3>2. CASE k # K + 1
      <4>1. k \in 1..K
        BY <1>3, <3>2
      <4> QED BY <1>3, <1>8, <4>1
    <3> QED BY <3>1, <3>2
  <2> QED BY <2>1
<1> QED BY <1>4, <1>5, <1>6, <1>8, <1>9 DEF Trail, n

LEMMA NewerTrail ==
  ASSUME NEW s, Trail(s), Links(s), NEW link \in Newer(s), NEW r,
         r.query = link, r.trail = IF s.trail = <<>> THEN <<>> ELSE Front(s.trail)
  PROVE  Trail(r)
<1> DEFINE n == html_index_stories
           K == Len(s.trail)
           pages == {PageAt(s, k) : k \in Nat}
<1>1. Signposted(s)
  BY DEF Links, Newer
<1>2. /\ K # 0 /\ LeadsTo(s, link, K - 1)
  BY <1>1 DEF Signposted
<1>3. /\ s.trail \in Seq(pages) /\ K \in Nat
      /\ \A k \in 1..K : s.trail[k] = PageAt(s, k - 1) /\ Len(s.trail[k]) = n
  BY DEF Trail
<1>4. /\ TreeOf(r) = TreeOf(s) /\ MonthsOf(r) = MonthsOf(s) /\ get_page_number(r) = K - 1
      /\ Survives(r.query)
  BY <1>2, SameQuery DEF LeadsTo, Asking
<1>5. \A k : PageAt(r, k) = PageAt(s, k)
  BY <1>4 DEF PageAt
<1>6. {PageAt(r, k) : k \in Nat} = pages
  BY <1>5
<1> HIDE DEF pages, n
<1>7. r.trail = SubSeq(s.trail, 1, K - 1)
  BY <1>2 DEF Front
<1>8. /\ r.trail \in Seq(pages) /\ Len(r.trail) = K - 1
      /\ \A k \in 1..(K - 1) : r.trail[k] = s.trail[k]
  <2> DEFINE old == s.trail
             last == K - 1
  <2>1. old \in Seq(pages) /\ last \in Nat /\ last <= Len(old) /\ r.trail = SubSeq(old, 1, last)
    BY <1>2, <1>3, <1>7
  <2> HIDE DEF old, last
  <2>2. SubSeq(old, 1, last) \in Seq(pages) /\ Len(SubSeq(old, 1, last)) = last
        /\ \A k \in 1..last : SubSeq(old, 1, last)[k] = old[k]
    BY <2>1
  <2> QED BY <2>1, <2>2 DEF old, last
<1>9. \A k \in 1..(K - 1) : r.trail[k] = PageAt(s, k - 1) /\ Len(r.trail[k]) = n
  BY <1>3, <1>8
<1> QED BY <1>4, <1>5, <1>6, <1>8, <1>9 DEF Trail, n

\* init_request of a reader who has got there by links, or begins
LEMMA WalkAccept ==
  ASSUME IInv, ClientInv, WalkInv, NEW t \in Threads, NEW query, NEW walks, NEW trail,
         Accept(t, query, walks, trail),
         \A r : walks /\ r.query = query /\ r.trail = trail => Trail(r)
  PROVE  WalkInv'
<1> DEFINE new == NewRequest(FreshId, query, walks, trail)
<1>1. /\ pc' = [pc EXCEPT ![t] = "dispatch"] /\ req' = [req EXCEPT ![t] = new]
      /\ sent' = [sent EXCEPT ![t] = NoRequest]
  BY DEF Accept
<1>2. new.walks = walks /\ new.query = query /\ new.trail = trail /\ ~NoRequest.walks
  BY DEF NewRequest, NoRequest
<1> HIDE DEF new
<1>3. /\ pc'[t] = "dispatch" /\ req'[t] = new /\ sent'[t] = NoRequest
      /\ \A u \in Threads \ {t} : pc'[u] = pc[u] /\ req'[u] = req[u] /\ sent'[u] = sent[u]
  BY <1>1 DEF IInv, MapsInv, ClientInv
<1>4. new.walks => Trail(new)
  BY <1>2
<1> QED BY <1>2, <1>3, <1>4 DEF WalkInv

LEMMA WalkDispatch ==
  ASSUME IInv, ClientInv, WalkInv, NEW t \in Threads, Dispatch(t)
  PROVE  WalkInv'
<1>1. pc[t] = "dispatch" /\ Unserved(req[t]) /\ Fresh(req[t])
  BY DEF Dispatch, IInv, DebtInv, ClientInv, AnswerInv
<1>2. PICK q \in Dispatched(req[t]) : req' = [req EXCEPT ![t] = q]
  BY DEF Dispatch
<1>3. Walker(req[t], q) /\ (Trail(req[t]) => Links(q))
  BY <1>1, DispatchWalks
<1>4. pc' = [pc EXCEPT ![t] = "output"] /\ sent' = sent
  BY DEF Dispatch
<1>5. /\ pc'[t] = "output" /\ req'[t] = q
      /\ \A u \in Threads \ {t} : pc'[u] = pc[u] /\ req'[u] = req[u]
  BY <1>2, <1>4 DEF IInv, MapsInv
<1>6. q.walks => Trail(q) /\ Links(q)
  <2>1. q.walks = req[t].walks
    BY <1>3 DEF Walker
  <2>2. req[t].walks => Trail(req[t])
    BY <1>1 DEF WalkInv
  <2> QED BY <1>3, <2>1, <2>2, WalkerTrail
<1> QED BY <1>4, <1>5, <1>6 DEF WalkInv

\* the page that is sent is the one that was rendered
LEMMA SameLinks ==
  ASSUME NEW r, NEW q, Walker(r, q), q.body = r.body, q.fmt = r.fmt, Links(r)
  PROVE  Links(q)
<1>1. q.query = r.query /\ q.trail = r.trail
  BY DEF Walker
<1>2. /\ select_page(q) = select_page(r) /\ TreeOf(q) = TreeOf(r) /\ MonthsOf(q) = MonthsOf(r)
      /\ \A k : PageAt(q, k) = PageAt(r, k)
  BY <1>1, SameQuery
<1>3. Older(q) = Older(r) /\ Newer(q) = Newer(r) /\ HasPager(q, q.body.tmpl) = HasPager(r, r.body.tmpl)
  BY DEF Older, Newer, HasPager
<1>4. Signposted(r) => Signposted(q)
  BY <1>1, <1>2, <1>3 DEF Signposted, LeadsTo
<1> QED BY <1>3, <1>4 DEF Links

LEMMA WalkOutput ==
  ASSUME IInv, ClientInv, WalkInv, NEW t \in Threads, Output(t)
  PROVE  WalkInv'
<1> DEFINE r == req[t]
           len == IF r.bodylen = 0 THEN Size(r.body) ELSE r.bodylen
           b == [r EXCEPT !.bodylen = len]
           done == req_head(b, "Content-Length", len)
<1>1. /\ pc[t] = "output" /\ pc' = [pc EXCEPT ![t] = "log"]
      /\ req' = [req EXCEPT ![t] = done] /\ sent' = [sent EXCEPT ![t] = done]
  BY DEF Output
<1>2. Fields \subseteq DOMAIN r
  BY <1>1 DEF ClientInv, AnswerInv, Answer
<1> HIDE DEF len
<1>3. Walker(r, b) /\ b.body = r.body /\ b.fmt = r.fmt /\ Fields \subseteq DOMAIN b
  BY <1>2 DEF Walker, Fields
<1> HIDE DEF b
<1>4. Walker(b, done) /\ done.body = b.body /\ done.fmt = b.fmt
  BY <1>3, HeadFields
<1> HIDE DEF done
<1>5. Walker(r, done) /\ done.body = r.body /\ done.fmt = r.fmt
  BY <1>3, <1>4, WalkerTrans
<1>6. done.walks => Trail(done) /\ Links(done)
  <2>1. done.walks = r.walks
    BY <1>5 DEF Walker
  <2>2. r.walks => Trail(r) /\ Links(r)
    BY <1>1 DEF WalkInv
  <2> QED BY <1>5, <2>1, <2>2, WalkerTrail, SameLinks
<1>7. /\ pc'[t] = "log" /\ req'[t] = done /\ sent'[t] = done
      /\ \A u \in Threads \ {t} : pc'[u] = pc[u] /\ req'[u] = req[u] /\ sent'[u] = sent[u]
  BY <1>1 DEF IInv, MapsInv, ClientInv
<1> QED BY <1>6, <1>7 DEF WalkInv

LEMMA WalkDestroy ==
  ASSUME IInv, ClientInv, WalkInv, NEW t \in Threads, Destroy(t)
  PROVE  WalkInv'
<1> DEFINE kept == IF Older(sent[t]) \cup Newer(sent[t]) = {} THEN NoRequest ELSE sent[t]
<1>1. pc' = [pc EXCEPT ![t] = "idle"] /\ sent' = [sent EXCEPT ![t] = kept]
  BY DEF Destroy, ClientInv
<1>2. \A u \in Threads \ {t} : req'[u] = req[u]
  BY DEF Destroy, IInv, MapsInv
<1>3. ~NoRequest.walks /\ kept \in {NoRequest, sent[t]}
  BY DEF NoRequest, NewRequest
<1> HIDE DEF kept
<1>4. /\ pc'[t] = "idle" /\ sent'[t] = kept
      /\ \A u \in Threads \ {t} : pc'[u] = pc[u] /\ sent'[u] = sent[u]
  BY <1>1 DEF IInv, MapsInv, ClientInv
<1> QED BY <1>2, <1>3, <1>4 DEF WalkInv

LEMMA WalkStep ==
  ASSUME IInv, ClientInv, WalkInv, [Next]_vars
  PROVE  WalkInv'
<1>1. ASSUME NEW t \in Threads, Ask(t) PROVE WalkInv'
  <2>1. PICK query \in Queries[t] : Accept(t, query, "paged" \notin DOMAIN query /\ Survives(query), <<>>)
    BY <1>1 DEF Ask
  <2> QED BY <2>1, WalkAccept, StartTrail
<1>2. ASSUME NEW t \in Threads, FollowOlder(t) PROVE WalkInv'
  <2> DEFINE s == sent[t]
             trail == IF s.walks THEN Append(s.trail, s.body.posts) ELSE <<>>
  <2>1. PICK link \in Older(s) : Accept(t, link, s.walks, trail)
    BY <1>2 DEF FollowOlder
  <2>2. s.walks => Trail(s) /\ Links(s)
    BY DEF WalkInv
  <2>3. ASSUME NEW r, s.walks, r.query = link, r.trail = trail PROVE Trail(r)
    BY <2>2, <2>3, OlderTrail
  <2> QED BY <2>1, <2>3, WalkAccept
<1>3. ASSUME NEW t \in Threads, FollowNewer(t) PROVE WalkInv'
  <2> DEFINE s == sent[t]
             trail == IF s.trail = <<>> THEN <<>> ELSE Front(s.trail)
  <2>1. PICK link \in Newer(s) : Accept(t, link, s.walks, trail)
    BY <1>3 DEF FollowNewer
  <2>2. s.walks => Trail(s) /\ Links(s)
    BY DEF WalkInv
  <2>3. ASSUME NEW r, s.walks, r.query = link, r.trail = trail PROVE Trail(r)
    BY <2>2, <2>3, NewerTrail
  <2> QED BY <2>1, <2>3, WalkAccept
<1>4. ASSUME NEW t \in Threads, Log(t) PROVE WalkInv'
  <2>1. pc' = [pc EXCEPT ![t] = "destroy"] /\ req' = req /\ sent' = sent
    BY <1>4 DEF Log
  <2> QED BY <2>1 DEF IInv, MapsInv, WalkInv
<1>5. CASE UNCHANGED vars
  BY <1>5 DEF vars, WalkInv
<1> QED BY <1>1, <1>2, <1>3, <1>4, <1>5, WalkDispatch, WalkOutput, WalkDestroy DEF Next

\* The listing of a page is what a reader who gets there wants.
LEMMA ListingWanted ==
  ASSUME NEW r, select_page(r) \in DOMAIN PagerTemplates, r.body.tmpl = PagerTemplates[select_page(r)]
  PROVE  /\ ListingOfPage(r) = Wanted(TreeOf(r), MonthsOf(r))
         /\ r.body.tmpl # "archive" => ListingOfPage(r) = TreeOf(r) /\ MonthsOf(r) = AllMonths
<1>1. CASE select_page(r) = "INDEX"
  <2>1. r.body.tmpl = "index" /\ TreeOf(r) = ByTime /\ MonthsOf(r) = AllMonths
    BY <1>1 DEF PagerTemplates, TreeOf, MonthsOf
  <2>2. ListingOfPage(r) = ByTime
    BY <2>1 DEF ListingOfPage, ByTime
  <2> QED BY <2>1, <2>2 DEF Wanted, ByTime, AllMonths
<1>2. CASE select_page(r) = "TAG"
  <2>1. r.body.tmpl = "tagindex" /\ TreeOf(r) = ByTag(r.query.tag) /\ MonthsOf(r) = AllMonths
    BY <1>2 DEF PagerTemplates, TreeOf, MonthsOf
  <2>2. ListingOfPage(r) = ByTag(r.query.tag)
    BY <2>1 DEF ListingOfPage, ByTag
  <2> QED BY <2>1, <2>2 DEF Wanted, ByTag, AllMonths
<1>3. CASE select_page(r) = "ARCHIVE"
  <2>1. r.body.tmpl = "archive" /\ TreeOf(r) = ByTime /\ MonthsOf(r) = Months(get_arch_id(r))
    BY <1>3 DEF PagerTemplates, TreeOf, MonthsOf
  <2>2. ListingOfPage(r) = {i \in ByTime : Listed[i].month \in Months(get_arch_id(r))}
    BY <2>1 DEF ListingOfPage, ByTime
  <2> QED BY <2>1, <2>2 DEF Wanted
<1> QED BY <1>1, <1>2, <1>3 DEF PagerTemplates

\* what a reader has seen who is there
SeesAll(r, pages, seen, all, n) ==
  /\ r.body.tmpl # "archive" => \A k \in DOMAIN pages : pages[k] = Stretch(all, (k - 1) * n, n)
  /\ seen \subseteq ToSet(all)
  /\ Older(r) = {} => seen = ToSet(all)
  /\ Newer(r) = {} <=> r.trail = <<>>

LEMMA WalkSeen ==
  ASSUME NEW r, Trail(r), Signposted(r), NEW n, n = html_index_stories,
         NEW pages, pages = Append(r.trail, r.body.posts),
         NEW seen, seen = UNION {ToSet(pages[k]) : k \in DOMAIN pages},
         NEW all, all = PostsAt(ListingOfPage(r))
  PROVE  SeesAll(r, pages, seen, all, n)
<1> DEFINE K == Len(r.trail)
           tree == TreeOf(r)
           months == MonthsOf(r)
           wanted == Wanted(tree, months)
<1>1. /\ ListingOfPage(r) = wanted
      /\ r.body.tmpl # "archive" => wanted = tree /\ months = AllMonths
  BY ListingWanted DEF Signposted
<1>2. Places(tree) /\ Places(wanted)
  BY TreePlaces DEF Wanted, Places
<1>3. ToSet(all) = {Listed[i] : i \in wanted}
  BY <1>1, <1>2, PostsAtIs
<1>4. K \in Nat /\ K * n <= Cardinality(tree) /\ n \in Nat \ {0}
  BY TrailWithin, StoriesPositive
<1>5. /\ DOMAIN pages = 1..(K + 1)
      /\ \A k \in 1..(K + 1) : pages[k] = index_get_posts(tree, months, (k - 1) * n, n)
  <2> DEFINE shown == {PageAt(r, k) : k \in Nat}
  <2>1. r.trail \in Seq(shown) /\ r.body.posts = PageAt(r, K) /\ \A k \in 1..K : r.trail[k] = PageAt(r, k - 1)
    BY DEF Trail, Signposted
  <2>2. r.body.posts \in shown
    BY <1>4, <2>1
  <2> HIDE DEF shown
  <2>3. /\ DOMAIN pages = 1..(K + 1) /\ pages[K + 1] = r.body.posts
        /\ \A k \in 1..K : pages[k] = r.trail[k]
    BY <2>1, <2>2
  <2> HIDE DEF K
  <2>4. ASSUME NEW k \in 1..(K + 1) PROVE pages[k] = PageAt(r, k - 1)
    <3>1. CASE k = K + 1
      <4>1. k - 1 = K
        BY <1>4, <3>1
      <4> QED BY <2>1, <2>3, <3>1, <4>1
    <3>2. CASE k # K + 1
      <4>1. k \in 1..K
        BY <1>4, <3>2
      <4> QED BY <2>1, <2>3, <4>1
    <3> QED BY <3>1, <3>2
  <2> QED BY <2>3, <2>4 DEF PageAt
<1> HIDE DEF K, tree, months, wanted
<1>6. ASSUME r.body.tmpl # "archive", NEW k \in 1..(K + 1)
      PROVE  pages[k] = Stretch(all, (k - 1) * n, n)
  <2> DEFINE j == k - 1
             skip == j * n
  <2>1. j \in Nat /\ j <= K
    BY <1>4
  <2> HIDE DEF j
  <2>2. skip \in Nat /\ skip <= K * n
    <3>1. PICK d \in Nat : K = j + d
      <4>1. K - j \in Nat /\ K = j + (K - j)
        BY <1>4, <2>1
      <4> QED BY <4>1
    <3>2. K * n = skip + d * n /\ d * n \in Nat /\ skip \in Nat
      BY <1>4, <2>1, <3>1
    <3> QED BY <3>2
  <2>3. Cardinality(tree) \in Nat /\ K * n \in Nat
    BY <1>2, <1>4, PlacesFinite
  <2>4. skip \in Nat /\ skip <= Cardinality(tree)
    <3> HIDE DEF skip
    <3> QED BY <1>4, <2>2, <2>3
  <2>5. pages[k] = index_get_posts(tree, AllMonths, skip, n) /\ all = PostsAt(tree)
    BY <1>1, <1>5, <1>6 DEF j
  <2> HIDE DEF skip
  <2>6. pages[k] = Stretch(all, skip, n)
    BY <1>2, <1>4, <2>4, <2>5, TreePage
  <2> QED BY <2>6 DEF skip, j
<1>7. \A k \in 1..(K + 1) : ToSet(pages[k]) \subseteq ToSet(all)
  <2>1. ASSUME NEW k \in 1..(K + 1) PROVE ToSet(pages[k]) \subseteq ToSet(all)
    <3> DEFINE skip == (k - 1) * n
    <3>1. pages[k] = index_get_posts(tree, months, skip, n)
      BY <1>5
    <3> HIDE DEF skip
    <3> QED BY <1>2, <1>3, <1>4, <3>1, PageWanted DEF wanted
  <2> QED BY <2>1
<1>8. seen \subseteq ToSet(all)
  <2> SUFFICES ASSUME NEW post \in seen PROVE post \in ToSet(all)
    OBVIOUS
  <2>1. PICK k \in DOMAIN pages : post \in ToSet(pages[k])
    OBVIOUS
  <2>2. k \in 1..(K + 1)
    BY <1>5
  <2> QED BY <1>7, <2>1, <2>2
<1>9. ASSUME Older(r) = {} PROVE ToSet(all) \subseteq seen
  <2>1. Len(index_get_posts(tree, months, K * n, n)) # n
    BY <1>9 DEF Signposted, PageAt, K, tree, months
  <2>2. ASSUME NEW p \in wanted PROVE Listed[p] \in seen
    <3>1. PICK k \in 0..K : Listed[p] \in ToSet(index_get_posts(tree, months, k * n, n))
      BY <1>2, <1>4, <2>1, AllShown DEF wanted
    <3>2. k + 1 \in 1..(K + 1) /\ (k + 1) - 1 = k
      BY <1>4
    <3>3. pages[k + 1] = index_get_posts(tree, months, k * n, n)
      BY <1>5, <3>2
    <3> QED BY <1>5, <3>1, <3>2, <3>3
  <2> QED BY <1>3, <2>2
<1>10. Newer(r) = {} <=> r.trail = <<>>
  <2>1. r.trail = <<>> <=> Len(r.trail) = 0
    BY DEF Trail
  <2> QED BY <2>1 DEF Signposted
<1> QED BY <1>5, <1>6, <1>8, <1>9, <1>10 DEF SeesAll

\* load_posts and index_get_posts, the page numbers of __store_pages, the
\* links of the pagers, and select_page and get_page_number of the request
\* that comes of them: for any posts, months and number of posts on a page, a
\* reader who begins at the index, an archive or a tag that the URL leaves as
\* it is (UrlPlain; the pager's links lose the others, see TagLinksStay) and
\* goes from link to link stays in the listing, sees every post of it (in
\* order, but for the repetitions of archives), and can go back.
THEOREM WalksShowAll == Spec => []WalkShowsAll
<1>1. Init => IInv /\ ClientInv /\ WalkInv
  BY InitHolds, ClientInit, WalkInit
<1>2. IInv /\ ClientInv /\ WalkInv /\ [Next]_vars => (IInv /\ ClientInv /\ WalkInv)'
  BY StepHolds, ClientStep, WalkStep
<1>3. WalkInv => WalkShowsAll
  <2> SUFFICES ASSUME WalkInv, NEW t \in Threads, sent[t].walks, sent[t].body.kind = "page",
                      HasPager(sent[t], sent[t].body.tmpl)
               PROVE  LET r == sent[t]
                          pages == Append(r.trail, r.body.posts)
                          seen == UNION {ToSet(pages[k]) : k \in DOMAIN pages}
                          all == PostsAt(ListingOfPage(r))
                          n == html_index_stories
                      IN /\ r.body.tmpl # "archive" =>
                              \A k \in DOMAIN pages : pages[k] = Stretch(all, (k - 1) * n, n)
                         /\ seen \subseteq ToSet(all)
                         /\ Older(r) = {} => seen = ToSet(all)
                         /\ Newer(r) = {} <=> r.trail = <<>>
    BY DEF WalkShowsAll
  <2> DEFINE r == sent[t]
             pages == Append(r.trail, r.body.posts)
             seen == UNION {ToSet(pages[k]) : k \in DOMAIN pages}
             all == PostsAt(ListingOfPage(r))
             n == html_index_stories
  <2>1. Trail(r) /\ Signposted(r)
    BY DEF WalkInv, Links
  <2>2. /\ pages = Append(r.trail, r.body.posts) /\ n = html_index_stories
        /\ seen = UNION {ToSet(pages[k]) : k \in DOMAIN pages} /\ all = PostsAt(ListingOfPage(r))
    OBVIOUS
  <2> HIDE DEF r, pages, seen, all, n
  <2>3. SeesAll(r, pages, seen, all, n)
    BY <2>1, <2>2, WalkSeen
  <2> QED BY <2>3 DEF SeesAll, r, pages, seen, all, n
<1> QED BY <1>1, <1>2, <1>3, PTL DEF Spec
=============================================================================
