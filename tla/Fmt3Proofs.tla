----------------------------- MODULE Fmt3Proofs -----------------------------
(***************************************************************************)
(* Proofs about Fmt3, for any texts: what is on the parser's stack, and    *)
(* that each command puts the strings of its arguments once.               *)
(***************************************************************************)
EXTENDS Fmt3, TLAPS, FiniteSetTheorems

-----------------------------------------------------------------------------
(* The parser's stack *)

FrameFields == {"kind", "paras", "text", "null", "state", "cmd"}

\* the command whose arguments are to come: an optional one has a value only
\* if it was there
CmdOK(c) ==
  /\ DOMAIN c = {"name", "square", "opt", "hasOpt"}
  /\ c.square \in BOOLEAN /\ c.hasOpt \in BOOLEAN
  /\ c.hasOpt => c.square
  /\ c.hasOpt \/ c.opt = <<>>
  /\ c.name \in {None, "\\"} => ~c.square

\* Only the post has paragraphs and blank lines between them; an argument
\* without a value is empty.
FrameOK(f) ==
  /\ DOMAIN f = FrameFields
  /\ f.kind \in {"post", "square", "curly"}
  /\ f.state \in IF f.kind = "post" THEN {"start", "in", "after", "only"} ELSE {"start", "in"}
  /\ f.kind # "post" => f.paras = <<>>
  /\ f.null \in BOOLEAN
  /\ f.null \/ f.state # "in" => f.text = <<>>
  /\ f.state = "only" => f.cmd.name = None
  /\ CmdOK(f.cmd)

\* a frame that waits for one above has a command that may have that argument
Waits(f, g) == /\ f.cmd.name \notin {None, "\\"}
               /\ g.kind # "post" /\ (g.kind = "square" => ~f.cmd.square)

FramesInv ==
  /\ \E S : frames \in Seq(S)
  /\ frames # <<>> /\ frames[1].kind = "post"
  /\ \A i \in DOMAIN frames : FrameOK(frames[i])
  /\ \A i \in 1..(Len(frames) - 1) : Waits(frames[i], frames[i + 1])

\* a post is accepted when no argument is open
AcceptInv == outcome = "ok" => Len(frames) = 1 /\ Cmd.name = None

IInv == FramesInv /\ AcceptInv /\ RefsConsumedOnce

LEMMA TopIs ==
  ASSUME FramesInv
  PROVE  /\ Len(frames) \in Nat \ {0} /\ DOMAIN frames = 1..Len(frames)
         /\ FrameOK(Top) /\ (Top.kind = "post" <=> Len(frames) = 1)
<1>1. PICK S : frames \in Seq(S)
  BY DEF FramesInv
<1>2. Len(frames) \in Nat \ {0} /\ DOMAIN frames = 1..Len(frames)
  BY <1>1 DEF FramesInv
<1>3. FrameOK(Top)
  BY <1>2 DEF FramesInv, Top
<1>4. Len(frames) # 1 => Top.kind # "post"
  <2> SUFFICES ASSUME Len(frames) # 1 PROVE Top.kind # "post"
    OBVIOUS
  <2> DEFINE n == Len(frames)
  <2>1. n - 1 \in 1..(n - 1) /\ (n - 1) + 1 = n
    BY <1>2
  <2>2. Waits(frames[n - 1], frames[(n - 1) + 1])
    BY <2>1 DEF FramesInv
  <2> QED BY <2>1, <2>2 DEF Waits, Top
<1> QED BY <1>2, <1>3, <1>4 DEF FramesInv, Top

\* The frames that are left get a new top of the old one's kind.
LEMMA NewTop ==
  ASSUME FramesInv, NEW n \in 1..Len(frames), NEW f, FrameOK(f), f.kind = frames[n].kind,
         frames' = [i \in 1..n |-> IF i < n THEN frames[i] ELSE f]
  PROVE  FramesInv' /\ Len(frames') = n /\ Top' = f
<1>1. PICK S : frames \in Seq(S)
  BY DEF FramesInv
<1>2. Len(frames) \in Nat \ {0} /\ DOMAIN frames = 1..Len(frames) /\ n \in Nat \ {0}
  BY TopIs
<1>3. frames' \in [1..n -> S \cup {f}]
  <2>1. \A i \in 1..n : i \in 1..Len(frames)
    BY <1>2
  <2> QED BY <1>1, <1>2, <2>1
<1>4. frames' \in Seq(S \cup {f}) /\ Len(frames') = n /\ DOMAIN frames' = 1..n
  BY <1>2, <1>3
<1>5. frames'[n] = f /\ \A i \in 1..(n - 1) : frames'[i] = frames[i] /\ i \in DOMAIN frames
  BY <1>2
<1>6. \A i \in 1..n : i \in 1..(n - 1) \/ i = n
  BY <1>2
<1>7. \A i \in DOMAIN frames' : FrameOK(frames'[i])
  BY <1>4, <1>5, <1>6 DEF FramesInv
<1>8. \A i \in 1..n : frames'[i].kind = frames[i].kind
  BY <1>5, <1>6
<1>9. \A i \in 1..(n - 1) : Waits(frames'[i], frames'[i + 1])
  <2> TAKE i \in 1..(n - 1)
  <2>1. i \in 1..(Len(frames) - 1) /\ i + 1 \in 1..n
    BY <1>2
  <2>2. Waits(frames[i], frames[i + 1])
    BY <2>1 DEF FramesInv
  <2>3. frames'[i + 1].kind = frames[i + 1].kind /\ frames'[i] = frames[i]
    BY <1>5, <1>8, <2>1
  <2> QED BY <2>2, <2>3 DEF Waits
<1>10. frames' # <<>> /\ frames'[1].kind = "post"
  <2>1. 1 \in 1..n
    BY <1>2
  <2>2. frames'[1].kind = "post"
    BY <1>8, <2>1 DEF FramesInv
  <2>3. frames' # <<>>
    BY <1>2, <1>4
  <2> QED BY <2>2, <2>3
<1>11. FramesInv'
  BY <1>4, <1>7, <1>9, <1>10 DEF FramesInv
<1> QED BY <1>4, <1>5, <1>11 DEF Top

LEMMA TopSet ==
  ASSUME FramesInv, NEW f, FrameOK(f), f.kind = Top.kind, SetTop(f)
  PROVE  FramesInv'
<1> DEFINE n == Len(frames)
<1>1. n \in Nat \ {0} /\ DOMAIN frames = 1..n /\ n \in 1..n
  BY TopIs
<1>2. PICK S : frames \in Seq(S)
  BY DEF FramesInv
<1>3. frames \in [1..n -> S]
  BY <1>1, <1>2
<1>4. frames' = [frames EXCEPT ![n] = f]
  BY DEF SetTop
<1> HIDE DEF n
<1>5. frames' = [i \in 1..n |-> IF i < n THEN frames[i] ELSE f]
  <2>1. \A i \in 1..n : i < n <=> i # n
    BY <1>1
  <2>2. [frames EXCEPT ![n] = f] = [i \in 1..n |-> IF i # n THEN frames[i] ELSE f]
    BY <1>1, <1>3
  <2> QED BY <1>4, <2>1, <2>2
<1>6. f.kind = frames[n].kind
  BY DEF Top, n
<1> QED BY <1>1, <1>5, <1>6, NewTop DEF n

\* an argument is opened
LEMMA FramePushed ==
  ASSUME FramesInv, NEW g, FrameOK(g), Waits(Top, g), frames' = Append(frames, g)
  PROVE  FramesInv'
<1> DEFINE n == Len(frames)
<1>1. n \in Nat \ {0} /\ DOMAIN frames = 1..n
  BY TopIs
<1>2. PICK S : frames \in Seq(S)
  BY DEF FramesInv
<1>3. frames \in Seq(S \cup {g})
  BY <1>2
<1>4. /\ frames' \in Seq(S \cup {g}) /\ Len(frames') = n + 1 /\ DOMAIN frames' = 1..(n + 1)
      /\ frames'[n + 1] = g /\ \A i \in 1..n : frames'[i] = frames[i]
  BY <1>1, <1>3
<1>5. \A i \in 1..(n + 1) : i \in 1..n \/ i = n + 1
  BY <1>1
<1>6. Top = frames[n]
  BY DEF Top
<1> HIDE DEF n
<1>7. \A i \in DOMAIN frames' : FrameOK(frames'[i])
  BY <1>1, <1>4, <1>5 DEF FramesInv
<1>8. \A i \in 1..(Len(frames') - 1) : Waits(frames'[i], frames'[i + 1])
  <2> SUFFICES ASSUME NEW i \in 1..n PROVE Waits(frames'[i], frames'[i + 1])
    BY <1>1, <1>4
  <2>1. CASE i = n
    BY <1>4, <1>6, <2>1
  <2>2. CASE i # n
    <3>1. i \in 1..(n - 1) /\ i + 1 \in 1..n
      BY <1>1, <2>2
    <3>2. Waits(frames[i], frames[i + 1])
      BY <3>1 DEF FramesInv, n
    <3> QED BY <1>4, <3>1, <3>2
  <2> QED BY <2>1, <2>2
<1>9. frames' # <<>> /\ frames'[1].kind = "post"
  <2>1. 1 \in 1..n
    BY <1>1
  <2>2. frames'[1].kind = "post"
    BY <1>4, <2>1 DEF FramesInv
  <2> QED BY <1>1, <1>4, <2>2
<1> QED BY <1>4, <1>7, <1>8, <1>9 DEF FramesInv

LEMMA ThingAdded ==
  ASSUME NEW f, FrameOK(f), NEW html, NEW isNull \in BOOLEAN, isNull => html = <<>>
  PROVE  FrameOK(AddThing(f, html, isNull)) /\ AddThing(f, html, isNull).kind = f.kind
<1> DEFINE g == AddThing(f, html, isNull)
<1>1. /\ DOMAIN g = FrameFields /\ g.kind = f.kind /\ g.paras = f.paras /\ g.text = f.text \o html
      /\ g.state = "in" /\ g.cmd = NoCommand
  BY DEF FrameOK, FrameFields, AddThing
<1>2. g.null = (isNull /\ f.state # "in")
  BY DEF FrameOK, FrameFields, AddThing
<1>3. CmdOK(NoCommand)
  BY DEF CmdOK, NoCommand
<1> HIDE DEF g
<1>4. g.null \in BOOLEAN
  BY <1>2
<1>5. g.null => g.text = <<>>
  <2> SUFFICES ASSUME g.null PROVE g.text = <<>>
    OBVIOUS
  <2>1. isNull /\ f.state # "in"
    BY <1>2
  <2>2. f.text = <<>> /\ html = <<>>
    BY <2>1 DEF FrameOK
  <2> QED BY <1>1, <2>2
<1> QED BY <1>1, <1>3, <1>4, <1>5 DEF FrameOK, g, NoCommand

-----------------------------------------------------------------------------
(* References to the strings of arguments *)

Html(html) == \E S : html \in Seq(S)

Args == {"txt", "opt"}

Places(html, arg) == {i \in DOMAIN html : html[i] = [arg |-> arg]}

\* how often an argument is in a command's HTML
Uses(html, arg) == Cardinality(Places(html, arg))

LEMMA SeqDomain ==
  ASSUME NEW html, Html(html)
  PROVE  Len(html) \in Nat /\ DOMAIN html = 1..Len(html)
BY DEF Html

LEMMA PlacesFinite ==
  ASSUME NEW html, Html(html), NEW arg
  PROVE  IsFiniteSet(Places(html, arg)) /\ Uses(html, arg) \in Nat
<1>1. IsFiniteSet(1..Len(html)) /\ DOMAIN html = 1..Len(html)
  BY FS_Interval, SeqDomain
<1>2. Places(html, arg) \subseteq 1..Len(html)
  BY <1>1 DEF Places
<1>3. IsFiniteSet(Places(html, arg))
  BY <1>1, <1>2, FS_Subset
<1> QED BY <1>3, FS_CardinalityType DEF Uses

LEMMA UsesNone == ASSUME NEW arg PROVE Html(<<>>) /\ Uses(<<>>, arg) = 0
<1>1. Places(<<>>, arg) = {}
  BY DEF Places
<1>2. <<>> \in Seq({})
  OBVIOUS
<1> QED BY <1>1, <1>2, FS_EmptySet DEF Uses, Html

LEMMA UsesOne ==
  ASSUME NEW x, NEW arg
  PROVE  Html(<<x>>) /\ Uses(<<x>>, arg) = IF x = [arg |-> arg] THEN 1 ELSE 0
<1>1. Places(<<x>>, arg) = IF x = [arg |-> arg] THEN {1} ELSE {}
  BY DEF Places
<1>2. <<x>> \in Seq({x})
  OBVIOUS
<1> QED BY <1>1, <1>2, FS_EmptySet, FS_Singleton DEF Uses, Html

\* the places of the second of two pieces of HTML, moved
LEMMA UsesMoved ==
  ASSUME NEW S, S \subseteq Nat, IsFiniteSet(S), NEW n \in Nat
  PROVE  LET M == {n + i : i \in S} IN IsFiniteSet(M) /\ Cardinality(M) = Cardinality(S)
<1> DEFINE M == {n + i : i \in S}
           f == [i \in S |-> n + i]
<1>1. f \in Bijection(S, M)
  <2>1. f \in [S -> M]
    OBVIOUS
  <2>2. \A i, j \in S : f[i] = f[j] => i = j
    OBVIOUS
  <2>3. \A m \in M : \E i \in S : f[i] = m
    OBVIOUS
  <2> HIDE DEF f, M
  <2> QED BY <2>1, <2>2, <2>3 DEF Bijection, Injection, Surjection, IsInjective
<1>2. ExistsBijection(S, M)
  BY <1>1 DEF ExistsBijection
<1> HIDE DEF M
<1> QED BY <1>2, FS_Bijection DEF M

LEMMA UsesJoined ==
  ASSUME NEW s, Html(s), NEW t, Html(t), NEW arg
  PROVE  Html(s \o t) /\ Uses(s \o t, arg) = Uses(s, arg) + Uses(t, arg)
<1> DEFINE A == Places(s, arg)
           B == Places(t, arg)
           M == {Len(s) + i : i \in B}
           st == s \o t
<1>0. PICK S : s \in Seq(S) /\ t \in Seq(S)
  <2>1. PICK X, Y : s \in Seq(X) /\ t \in Seq(Y)
    BY DEF Html
  <2>2. s \in Seq(X \cup Y) /\ t \in Seq(X \cup Y)
    BY <2>1
  <2> QED BY <2>2
<1>1. /\ st \in Seq(S) /\ Len(s) \in Nat /\ Len(t) \in Nat
      /\ DOMAIN s = 1..Len(s) /\ DOMAIN t = 1..Len(t) /\ DOMAIN st = 1..(Len(s) + Len(t))
      /\ \A i \in 1..Len(s) : st[i] = s[i]
      /\ \A i \in 1..Len(t) : st[Len(s) + i] = t[i]
  BY <1>0
<1> HIDE DEF st
<1>2. Places(st, arg) = A \cup M
  <2>1. ASSUME NEW i \in Places(st, arg) PROVE i \in A \cup M
    <3>1. i \in 1..(Len(s) + Len(t)) /\ st[i] = [arg |-> arg]
      BY <1>1, <2>1 DEF Places
    <3>2. CASE i <= Len(s)
      <4>1. i \in 1..Len(s) /\ s[i] = [arg |-> arg]
        BY <1>1, <3>1, <3>2
      <4> QED BY <1>1, <4>1 DEF Places
    <3>3. CASE ~(i <= Len(s))
      <4>1. i - Len(s) \in 1..Len(t) /\ i = Len(s) + (i - Len(s))
        BY <1>1, <3>1, <3>3
      <4>2. t[i - Len(s)] = [arg |-> arg]
        BY <1>1, <3>1, <4>1
      <4> QED BY <1>1, <4>1, <4>2 DEF Places
    <3> QED BY <3>2, <3>3
  <2>2. A \subseteq Places(st, arg)
    BY <1>1 DEF Places
  <2>3. ASSUME NEW i \in B PROVE Len(s) + i \in Places(st, arg)
    BY <1>1 DEF Places
  <2> QED BY <2>1, <2>2, <2>3
<1>3. A \cap M = {}
  BY <1>1 DEF Places
<1>4. IsFiniteSet(A) /\ IsFiniteSet(B) /\ B \subseteq Nat
  BY <1>1, PlacesFinite DEF Places
<1>5. IsFiniteSet(M) /\ Cardinality(M) = Cardinality(B)
  BY <1>1, <1>4, UsesMoved
<1>6. Cardinality(A) \in Nat /\ Cardinality(B) \in Nat
  BY <1>4, FS_CardinalityType
<1> HIDE DEF A, B, M
<1>7. Cardinality(A \cup M) = Cardinality(A) + Cardinality(M) - Cardinality(A \cap M)
  BY <1>4, <1>5, FS_Union
<1>8. Cardinality(A \cup M) = Cardinality(A) + Cardinality(B)
  BY <1>3, <1>5, <1>6, <1>7, FS_EmptySet
<1> QED BY <1>1, <1>2, <1>8 DEF Uses, A, B, st, Html

LEMMA UsesPieces ==
  ASSUME NEW e, NEW arg
  PROVE  /\ Html(<<Open(e)>>) /\ Html(<<Close(e)>>) /\ Html(<<Says(e)>>)
         /\ Html(<<Txt>>) /\ Html(<<Opt>>)
         /\ Uses(<<Open(e)>>, arg) = 0 /\ Uses(<<Close(e)>>, arg) = 0 /\ Uses(<<Says(e)>>, arg) = 0
         /\ Uses(<<Txt>>, arg) = IF arg = "txt" THEN 1 ELSE 0
         /\ Uses(<<Opt>>, arg) = IF arg = "opt" THEN 1 ELSE 0
<1>1. Open(e) # [arg |-> arg] /\ Close(e) # [arg |-> arg] /\ Says(e) # [arg |-> arg]
  <2>1. /\ DOMAIN Open(e) = {"open"} /\ DOMAIN Close(e) = {"close"} /\ DOMAIN Says(e) = {"says"}
        /\ DOMAIN [arg |-> arg] = {"arg"}
    BY DEF Open, Close, Says
  <2> QED BY <2>1
<1>2. Txt.arg = "txt" /\ Opt.arg = "opt" /\ [arg |-> arg].arg = arg
  BY DEF Txt, Opt
<1>3. (Txt = [arg |-> arg] <=> arg = "txt") /\ (Opt = [arg |-> arg] <=> arg = "opt")
  BY <1>2 DEF Txt, Opt
<1> QED BY <1>1, <1>3, UsesOne

\* tags around a piece use nothing
LEMMA UsesIn ==
  ASSUME NEW e, NEW html, Html(html), NEW arg
  PROVE  /\ Html(In(e, html)) /\ Uses(In(e, html), arg) = Uses(html, arg)
         /\ Html(Block(html)) /\ Uses(Block(html), arg) = Uses(html, arg)
<1> DEFINE o == <<Open(e)>>
           c == <<Close(e)>>
           p == <<Open("p")>>
           q == <<Close("p")>>
<1>1. /\ Html(o) /\ Html(c) /\ Html(p) /\ Html(q)
      /\ Uses(o, arg) = 0 /\ Uses(c, arg) = 0 /\ Uses(p, arg) = 0 /\ Uses(q, arg) = 0
  BY UsesPieces
<1>2. Uses(html, arg) \in Nat
  BY PlacesFinite
<1>3. In(e, html) = o \o html \o c /\ Block(html) = q \o html \o p
  BY DEF In, Block
<1> HIDE DEF o, c, p, q
<1>4. /\ Html(o \o html) /\ Uses(o \o html, arg) = Uses(html, arg)
      /\ Html(q \o html) /\ Uses(q \o html, arg) = Uses(html, arg)
  BY <1>1, <1>2, UsesJoined
<1>5. /\ Html(o \o html \o c) /\ Uses(o \o html \o c, arg) = Uses(html, arg)
      /\ Html(q \o html \o p) /\ Uses(q \o html \o p, arg) = Uses(html, arg)
  BY <1>1, <1>2, <1>4, UsesJoined
<1> QED BY <1>3, <1>5

LEMMA OneOrNone ==
  ASSUME NEW arg, NEW S
  PROVE  Cardinality({arg} \cap S) = IF arg \in S THEN 1 ELSE 0
<1>1. {arg} \cap S = IF arg \in S THEN {arg} ELSE {}
  OBVIOUS
<1> QED BY <1>1, FS_EmptySet, FS_Singleton

LEMMA LeftIs ==
  ASSUME NEW square, NEW curly, NEW html, NEW get, NEW put, NEW arg
  PROVE  Left(Command(square, curly, html, get, put), arg)
           = 1 + (IF arg \in get THEN 1 ELSE 0) - (IF arg \in put THEN 1 ELSE 0) - Uses(html, arg)
<1> DEFINE c == Command(square, curly, html, get, put)
<1>1. c.html = html /\ ~c.buffered /\ c.get = get /\ c.put = put
  BY DEF Command
<1> HIDE DEF c
<1>2. {i \in DOMAIN c.html : ~c.buffered /\ c.html[i] = [arg |-> arg]} = Places(html, arg)
  BY <1>1 DEF Places
<1> QED BY <1>1, <1>2, OneOrNone DEF Left, Uses, c

\* a command that writes into a buffer
LEMMA LeftBuffered ==
  ASSUME NEW c, c.buffered, NEW arg
  PROVE  Left(c, arg) = 1 + (IF arg \in c.get THEN 1 ELSE 0) - (IF arg \in c.put THEN 1 ELSE 0)
<1>1. {i \in DOMAIN c.html : ~c.buffered /\ c.html[i] = [arg |-> arg]} = {}
  OBVIOUS
<1>2. Cardinality({i \in DOMAIN c.html : ~c.buffered /\ c.html[i] = [arg |-> arg]}) = 0
  BY <1>1, FS_EmptySet
<1> QED BY <1>2, OneOrNone DEF Left

-----------------------------------------------------------------------------
(* Each command *)

\* a command that is given what it may be given puts each string once
Once(c, hasOpt, hasTxt) ==
  Fits(c.square, hasOpt) /\ Fits(c.curly, hasTxt) =>
    /\ hasTxt => Left(c, "txt") = 0
    /\ hasOpt => Left(c, "opt") = 0

LEMMA ReqOnce ==
  ASSUME NEW html, Uses(html, "txt") = 1, NEW hasOpt \in BOOLEAN, NEW hasTxt \in BOOLEAN
  PROVE  Once(Req(html), hasOpt, hasTxt)
<1>1. Left(Req(html), "txt") = 0
  BY LeftIs DEF Req
<1>2. Req(html).square = "PROHIBITED"
  BY DEF Req, Command
<1> QED BY <1>1, <1>2 DEF Once, Fits

\* of a command without arguments
LEMMA NonOnce ==
  ASSUME NEW html, NEW hasOpt \in BOOLEAN, NEW hasTxt \in BOOLEAN
  PROVE  Once(Non(html), hasOpt, hasTxt)
BY DEF Once, Fits, Non, Command

LEMMA NamesOnce ==
  ASSUME NEW hasOpt \in BOOLEAN, NEW hasTxt \in BOOLEAN
  PROVE  Once(Nop, hasOpt, hasTxt) /\ Once(Environment, hasOpt, hasTxt)
<1>1. Uses(<<>>, "txt") = 0
  BY UsesNone
<1>2. Left(Nop, "txt") = 0 /\ Left(Environment, "txt") = 0
  BY <1>1, LeftIs DEF Nop, Environment
<1>3. Nop.square = "PROHIBITED" /\ Environment.square = "PROHIBITED"
  BY DEF Nop, Environment, Command
<1> QED BY <1>2, <1>3 DEF Once, Fits

\* the label of a link, or else its address again
Label(hasOpt) == IF hasOpt THEN <<Opt>> ELSE <<Txt>>

LEMMA LabelUses ==
  ASSUME NEW hasOpt \in BOOLEAN
  PROVE  /\ Html(Label(hasOpt))
         /\ Uses(Label(hasOpt), "opt") = (IF hasOpt THEN 1 ELSE 0)
         /\ Uses(Label(hasOpt), "txt") = (IF hasOpt THEN 0 ELSE 1)
<1>1. /\ Html(<<Txt>>) /\ Html(<<Opt>>)
      /\ Uses(<<Txt>>, "txt") = 1 /\ Uses(<<Txt>>, "opt") = 0
      /\ Uses(<<Opt>>, "txt") = 0 /\ Uses(<<Opt>>, "opt") = 1
  BY UsesPieces
<1> QED BY <1>1 DEF Label

LEMMA AddressUses ==
  LET attr == In("attr", <<Txt>>)
  IN Html(attr) /\ Uses(attr, "txt") = 1 /\ Uses(attr, "opt") = 0
<1> DEFINE txt == <<Txt>>
<1>1. Html(txt) /\ Uses(txt, "txt") = 1 /\ Uses(txt, "opt") = 0
  BY UsesPieces
<1> HIDE DEF txt
<1>2. Html(In("attr", txt)) /\ Uses(In("attr", txt), "txt") = 1 /\ Uses(In("attr", txt), "opt") = 0
  BY <1>1, UsesIn
<1> QED BY <1>2 DEF txt

LEMMA IconUses == Html(Icon) /\ Uses(Icon, "txt") = 0 /\ Uses(Icon, "opt") = 0
<1> DEFINE says == <<Says("icon")>>
<1>1. Html(says) /\ Uses(says, "txt") = 0 /\ Uses(says, "opt") = 0
  BY UsesPieces
<1> HIDE DEF says
<1>2. Html(In("attr", says)) /\ Uses(In("attr", says), "txt") = 0 /\ Uses(In("attr", says), "opt") = 0
  BY <1>1, UsesIn
<1> QED BY <1>2 DEF Icon, says

\* commands that take their text again when there is no label
LEMMA LabelledOnce ==
  ASSUME NEW html, NEW hasOpt \in BOOLEAN, NEW hasTxt \in BOOLEAN,
         Uses(html, "txt") = (IF hasOpt THEN 1 ELSE 2), hasOpt => Uses(html, "opt") = 1
  PROVE  Once(Command("ALLOWED", "REQUIRED", html, IF hasOpt THEN {} ELSE {"txt"}, {}), hasOpt, hasTxt)
<1> DEFINE get == IF hasOpt THEN {} ELSE {"txt"}
           c == Command("ALLOWED", "REQUIRED", html, get, {})
<1>1. ("txt" \in get <=> ~hasOpt) /\ "opt" \notin get
  OBVIOUS
<1> HIDE DEF get
<1>2. /\ Left(c, "txt") = 1 + (IF "txt" \in get THEN 1 ELSE 0) - Uses(html, "txt")
      /\ Left(c, "opt") = 1 + (IF "opt" \in get THEN 1 ELSE 0) - Uses(html, "opt")
  BY LeftIs
<1> HIDE DEF c
<1>3. Left(c, "txt") = 0 /\ (hasOpt => Left(c, "opt") = 0)
  BY <1>1, <1>2
<1> QED BY <1>3 DEF Once, c, get

LEMMA LinksOnce ==
  ASSUME NEW hasOpt \in BOOLEAN, NEW hasTxt \in BOOLEAN
  PROVE  Once(Link(hasOpt), hasOpt, hasTxt) /\ Once(Wiki(hasOpt), hasOpt, hasTxt)
<1> DEFINE attr == In("attr", <<Txt>>)
           link == attr \o Label(hasOpt)
           wiki == attr \o Icon \o Label(hasOpt)
<1>1. /\ Html(attr) /\ Uses(attr, "txt") = 1 /\ Uses(attr, "opt") = 0
      /\ Html(Icon) /\ Uses(Icon, "txt") = 0 /\ Uses(Icon, "opt") = 0
      /\ Html(Label(hasOpt))
      /\ Uses(Label(hasOpt), "opt") = (IF hasOpt THEN 1 ELSE 0)
      /\ Uses(Label(hasOpt), "txt") = (IF hasOpt THEN 0 ELSE 1)
  BY AddressUses, IconUses, LabelUses
<1>2. Html(attr \o Icon) /\ Uses(attr \o Icon, "txt") = 1 /\ Uses(attr \o Icon, "opt") = 0
  <2> HIDE DEF attr
  <2> QED BY <1>1, UsesJoined
<1>3. /\ Html(link) /\ Uses(link, "txt") = (IF hasOpt THEN 1 ELSE 2)
      /\ Uses(link, "opt") = (IF hasOpt THEN 1 ELSE 0)
  <2> HIDE DEF attr
  <2> QED BY <1>1, UsesJoined
<1>4. /\ Html(wiki) /\ Uses(wiki, "txt") = (IF hasOpt THEN 1 ELSE 2)
      /\ Uses(wiki, "opt") = (IF hasOpt THEN 1 ELSE 0)
  <2> HIDE DEF attr
  <2> QED BY <1>1, <1>2, UsesJoined
<1> HIDE DEF link, wiki
<1>5. /\ Uses(In("a", link), "txt") = Uses(link, "txt") /\ Uses(In("a", link), "opt") = Uses(link, "opt")
      /\ Uses(In("a", wiki), "txt") = Uses(wiki, "txt") /\ Uses(In("a", wiki), "opt") = Uses(wiki, "opt")
  BY <1>3, <1>4, UsesIn
<1>6. \A html \in {In("a", link), In("a", wiki)} :
        Uses(html, "txt") = (IF hasOpt THEN 1 ELSE 2) /\ (hasOpt => Uses(html, "opt") = 1)
  BY <1>3, <1>4, <1>5
<1>7. \A html \in {In("a", link), In("a", wiki)} :
        Once(Command("ALLOWED", "REQUIRED", html, IF hasOpt THEN {} ELSE {"txt"}, {}), hasOpt, hasTxt)
  BY <1>6, LabelledOnce
<1>8. /\ Link(hasOpt) = Command("ALLOWED", "REQUIRED", In("a", link), IF hasOpt THEN {} ELSE {"txt"}, {})
      /\ Wiki(hasOpt) = Command("ALLOWED", "REQUIRED", In("a", wiki), IF hasOpt THEN {} ELSE {"txt"}, {})
  BY DEF Link, Wiki, link, wiki, Label
<1> QED BY <1>7, <1>8

LEMMA AbbrevOnce ==
  ASSUME NEW hasOpt \in BOOLEAN, NEW hasTxt \in BOOLEAN
  PROVE  Once(Abbrev(hasOpt), hasOpt, hasTxt)
<1> DEFINE label == Label(hasOpt)
           txt == <<Txt>>
           attr == In("attr", label)
           both == attr \o txt
           html == In("abbr", both)
<1>1. /\ Html(label) /\ Uses(label, "opt") = (IF hasOpt THEN 1 ELSE 0)
      /\ Uses(label, "txt") = (IF hasOpt THEN 0 ELSE 1)
  BY LabelUses
<1>2. Html(txt) /\ Uses(txt, "txt") = 1 /\ Uses(txt, "opt") = 0
  BY UsesPieces
<1>3. Abbrev(hasOpt) = Command("ALLOWED", "REQUIRED", html, IF hasOpt THEN {} ELSE {"txt"}, {})
  BY DEF Abbrev, Label
<1> HIDE DEF label, txt
<1>4. Html(attr) /\ Uses(attr, "txt") = Uses(label, "txt") /\ Uses(attr, "opt") = Uses(label, "opt")
  BY <1>1, UsesIn
<1> HIDE DEF attr
<1>5. /\ Html(both) /\ Uses(both, "txt") = Uses(attr, "txt") + Uses(txt, "txt")
      /\ Uses(both, "opt") = Uses(attr, "opt") + Uses(txt, "opt")
  BY <1>2, <1>4, UsesJoined
<1> HIDE DEF both
<1>6. Uses(html, "txt") = Uses(both, "txt") /\ Uses(html, "opt") = Uses(both, "opt")
  BY <1>5, UsesIn
<1> HIDE DEF html
<1>7. Uses(html, "txt") = (IF hasOpt THEN 1 ELSE 2) /\ (hasOpt => Uses(html, "opt") = 1)
  BY <1>1, <1>2, <1>4, <1>5, <1>6
<1> QED BY <1>3, <1>7, LabelledOnce

\* a command that uses each of its arguments in one place
LEMMA PlainOnce ==
  ASSUME NEW square, NEW html, NEW hasOpt \in BOOLEAN, NEW hasTxt \in BOOLEAN,
         Uses(html, "txt") = 1, hasOpt => Uses(html, "opt") = 1
  PROVE  Once(Command(square, "REQUIRED", html, {}, {}), hasOpt, hasTxt)
<1> DEFINE c == Command(square, "REQUIRED", html, {}, {})
<1>1. Left(c, "txt") = 0 /\ (hasOpt => Left(c, "opt") = 0)
  BY LeftIs
<1> QED BY <1>1 DEF Once

LEMMA ImageOnce ==
  ASSUME NEW hasOpt \in BOOLEAN, NEW hasTxt \in BOOLEAN
  PROVE  Once(Image, hasOpt, hasTxt)
<1> DEFINE html == <<Open("attr"), Txt, Opt, Close("attr")>>
<1>1. Open("attr") \notin {Txt, Opt} /\ Close("attr") \notin {Txt, Opt} /\ Txt # Opt
  <2>1. /\ DOMAIN Open("attr") = {"open"} /\ DOMAIN Close("attr") = {"close"}
        /\ DOMAIN Txt = {"arg"} /\ DOMAIN Opt = {"arg"} /\ Txt.arg = "txt" /\ Opt.arg = "opt"
    BY DEF Open, Close, Txt, Opt
  <2> QED BY <2>1
<1>2. Places(html, "txt") = {2} /\ Places(html, "opt") = {3}
  BY <1>1 DEF Places, Txt, Opt
<1> HIDE DEF html
<1>3. Uses(html, "txt") = 1 /\ Uses(html, "opt") = 1
  BY <1>2, FS_Singleton DEF Uses
<1> QED BY <1>3, PlainOnce DEF Image, html

LEMMA ItemOnce ==
  ASSUME NEW hasOpt \in BOOLEAN, NEW hasTxt \in BOOLEAN
  PROVE  Once(Item(hasOpt), hasOpt, hasTxt)
<1> DEFINE txt == <<Txt>>
           opt == <<Opt>>
           dt == In("dt", opt)
           dd == In("dd", txt)
           html == IF hasOpt THEN dt \o dd ELSE In("li", txt)
<1>1. /\ Html(txt) /\ Uses(txt, "txt") = 1 /\ Uses(txt, "opt") = 0
      /\ Html(opt) /\ Uses(opt, "txt") = 0 /\ Uses(opt, "opt") = 1
  BY UsesPieces
<1>2. Item(hasOpt) = Command("ALLOWED", "REQUIRED", html, {}, {})
  BY DEF Item
<1> HIDE DEF txt, opt
<1>3. /\ Html(dt) /\ Uses(dt, "txt") = 0 /\ Uses(dt, "opt") = 1
      /\ Html(dd) /\ Uses(dd, "txt") = 1 /\ Uses(dd, "opt") = 0
      /\ Uses(In("li", txt), "txt") = 1
  BY <1>1, UsesIn
<1> HIDE DEF dt, dd
<1>4. Uses(dt \o dd, "txt") = 1 /\ Uses(dt \o dd, "opt") = 1
  BY <1>3, UsesJoined
<1>5. Uses(html, "txt") = 1 /\ (hasOpt => Uses(html, "opt") = 1)
  BY <1>3, <1>4
<1> HIDE DEF html
<1> QED BY <1>2, <1>5, PlainOnce

LEMMA ListingOnce ==
  ASSUME NEW hasOpt \in BOOLEAN, NEW hasTxt \in BOOLEAN
  PROVE  Once(Listing, hasOpt, hasTxt)
<1> DEFINE says == <<Says("file")>>
           pre == In("pre", says)
           html == Block(pre)
<1>1. Html(says) /\ Uses(says, "txt") = 0 /\ Uses(says, "opt") = 0
  BY UsesPieces
<1>2. Listing = Command("ALLOWED", "REQUIRED", html, {}, {"txt", "opt"})
  BY DEF Listing
<1> HIDE DEF says
<1>3. Html(pre) /\ Uses(pre, "txt") = 0 /\ Uses(pre, "opt") = 0
  BY <1>1, UsesIn
<1> HIDE DEF pre
<1>4. Uses(html, "txt") = 0 /\ Uses(html, "opt") = 0
  BY <1>3, UsesIn
<1> HIDE DEF html
<1>5. Left(Listing, "txt") = 0 /\ Left(Listing, "opt") = 0
  BY <1>2, <1>4, LeftIs
<1> QED BY <1>5 DEF Once

LEMMA BufferedOnce ==
  ASSUME NEW hasOpt \in BOOLEAN, NEW hasTxt \in BOOLEAN
  PROVE  Once(BufferedLink(hasOpt), hasOpt, hasTxt)
<1> DEFINE c == BufferedLink(hasOpt)
<1>1. c.buffered /\ c.get = {} /\ c.put = {"txt", "opt"}
  BY DEF BufferedLink, Link, Command
<1> HIDE DEF c
<1>2. Left(c, "txt") = 0 /\ Left(c, "opt") = 0
  BY <1>1, LeftBuffered
<1> QED BY <1>2 DEF Once, c

LEMMA BugOnce ==
  ASSUME NEW hasOpt \in BOOLEAN, NEW hasTxt \in BOOLEAN
  PROVE  Once(Bug, hasOpt, hasTxt)
<1> DEFINE attr == In("attr", <<Txt>>)
           txt == <<Txt>>
           icon == attr \o Icon
           html == icon \o txt
<1>1. Html(txt) /\ Uses(txt, "txt") = 1
  BY UsesPieces
<1>2. Html(attr) /\ Uses(attr, "txt") = 1 /\ Html(Icon) /\ Uses(Icon, "txt") = 0
  BY AddressUses, IconUses
<1>3. Bug = Command("PROHIBITED", "REQUIRED", In("a", html), {"txt"}, {})
  BY DEF Bug
<1> HIDE DEF attr, txt
<1>4. Html(icon) /\ Uses(icon, "txt") = 1
  BY <1>2, UsesJoined
<1> HIDE DEF icon
<1>5. Html(html) /\ Uses(html, "txt") = 2
  BY <1>1, <1>4, UsesJoined
<1> HIDE DEF html
<1>6. Uses(In("a", html), "txt") = 2
  BY <1>5, UsesIn
<1>7. Left(Bug, "txt") = 0
  BY <1>3, <1>6, LeftIs
<1>8. Bug.square = "PROHIBITED"
  BY DEF Bug, Command
<1> QED BY <1>7, <1>8 DEF Once, Fits

\* the commands that put their text between tags
LEMMA TaggedOnce ==
  ASSUME NEW hasOpt \in BOOLEAN, NEW hasTxt \in BOOLEAN, NEW e
  PROVE  /\ Once(Req(In(e, <<Txt>>)), hasOpt, hasTxt)
         /\ Once(Req(Block(In(e, <<Txt>>))), hasOpt, hasTxt)
         /\ Once(Req(In("tr", In(e, <<Txt>>))), hasOpt, hasTxt)
         /\ Once(Req(<<Says(e), Txt>>), hasOpt, hasTxt)
<1> DEFINE txt == <<Txt>>
           in == In(e, txt)
<1>1. Html(txt) /\ Uses(txt, "txt") = 1
  BY UsesPieces
<1>2. Uses(<<Says(e), Txt>>, "txt") = 1
  <2>1. Says(e) # Txt
    <3>1. DOMAIN Says(e) = {"says"} /\ DOMAIN Txt = {"arg"}
      BY DEF Says, Txt
    <3> QED BY <3>1
  <2>2. Places(<<Says(e), Txt>>, "txt") = {2}
    BY <2>1 DEF Places, Txt
  <2> QED BY <2>2, FS_Singleton DEF Uses
<1> HIDE DEF txt
<1>3. Html(in) /\ Uses(in, "txt") = 1
  BY <1>1, UsesIn
<1> HIDE DEF in
<1>4. Uses(Block(in), "txt") = 1 /\ Uses(In("tr", in), "txt") = 1
  BY <1>3, UsesIn
<1>5. /\ Once(Req(in), hasOpt, hasTxt) /\ Once(Req(Block(in)), hasOpt, hasTxt)
      /\ Once(Req(In("tr", in)), hasOpt, hasTxt) /\ Once(Req(<<Says(e), Txt>>), hasOpt, hasTxt)
  BY <1>2, <1>3, <1>4, ReqOnce
<1> QED BY <1>5 DEF in, txt

\* every entry of the table
LEMMA CommandsOnce ==
  ASSUME NEW hasOpt \in BOOLEAN, NEW hasTxt \in BOOLEAN, NEW name \in DOMAIN cmds(FALSE)
  PROVE  Once(cmds(hasOpt)[name], hasOpt, hasTxt)
<1> DEFINE c == cmds(hasOpt)[name]
<1>1. CASE name \in {"leftarrow", "leftrightarrow", "rightarrow", "tm"}
  <2>1. c \in {Non(<<Says("larr")>>), Non(<<Says("harr")>>), Non(<<Says("rarr")>>), Non(<<Says("trade")>>)}
    BY <1>1 DEF cmds
  <2> QED BY <2>1, NonOnce
<1>2. CASE name \in {"category", "tag", "title", "published", "begin", "end"}
  <2>1. c \in {Nop, Environment}
    BY <1>2 DEF cmds
  <2> QED BY <2>1, NamesOnce
<1>3. CASE name \in {"abbrev", "img", "item", "link", "listing", "photo", "photolink", "post",
                     "taglink", "wiki", "bug"}
  <2>1. c \in {Abbrev(hasOpt), Image, Item(hasOpt), Link(hasOpt), Listing, BufferedLink(hasOpt),
               Wiki(hasOpt), Bug}
    BY <1>3 DEF cmds
  <2> QED BY <2>1, AbbrevOnce, ImageOnce, ItemOnce, LinksOnce, ListingOnce, BufferedOnce, BugOnce
<1>4. CASE name \in {"degree", "emph", "section", "subsection", "subsubsection", "textbf", "textit",
                     "texttt", "trow"}
  <2>1. \/ c = Req(<<Says("deg"), Txt>>) \/ c = Req(In("tr", In("td", <<Txt>>)))
        \/ \E e \in {"em", "strong", "i", "span"} : c = Req(In(e, <<Txt>>))
        \/ \E e \in {"h3", "h4", "h5"} : c = Req(Block(In(e, <<Txt>>)))
    BY <1>4 DEF cmds
  <2> QED BY <2>1, TaggedOnce
<1>5. \/ name \in {"leftarrow", "leftrightarrow", "rightarrow", "tm"}
      \/ name \in {"category", "tag", "title", "published", "begin", "end"}
      \/ name \in {"abbrev", "img", "item", "link", "listing", "photo", "photolink", "post",
                   "taglink", "wiki", "bug"}
      \/ name \in {"degree", "emph", "section", "subsection", "subsubsection", "textbf", "textit",
                   "texttt", "trow"}
  BY DEF cmds
<1> QED BY <1>1, <1>2, <1>3, <1>4, <1>5

-----------------------------------------------------------------------------
(* The steps of the parser *)

LEMMA InitHolds == Init => IInv
<1> HAVE Init
<1> DEFINE f == Frame("post")
<1>1. FrameOK(f) /\ f.kind = "post" /\ f.cmd.name = None
  BY DEF Frame, FrameOK, FrameFields, CmdOK, NoCommand
<1> HIDE DEF f
<1>2. frames = <<f>>
  BY DEF Init, f
<1>3. frames \in Seq({f}) /\ Len(frames) = 1 /\ DOMAIN frames = {1} /\ frames[1] = f
  BY <1>2
<1>4. (\E S : frames \in Seq(S)) /\ frames # <<>>
  BY <1>3
<1>5. \A i \in 1..(Len(frames) - 1) : FALSE
  BY <1>3
<1>6. FramesInv
  BY <1>1, <1>3, <1>4, <1>5 DEF FramesInv
<1> QED BY <1>6 DEF Init, IInv, AcceptInv, RefsConsumedOnce

LEMMA ProcessCmdStep ==
  ASSUME IInv, NEW depth \in 1..Len(frames), NEW hasTxt \in BOOLEAN, NEW txt,
         outcome = "parsing", ProcessCmd(depth, hasTxt, txt)
  PROVE  FramesInv' /\ outcome' # "ok" /\ RefsConsumedOnce'
<1> DEFINE caller == frames[depth]
           name == caller.cmd.name
           hasOpt == caller.cmd.hasOpt
           c == cmds(hasOpt)[name]
<1>1. FramesInv /\ DOMAIN frames = 1..Len(frames) /\ ~unbalanced
  BY TopIs DEF IInv, RefsConsumedOnce
<1>2. FrameOK(caller)
  BY <1>1 DEF FramesInv
<1>3. hasOpt \in BOOLEAN
  BY <1>2 DEF FrameOK, CmdOK
<1>4. \/ \E h : /\ frames' = [i \in 1..depth |-> IF i < depth THEN frames[i]
                                               ELSE AddThing(caller, h, FALSE)]
                /\ outcome' = outcome
      \/ UNCHANGED frames /\ outcome' = "assert"
  BY DEF ProcessCmd
<1>5. FramesInv' /\ outcome' # "ok"
  <2>1. CASE UNCHANGED frames /\ outcome' = "assert"
    BY <1>1, <2>1 DEF FramesInv
  <2>2. CASE \E h : /\ frames' = [i \in 1..depth |-> IF i < depth THEN frames[i]
                                                   ELSE AddThing(caller, h, FALSE)]
                    /\ outcome' = outcome
    <3>1. PICK h : /\ frames' = [i \in 1..depth |-> IF i < depth THEN frames[i]
                                                  ELSE AddThing(caller, h, FALSE)]
                   /\ outcome' = outcome
      BY <2>2
    <3> DEFINE f == AddThing(caller, h, FALSE)
    <3>2. FrameOK(f) /\ f.kind = caller.kind
      BY <1>2, ThingAdded
    <3> HIDE DEF f
    <3>3. FramesInv'
      BY <1>1, <3>1, <3>2, NewTop DEF f
    <3> QED BY <3>1, <3>3
  <2> QED BY <1>4, <2>1, <2>2
<1>6. RefsConsumedOnce'
  <2>1. CASE unbalanced' = unbalanced
    BY <1>1, <2>1 DEF RefsConsumedOnce
  <2>2. CASE /\ name \in DOMAIN cmds(FALSE)
             /\ Fits(c.square, hasOpt) /\ Fits(c.curly, hasTxt)
             /\ unbalanced' = (\/ unbalanced
                               \/ hasTxt /\ Left(c, "txt") # 0
                               \/ hasOpt /\ Left(c, "opt") # 0)
    <3>1. Once(c, hasOpt, hasTxt)
      BY <1>3, <2>2, CommandsOnce
    <3>2. (hasTxt => Left(c, "txt") = 0) /\ (hasOpt => Left(c, "opt") = 0)
      BY <2>2, <3>1 DEF Once
    <3> QED BY <1>1, <2>2, <3>2 DEF RefsConsumedOnce
  <2>3. \/ unbalanced' = unbalanced
        \/ /\ name \in DOMAIN cmds(FALSE)
           /\ Fits(c.square, hasOpt) /\ Fits(c.curly, hasTxt)
           /\ unbalanced' = (\/ unbalanced
                             \/ hasTxt /\ Left(c, "txt") # 0
                             \/ hasOpt /\ Left(c, "opt") # 0)
    BY DEF ProcessCmd
  <2> QED BY <2>1, <2>2, <2>3
<1> QED BY <1>5, <1>6

\* the steps that only change the frame on top
LEMMA TopStep ==
  ASSUME IInv, NEW f, FrameOK(f), f.kind = Top.kind, SetTop(f),
         outcome = "parsing", UNCHANGED <<unbalanced, outcome>>
  PROVE  IInv'
<1>1. FramesInv'
  BY TopSet DEF IInv
<1> QED BY <1>1 DEF IInv, AcceptInv, RefsConsumedOnce

LEMMA ThingStep ==
  ASSUME IInv, NEW html, NEW isNull \in BOOLEAN, isNull => html = <<>>,
         SetTop(AddThing(Top, html, isNull)), outcome = "parsing", UNCHANGED <<unbalanced, outcome>>
  PROVE  IInv'
<1> DEFINE f == AddThing(Top, html, isNull)
<1>1. FrameOK(Top)
  BY TopIs DEF IInv
<1>2. FrameOK(f) /\ f.kind = Top.kind
  BY <1>1, ThingAdded
<1> HIDE DEF f
<1> QED BY <1>2, TopStep DEF f

LEMMA NextHolds == IInv /\ [Next]_vars => IInv'
<1> SUFFICES ASSUME IInv, [Next]_vars PROVE IInv'
  OBVIOUS
<1>1. FramesInv /\ Len(frames) \in Nat \ {0} /\ FrameOK(Top) /\ (Top.kind = "post" <=> Len(frames) = 1)
  BY TopIs DEF IInv
<1>2. CASE Comment
  BY <1>2 DEF Comment, IInv, FramesInv, AcceptInv, RefsConsumedOnce
<1>3. CASE Text
  <2>1. outcome = "parsing" /\ UNCHANGED <<unbalanced, outcome>>
    BY <1>3 DEF Text, ThingFits
  <2>2. \E html : SetTop(AddThing(Top, html, FALSE))
    BY <1>3 DEF Text
  <2> QED BY <2>1, <2>2, ThingStep
<1>4. CASE Verbatim
  <2>1. outcome = "parsing" /\ UNCHANGED <<unbalanced, outcome>>
    BY <1>4 DEF Verbatim, ThingFits
  <2>2. \E html : SetTop(AddThing(Top, html, FALSE))
    BY <1>4 DEF Verbatim
  <2> QED BY <2>1, <2>2, ThingStep
<1>5. CASE Special
  <2>1. outcome = "parsing" /\ UNCHANGED <<unbalanced, outcome>>
    BY <1>5 DEF Special, ThingFits
  <2>2. SetTop(AddThing(Top, <<>>, TRUE))
    BY <1>5 DEF Special
  <2> QED BY <2>1, <2>2, ThingStep
<1>6. CASE Backslash
  <2> DEFINE f == [Top EXCEPT !.cmd.name = "\\"]
  <2>1. outcome = "parsing" /\ Cmd.name = None /\ Top.state # "only" /\ UNCHANGED <<unbalanced, outcome>>
    BY <1>6 DEF Backslash, ThingFits
  <2>2. FrameOK(f) /\ f.kind = Top.kind
    BY <1>1, <2>1 DEF FrameOK, FrameFields, CmdOK, Cmd
  <2>3. SetTop(f)
    BY <1>6 DEF Backslash
  <2> HIDE DEF f
  <2> QED BY <2>1, <2>2, <2>3, TopStep
<1>7. CASE CmdChar
  <2>1. outcome = "parsing" /\ UNCHANGED <<unbalanced, outcome>>
    BY <1>7 DEF CmdChar
  <2>2. SetTop(AddThing(Top, <<Says(Tok)>>, FALSE))
    BY <1>7 DEF CmdChar
  <2> QED BY <2>1, <2>2, ThingStep
<1>8. CASE CmdWord
  <2> DEFINE f == [Top EXCEPT !.cmd.name = src[pos].s]
  <2>1. outcome = "parsing" /\ Cmd.name = "\\" /\ UNCHANGED <<unbalanced, outcome>>
    BY <1>8 DEF CmdWord
  <2>2. FrameOK(f) /\ f.kind = Top.kind
    BY <1>1, <2>1 DEF FrameOK, FrameFields, CmdOK, Cmd, None
  <2>3. SetTop(f)
    BY <1>8 DEF CmdWord
  <2> HIDE DEF f
  <2> QED BY <2>1, <2>2, <2>3, TopStep
<1>9. CASE OpenArg
  <2>1. PICK kind \in {"curly", "square"} :
          frames' = Append(frames, Frame(kind)) /\ (kind = "square" => ~Cmd.square)
    BY <1>9 DEF OpenArg
  <2>2. FrameOK(Frame(kind)) /\ Frame(kind).kind = kind
    BY DEF Frame, FrameOK, FrameFields, CmdOK, NoCommand
  <2>3. Waits(Top, Frame(kind))
    BY <1>9, <2>1, <2>2 DEF OpenArg, Named, Cmd, Waits
  <2>4. FramesInv'
    BY <1>1, <2>1, <2>2, <2>3, FramePushed
  <2> QED BY <1>9, <2>4 DEF OpenArg, Named, IInv, AcceptInv, RefsConsumedOnce
<1>10. CASE CmdAlone
  <2>1. outcome = "parsing" /\ ProcessCmd(Len(frames), FALSE, <<>>)
    BY <1>10 DEF CmdAlone, Named
  <2>2. Len(frames) \in 1..Len(frames)
    BY <1>1
  <2> QED BY <2>1, <2>2, ProcessCmdStep DEF IInv, AcceptInv
<1>11. CASE CloseSquare
  <2> DEFINE n == Len(frames)
             f == WithOpt(frames[n - 1])
  <2>1. outcome = "parsing" /\ Top.kind = "square" /\ Top.state = "in" /\ UNCHANGED <<unbalanced, outcome>>
    BY <1>11 DEF CloseSquare, Ends
  <2>2. n - 1 \in 1..n /\ n - 1 \in 1..(n - 1) /\ (n - 1) + 1 = n
    BY <1>1, <2>1
  <2>3. FrameOK(frames[n - 1]) /\ Waits(frames[n - 1], Top)
    <3>1. FrameOK(frames[n - 1])
      BY <1>1, <2>2, TopIs DEF FramesInv
    <3>2. Waits(frames[n - 1], frames[(n - 1) + 1])
      BY <1>1, <2>2 DEF FramesInv
    <3> QED BY <2>2, <3>1, <3>2 DEF Top
  <2>4. FrameOK(f) /\ f.kind = frames[n - 1].kind
    BY <1>1, <2>3 DEF FrameOK, FrameFields, CmdOK, WithOpt, Waits
  <2>5. frames' = [i \in 1..(n - 1) |-> IF i < n - 1 THEN frames[i] ELSE f]
    <3>1. frames' = [Front(frames) EXCEPT ![n - 1] = WithOpt(Front(frames)[n - 1])]
      BY <1>11 DEF CloseSquare
    <3>2. PICK S : frames \in Seq(S)
      BY <1>1 DEF FramesInv
    <3>3. Front(frames) = [i \in 1..(n - 1) |-> frames[i]]
      BY <1>1, <3>2 DEF Front
    <3>4. \A i \in 1..(n - 1) : i < n - 1 <=> i # n - 1
      BY <1>1
    <3> HIDE DEF n
    <3> QED BY <2>2, <3>1, <3>3, <3>4
  <2> HIDE DEF f
  <2>6. FramesInv'
    BY <1>1, <2>2, <2>4, <2>5, NewTop
  <2> QED BY <2>1, <2>6 DEF IInv, AcceptInv, RefsConsumedOnce
<1>12. CASE CloseCurly
  <2>1. /\ outcome = "parsing" /\ ProcessCmd(Len(frames) - 1, ~Top.null, Top.text)
        /\ Top.kind = "curly"
    BY <1>12 DEF CloseCurly, Ends
  <2>2. Len(frames) # 1
    BY <1>1, <2>1
  <2>3. Len(frames) - 1 \in 1..Len(frames)
    <3>1. \A n \in Nat \ {0} : n # 1 => n - 1 \in 1..n
      OBVIOUS
    <3> QED BY <1>1, <2>2, <3>1
  <2>4. (~Top.null) \in BOOLEAN
    OBVIOUS
  <2> QED BY <2>1, <2>3, <2>4, ProcessCmdStep DEF IInv, AcceptInv
<1>13. CASE Par
  <2> DEFINE f == [Top EXCEPT !.state = IF @ = "in" THEN "after" ELSE "only",
                              !.paras = InP(Top), !.text = <<>>, !.null = FALSE]
  <2>1. /\ outcome = "parsing" /\ Cmd.name = None /\ Top.kind = "post"
        /\ UNCHANGED <<unbalanced, outcome>>
    BY <1>13 DEF Par
  <2>2. FrameOK(f) /\ f.kind = Top.kind
    BY <1>1, <2>1 DEF FrameOK, FrameFields, Cmd
  <2>3. SetTop(f)
    BY <1>13 DEF Par
  <2> HIDE DEF f
  <2> QED BY <2>1, <2>2, <2>3, TopStep
<1>14. CASE Finish
  <2>1. FramesInv' /\ RefsConsumedOnce'
    BY <1>14 DEF Finish, IInv, FramesInv, RefsConsumedOnce
  <2>2. Len(frames) = 1 /\ Cmd.name = None /\ frames' = frames
    BY <1>1, <1>14 DEF Finish
  <2>3. Len(frames') = 1 /\ Cmd'.name = None
    BY <2>2 DEF Cmd, Top
  <2> QED BY <2>1, <2>3 DEF IInv, AcceptInv
<1>15. CASE SyntaxError
  BY <1>15 DEF SyntaxError, IInv, FramesInv, AcceptInv, RefsConsumedOnce
<1>16. CASE Ended \/ UNCHANGED vars
  BY <1>16 DEF Ended, vars, IInv, FramesInv, AcceptInv, RefsConsumedOnce, Cmd, Top
<1> QED
  BY <1>2, <1>3, <1>4, <1>5, <1>6, <1>7, <1>8, <1>9, <1>10, <1>11, <1>12, <1>13, <1>14, <1>15, <1>16
  DEF Next

-----------------------------------------------------------------------------

\* The inductive invariant: the stack of paragraphs, what is on it when the
\* post is accepted, and the references of the arguments so far.
THEOREM Invariance == Spec => []IInv
<1>1. IInv /\ [Next]_vars => IInv'
  BY NextHolds
<1> QED BY <1>1, InitHolds, PTL DEF Spec

\* The frames above the post's are arguments that a command waits for and may
\* have; blank lines and paragraphs are only in the post; an argument without
\* a value is empty (optcmdarg, cmdarg, paragraphs of post_fmt3.y).
THEOREM StackSound == Spec => []FramesInv
BY Invariance, PTL DEF IInv

\* A post is accepted only when every argument has been closed and no command
\* waits for one (the rule post).
THEOREM AcceptedClosed == Spec => []AcceptInv
BY Invariance, PTL DEF IInv

\* Every string given to a command is put exactly once by __process_* and
\* process_cmd, with or without the optional argument, for any text.
THEOREM RefsAlwaysOnce == Spec => []RefsConsumedOnce
BY Invariance, PTL DEF IInv
=============================================================================
