--------------------------- MODULE TemplateProofs ---------------------------
(***************************************************************************)
(* Proofs about Template, for any templates (those that name themselves    *)
(* included), any values of the variables and any depth of the stacks: the *)
(* scopes there are belong to the loops that are rendering an item.        *)
(***************************************************************************)
EXTENDS Template, TLAPS, FiniteSetTheorems

Fields == {"tokens", "pos", "conds", "out", "items", "looping"}

\* A call of render_page.  While it waits in a loop, its next token is the
\* foreach.
FrameOK(f) ==
  /\ Fields \subseteq DOMAIN f
  /\ f.looping \in BOOLEAN
  /\ Len(f.tokens) \in Nat /\ f.pos \in 1..(Len(f.tokens) + 1)
  /\ f.conds \in Seq(BOOLEAN) /\ Len(f.conds) <= COND_STACK_DEPTH + 1
  /\ f.items # <<>> => f.looping
  /\ f.looping => f.pos <= Len(f.tokens) /\ f.tokens[f.pos].op = "each"

Unfinished(f) == f.pos <= Len(f.tokens)

\* a frame that has called another one is at the token that did
FramesInv ==
  /\ \E S : frames \in Seq(S)
  /\ \A i \in DOMAIN frames : FrameOK(frames[i]) /\ (i < Len(frames) => Unfinished(frames[i]))

ScopesInv == (\E S : scopes \in Seq(S)) /\ Len(scopes) \in 1..VAR_MAX_SCOPES

RestInv ==
  /\ page \in Pages
  /\ abort \in {"none", "type", "stage", "scopes", "depth", "else", "endif"}

IInv == FramesInv /\ ScopesInv /\ RestInv /\ ScopesBalanced

-----------------------------------------------------------------------------

\* frames is a sequence with a top
LEMMA TopIs ==
  ASSUME FramesInv, frames # <<>>
  PROVE  /\ Len(frames) \in Nat \ {0} /\ DOMAIN frames = 1..Len(frames)
         /\ Len(frames) \in DOMAIN frames /\ FrameOK(Top)
<1>1. PICK S : frames \in Seq(S)
  BY DEF FramesInv
<1>2. Len(frames) \in Nat \ {0} /\ DOMAIN frames = 1..Len(frames)
  BY <1>1
<1> QED BY <1>2 DEF FramesInv, Top

\* a sequence whose last element changes
LEMMA LastChanges ==
  ASSUME NEW S, NEW s \in Seq(S), s # <<>>, NEW f
  PROVE  LET q == [s EXCEPT ![Len(s)] = f]
         IN /\ q \in Seq(S \cup {f}) /\ Len(q) = Len(s) /\ DOMAIN q = 1..Len(s)
            /\ q[Len(s)] = f /\ \A i \in 1..(Len(s) - 1) : q[i] = s[i]
<1> DEFINE n == Len(s)
           q == [s EXCEPT ![n] = f]
<1>1. n \in Nat \ {0} /\ DOMAIN s = 1..n /\ s \in [1..n -> S]
  OBVIOUS
<1> HIDE DEF n
<1>2. q \in [1..n -> S \cup {f}] /\ q[n] = f /\ \A i \in 1..(n - 1) : q[i] = s[i]
  BY <1>1
<1> HIDE DEF q
<1>3. q \in Seq(S \cup {f}) /\ Len(q) = n /\ DOMAIN q = 1..n
  BY <1>1, <1>2
<1> QED BY <1>2, <1>3 DEF n, q

LEMMA LastAdded ==
  ASSUME NEW S, NEW s \in Seq(S), NEW g
  PROVE  LET q == Append(s, g)
         IN /\ q \in Seq(S \cup {g}) /\ Len(q) = Len(s) + 1 /\ DOMAIN q = 1..(Len(s) + 1)
            /\ q[Len(s) + 1] = g /\ \A i \in 1..Len(s) : q[i] = s[i]
<1>1. s \in Seq(S \cup {g}) /\ Len(s) \in Nat
  OBVIOUS
<1> QED BY <1>1

\* only the frame on top changes
LEMMA TopChanges ==
  ASSUME FramesInv, frames # <<>>, NEW f, FrameOK(f),
         frames' = [frames EXCEPT ![Len(frames)] = f]
  PROVE  FramesInv' /\ LoopsUnderWay' = LoopsUnderWay /\ frames' # <<>>
<1> DEFINE n == Len(frames)
<1>1. PICK S : frames \in Seq(S)
  BY DEF FramesInv
<1>2. n \in Nat \ {0} /\ DOMAIN frames = 1..n
  BY TopIs
<1>3. /\ frames' \in Seq(S \cup {f}) /\ Len(frames') = n /\ DOMAIN frames' = 1..n
      /\ frames'[n] = f /\ \A i \in 1..(n - 1) : frames'[i] = frames[i]
  BY <1>1, LastChanges
<1> HIDE DEF n
<1>4. \A i \in 1..n : i \in 1..(n - 1) \/ i = n
  BY <1>2
<1>5. \A i \in 1..(n - 1) : FrameOK(frames[i]) /\ Unfinished(frames[i])
  <2>1. \A i \in 1..(n - 1) : i \in DOMAIN frames /\ i < Len(frames)
    BY <1>2 DEF n
  <2> QED BY <2>1 DEF FramesInv
<1>6. \A i \in DOMAIN frames' : FrameOK(frames'[i]) /\ (i < Len(frames') => Unfinished(frames'[i]))
  BY <1>2, <1>3, <1>4, <1>5
<1>7. FramesInv'
  BY <1>3, <1>6 DEF FramesInv
<1>8. LoopsUnderWay' = LoopsUnderWay
  <2>1. Len(frames') = n /\ Len(frames) = n
    BY <1>3 DEF n
  <2> QED BY <1>3, <2>1 DEF LoopsUnderWay
<1> QED BY <1>2, <1>3, <1>7, <1>8

\* a template is called, from a frame that may have changed
LEMMA FramePushed ==
  ASSUME FramesInv, frames # <<>>, NEW f, FrameOK(f), Unfinished(f),
         NEW g, FrameOK(g), ~g.looping,
         frames' = Append([frames EXCEPT ![Len(frames)] = f], g)
  PROVE  /\ FramesInv' /\ frames' # <<>>
         /\ LoopsUnderWay' = LoopsUnderWay \cup (IF f.looping THEN {Len(frames)} ELSE {})
<1>1. PICK S : frames \in Seq(S)
  BY DEF FramesInv
<1> DEFINE n == Len(frames)
           h == [frames EXCEPT ![n] = f]
<1>2. n \in Nat \ {0} /\ DOMAIN frames = 1..n
  BY TopIs
<1>3. h \in Seq(S \cup {f}) /\ Len(h) = n
  BY <1>1, LastChanges
<1>4. h[n] = f /\ \A i \in 1..(n - 1) : h[i] = frames[i]
  BY <1>1, LastChanges
<1>5. frames' = Append(h, g)
  OBVIOUS
<1> HIDE DEF h, n
<1>6. /\ frames' \in Seq((S \cup {f}) \cup {g}) /\ Len(frames') = n + 1 /\ DOMAIN frames' = 1..(n + 1)
      /\ frames'[n + 1] = g /\ \A i \in 1..n : frames'[i] = h[i]
  <2> DEFINE U == S \cup {f}
             q == Append(h, g)
  <2>1. h \in Seq(U)
    BY <1>3
  <2> HIDE DEF U
  <2>2. /\ q \in Seq(U \cup {g}) /\ Len(q) = Len(h) + 1 /\ DOMAIN q = 1..(Len(h) + 1)
        /\ q[Len(h) + 1] = g /\ \A i \in 1..Len(h) : q[i] = h[i]
    BY <2>1, LastAdded
  <2> QED BY <1>3, <1>5, <2>2 DEF U
<1>7. frames'[n] = f /\ \A i \in 1..(n - 1) : frames'[i] = frames[i]
  BY <1>2, <1>4, <1>6
<1>8. \A i \in DOMAIN frames' : FrameOK(frames'[i]) /\ (i < Len(frames') => Unfinished(frames'[i]))
  <2>1. \A i \in 1..(n + 1) : i \in 1..(n - 1) \/ i = n \/ i = n + 1
    BY <1>2
  <2>2. \A i \in 1..(n - 1) : i \in DOMAIN frames /\ i < Len(frames)
    BY <1>2 DEF n
  <2> QED BY <1>2, <1>6, <1>7, <2>1, <2>2 DEF FramesInv
<1>9. FramesInv'
  BY <1>6, <1>8 DEF FramesInv
<1>10. LoopsUnderWay' = {i \in 1..n : frames'[i].looping}
  <2>1. Len(frames') - 1 = n
    BY <1>2, <1>6
  <2> QED BY <2>1 DEF LoopsUnderWay
<1>11. LoopsUnderWay = {i \in 1..(n - 1) : frames'[i].looping}
  BY <1>7 DEF LoopsUnderWay, n
<1>12. 1..n = (1..(n - 1)) \cup {n} /\ n \notin 1..(n - 1)
  BY <1>2
<1>13. LoopsUnderWay' = LoopsUnderWay \cup (IF f.looping THEN {n} ELSE {})
  BY <1>7, <1>10, <1>11, <1>12
<1>14. frames' # <<>>
  BY <1>2, <1>6
<1> QED BY <1>9, <1>13, <1>14 DEF n

LEMMA LoopsFinite ==
  ASSUME FramesInv
  PROVE  /\ IsFiniteSet(LoopsUnderWay) /\ Cardinality(LoopsUnderWay) \in Nat
         /\ Len(frames) \in Nat /\ \A i \in LoopsUnderWay : i \in Nat /\ i < Len(frames)
<1>1. PICK S : frames \in Seq(S)
  BY DEF FramesInv
<1>2. Len(frames) \in Nat
  BY <1>1
<1>3. IsFiniteSet(1..(Len(frames) - 1))
  BY <1>2, FS_Interval
<1>4. IsFiniteSet(LoopsUnderWay)
  BY <1>3, FS_Subset DEF LoopsUnderWay
<1> QED BY <1>2, <1>4, FS_CardinalityType DEF LoopsUnderWay

\* the rest of a step that changes the top frame only
LEMMA TopStep ==
  ASSUME IInv, frames # <<>>, NEW f, FrameOK(f),
         \/ frames' = [frames EXCEPT ![Len(frames)] = f] /\ abort' = abort
         \/ frames' = frames /\ abort' \in {"type", "stage", "scopes", "depth", "else", "endif"},
         UNCHANGED <<page, scopes>>
  PROVE  IInv'
<1>1. FramesInv' /\ LoopsUnderWay' = LoopsUnderWay
  <2>1. CASE frames' = frames
    BY <2>1 DEF IInv, FramesInv, LoopsUnderWay
  <2>2. CASE frames' = [frames EXCEPT ![Len(frames)] = f]
    BY <2>2, TopChanges DEF IInv
  <2> QED BY <2>1, <2>2
<1>2. ScopesInv' /\ RestInv'
  BY DEF IInv, ScopesInv, RestInv
<1>3. ScopesBalanced'
  BY <1>1 DEF IInv, ScopesBalanced
<1> QED BY <1>1, <1>2, <1>3 DEF IInv

\* text is added, and the frame goes on
LEMMA AdvanceOK ==
  ASSUME NEW f, FrameOK(f), ~f.looping, f.pos <= Len(f.tokens), NEW text
  PROVE  /\ FrameOK(Advance(f, text)) /\ ~Advance(f, text).looping
         /\ Advance(f, text).conds = f.conds
<1> DEFINE g == Advance(f, text)
<1>1. /\ Fields \subseteq DOMAIN g /\ g.looping = f.looping /\ g.tokens = f.tokens /\ g.pos = f.pos + 1
      /\ g.conds = f.conds /\ g.items = f.items
  BY DEF Advance, FrameOK, Fields
<1> HIDE DEF g
<1>2. FrameOK(g)
  BY <1>1 DEF FrameOK
<1> QED BY <1>1, <1>2 DEF g

\* At: the parser is not in a loop, unless at its foreach
LEMMA AtTop ==
  ASSUME IInv, NEW op, At(op)
  PROVE  /\ abort = "none" /\ frames # <<>> /\ FrameOK(Top) /\ Top.pos <= Len(Top.tokens)
         /\ op # "each" => ~Top.looping
         /\ Top.tokens[Top.pos].op = op
<1>1. frames # <<>> /\ FrameOK(Top)
  BY TopIs DEF At, IInv
<1> QED BY <1>1 DEF At, FrameOK

\* a template's frame is well formed
LEMMA FrameIsOK ==
  ASSUME NEW tokens, Len(tokens) \in Nat
  PROVE  FrameOK(Frame(tokens)) /\ ~Frame(tokens).looping
<1> DEFINE f == Frame(tokens)
<1>1. /\ Fields \subseteq DOMAIN f /\ f.looping = FALSE /\ f.tokens = tokens /\ f.pos = 1
      /\ f.conds = <<>> /\ f.items = <<>>
  BY DEF Frame, Fields
<1> HIDE DEF f
<1>2. f.conds \in Seq(BOOLEAN) /\ Len(f.conds) = 0
  BY <1>1
<1>3. Len(f.conds) <= COND_STACK_DEPTH + 1 /\ Len(f.tokens) \in Nat
  BY <1>1, <1>2, TemplateAssumption
<1>4. f.pos \in 1..(Len(f.tokens) + 1)
  BY <1>1, <1>3
<1>5. FrameOK(f)
  BY <1>1, <1>2, <1>3, <1>4 DEF FrameOK
<1> QED BY <1>1, <1>5 DEF f

-----------------------------------------------------------------------------
(* The steps *)

LEMMA TextStep == ASSUME IInv, Text PROVE IInv'
<1> DEFINE text == IF CondValue(Top) THEN <<Top.tokens[Top.pos]>> ELSE <<>>
<1>1. frames # <<>> /\ FrameOK(Advance(Top, text))
  BY AtTop, AdvanceOK DEF Text
<1>2. frames' = [frames EXCEPT ![Len(frames)] = Advance(Top, text)]
  BY DEF Text, Step, Top
<1> QED BY <1>1, <1>2, TopStep DEF Text, IInv, RestInv

\* the steps that add text or fail
LEMMA TextOrFail ==
  ASSUME IInv, NEW op, At(op), ~Top.looping, NEW text, NEW what \in {"type", "stage"},
         \/ Step(text) /\ UNCHANGED abort
         \/ Fails(what),
         UNCHANGED <<page, scopes>>
  PROVE  IInv'
<1>1. frames # <<>> /\ FrameOK(Advance(Top, text))
  BY AtTop, AdvanceOK
<1>2. CASE Step(text) /\ UNCHANGED abort
  <2>1. frames' = [frames EXCEPT ![Len(frames)] = Advance(Top, text)]
    BY <1>2 DEF Step, Top
  <2> QED BY <1>1, <1>2, <2>1, TopStep DEF IInv, RestInv
<1>3. CASE Fails(what)
  BY <1>1, <1>3, TopStep DEF Fails, IInv, RestInv
<1> QED BY <1>2, <1>3

LEMMA PipelineStep == ASSUME IInv, Pipeline PROVE IInv'
<1>1. At("pipe") /\ ~Top.looping
  BY AtTop DEF Pipeline
<1> DEFINE made == <<RunPipeline(Top.tokens[Top.pos].stages, Lookup(Name))>>
<1>2. \/ Fails("type") \/ Fails("stage") \/ (Step(<<>>) /\ UNCHANGED abort)
      \/ (Step(made) /\ UNCHANGED abort)
  BY DEF Pipeline
<1> HIDE DEF made
<1> QED BY <1>1, <1>2, TextOrFail DEF Pipeline

\* the frame on top calls a template
LEMMA TopAsIs ==
  ASSUME FramesInv, frames # <<>>
  PROVE  frames = [frames EXCEPT ![Len(frames)] = Top]
<1>1. PICK S : frames \in Seq(S)
  BY DEF FramesInv
<1> QED BY <1>1 DEF Top

LEMMA VariableStep == ASSUME IInv, Variable PROVE IInv'
<1>1. At("var") /\ ~Top.looping /\ frames # <<>> /\ FrameOK(Top) /\ Unfinished(Top)
  BY AtTop DEF Variable, Unfinished
<1> DEFINE value == <<Lookup(Name)>>
<1>2. \/ Fails("type") \/ (Step(<<>>) /\ UNCHANGED abort) \/ (Step(value) /\ UNCHANGED abort)
      \/ Name \in DOMAIN Sub /\ frames' = Append(frames, Frame(Sub[Name])) /\ UNCHANGED abort
  BY DEF Variable
<1> HIDE DEF value
<1>3. CASE Fails("type") \/ (Step(<<>>) /\ UNCHANGED abort) \/ (Step(value) /\ UNCHANGED abort)
  BY <1>1, <1>3, TextOrFail DEF Variable
<1>4. CASE Name \in DOMAIN Sub /\ frames' = Append(frames, Frame(Sub[Name])) /\ UNCHANGED abort
  <2> DEFINE g == Frame(Sub[Name])
  <2>1. FrameOK(g) /\ ~g.looping
    BY <1>4, FrameIsOK, TokensAssumption
  <2>2. frames' = Append([frames EXCEPT ![Len(frames)] = Top], g)
    BY <1>1, <1>4, TopAsIs DEF IInv
  <2> HIDE DEF g
  <2>3. FramesInv' /\ LoopsUnderWay' = LoopsUnderWay
    <3>1. LoopsUnderWay' = LoopsUnderWay \cup (IF Top.looping THEN {Len(frames)} ELSE {}) /\ FramesInv'
      BY <1>1, <2>1, <2>2, FramePushed DEF IInv
    <3> QED BY <1>1, <3>1
  <2>4. ScopesInv' /\ RestInv' /\ ScopesBalanced'
    BY <1>4, <2>3 DEF IInv, ScopesInv, RestInv, ScopesBalanced, Variable
  <2> QED BY <2>3, <2>4 DEF IInv
<1> QED BY <1>2, <1>3, <1>4

LEMMA ForeachStep == ASSUME IInv, Foreach PROVE IInv'
<1>1. At("each") /\ ~Top.looping /\ frames # <<>> /\ FrameOK(Top) /\ Top.pos <= Len(Top.tokens)
      /\ Top.tokens[Top.pos].op = "each"
  BY AtTop DEF Foreach
<1> DEFINE f == [Top EXCEPT !.looping = TRUE, !.items = Lookup(Name).items]
<1>2. \/ Fails("type") \/ (Step(<<>>) /\ UNCHANGED abort)
      \/ frames' = [frames EXCEPT ![Len(frames)] = f] /\ UNCHANGED abort
  BY DEF Foreach, Top
<1>3. CASE Fails("type") \/ (Step(<<>>) /\ UNCHANGED abort)
  BY <1>1, <1>3, TextOrFail DEF Foreach
<1>4. CASE frames' = [frames EXCEPT ![Len(frames)] = f] /\ UNCHANGED abort
  <2>1. /\ Fields \subseteq DOMAIN f /\ f.looping = TRUE /\ f.tokens = Top.tokens /\ f.pos = Top.pos
        /\ f.conds = Top.conds
    BY <1>1 DEF FrameOK, Fields
  <2> HIDE DEF f
  <2>2. FrameOK(f)
    BY <1>1, <2>1 DEF FrameOK
  <2> QED BY <1>1, <1>4, <2>2, TopStep DEF Foreach, IInv, RestInv
<1> QED BY <1>2, <1>3, <1>4

LEMMA ForeachItemStep == ASSUME IInv, ForeachItem PROVE IInv'
<1>1. At("each") /\ frames # <<>> /\ FrameOK(Top) /\ Top.looping /\ abort = "none"
  BY AtTop DEF ForeachItem
<1> DEFINE n == Len(frames)
           scope == ItemScope(Name, Head(Top.items))
           f == [Top EXCEPT !.items = Tail(Top.items)]
           tokens == IF Top.tokens[Top.pos].tmpl \in DOMAIN Sub THEN Sub[Top.tokens[Top.pos].tmpl] ELSE <<>>
           g == Frame(tokens)
<1>2. \/ (Fails("scopes") \/ Fails("type")) /\ UNCHANGED scopes
      \/ /\ Len(scopes) < VAR_MAX_SCOPES /\ scopes' = Append(scopes, scope)
         /\ frames' = Append([frames EXCEPT ![Len(frames)] = f], g)
         /\ UNCHANGED abort
  <2>1. Len(scopes) \in Nat /\ VAR_MAX_SCOPES \in Nat
    BY TemplateAssumption DEF IInv, ScopesInv
  <2>2. CASE Len(scopes) >= VAR_MAX_SCOPES
    BY <2>2 DEF ForeachItem
  <2>3. CASE Len(scopes) < VAR_MAX_SCOPES /\ Head(Top.items).type \notin {"nvl", "str"}
    BY <2>1, <2>3 DEF ForeachItem
  <2>4. CASE Len(scopes) < VAR_MAX_SCOPES /\ Head(Top.items).type \in {"nvl", "str"}
    BY <2>1, <2>4 DEF ForeachItem, Top
  <2> HIDE DEF f, g, scope, tokens
  <2>5. \/ Len(scopes) >= VAR_MAX_SCOPES
        \/ Len(scopes) < VAR_MAX_SCOPES /\ Head(Top.items).type \notin {"nvl", "str"}
        \/ Len(scopes) < VAR_MAX_SCOPES /\ Head(Top.items).type \in {"nvl", "str"}
    BY <2>1
  <2> QED BY <2>2, <2>3, <2>4, <2>5
<1>3. CASE (Fails("scopes") \/ Fails("type")) /\ UNCHANGED scopes
  BY <1>1, <1>3, TopStep DEF Fails, ForeachItem, IInv, RestInv
<1>4. CASE /\ Len(scopes) < VAR_MAX_SCOPES /\ scopes' = Append(scopes, scope)
           /\ frames' = Append([frames EXCEPT ![Len(frames)] = f], g)
           /\ UNCHANGED abort
  <2>1. /\ Fields \subseteq DOMAIN f /\ f.looping = Top.looping /\ f.tokens = Top.tokens /\ f.pos = Top.pos
        /\ f.conds = Top.conds
    BY <1>1 DEF FrameOK, Fields
  <2>2. Len(tokens) \in Nat
    <3>1. Len(<<>>) \in Nat
      OBVIOUS
    <3> QED BY <3>1, TokensAssumption
  <2> HIDE DEF f, tokens, scope
  <2>3. FrameOK(f) /\ f.looping /\ Unfinished(f)
    BY <1>1, <2>1 DEF FrameOK, Unfinished
  <2>4. FrameOK(g) /\ ~g.looping
    BY <2>2, FrameIsOK
  <2> HIDE DEF g
  <2>5. FramesInv' /\ LoopsUnderWay' = LoopsUnderWay \cup {n}
    BY <1>1, <1>4, <2>3, <2>4, FramePushed DEF IInv
  <2>6. Cardinality(LoopsUnderWay') = Cardinality(LoopsUnderWay) + 1 /\ Cardinality(LoopsUnderWay) \in Nat
    <3>1. IsFiniteSet(LoopsUnderWay) /\ n \notin LoopsUnderWay /\ Cardinality(LoopsUnderWay) \in Nat
      BY LoopsFinite DEF IInv
    <3> QED BY <2>5, <3>1, FS_AddElement
  <2>7. PICK S : scopes \in Seq(S)
    BY DEF IInv, ScopesInv
  <2>8. scopes' \in Seq(S \cup {scope}) /\ Len(scopes') = Len(scopes) + 1 /\ Len(scopes) \in Nat \ {0}
        /\ scopes'[1] = scopes[1]
    <3>1. Len(scopes) \in Nat \ {0}
      BY <2>7 DEF IInv, ScopesInv
    <3> QED BY <1>4, <2>7, <3>1, LastAdded
  <2>9. ScopesInv'
    BY <1>4, <2>8, TemplateAssumption DEF ScopesInv
  <2>10. ScopesBalanced'
    BY <1>1, <1>4, <2>6, <2>8 DEF IInv, ScopesBalanced
  <2> QED BY <1>4, <2>5, <2>9, <2>10 DEF IInv, RestInv, ForeachItem
<1> QED BY <1>2, <1>3, <1>4

LEMMA ForeachEndStep == ASSUME IInv, ForeachEnd PROVE IInv'
<1>1. frames # <<>> /\ FrameOK(Top) /\ Top.looping /\ Top.items = <<>> /\ Top.pos <= Len(Top.tokens)
  BY AtTop DEF ForeachEnd
<1> DEFINE a == Advance(Top, <<>>)
           f == [a EXCEPT !.looping = FALSE]
<1>2. frames' = [frames EXCEPT ![Len(frames)] = f] /\ UNCHANGED <<page, scopes, abort>>
  BY DEF ForeachEnd, Top
<1>3. /\ Fields \subseteq DOMAIN a /\ a.tokens = Top.tokens /\ a.pos = Top.pos + 1
      /\ a.conds = Top.conds /\ a.items = <<>>
  BY <1>1 DEF FrameOK, Fields, Advance
<1> HIDE DEF a
<1>4. /\ Fields \subseteq DOMAIN f /\ f.tokens = Top.tokens /\ f.pos = Top.pos + 1
      /\ f.conds = Top.conds /\ f.items = <<>> /\ f.looping = FALSE
  BY <1>3 DEF Fields
<1> HIDE DEF f
<1>5. FrameOK(f)
  <2>1. f.pos \in 1..(Len(f.tokens) + 1) /\ Len(f.tokens) \in Nat
    BY <1>1, <1>4 DEF FrameOK
  <2>2. f.conds \in Seq(BOOLEAN) /\ Len(f.conds) <= COND_STACK_DEPTH + 1
    BY <1>1, <1>4 DEF FrameOK
  <2> QED BY <1>4, <2>1, <2>2 DEF FrameOK
<1> QED BY <1>1, <1>2, <1>5, TopStep DEF IInv, RestInv

\* the frame after a token that changes the conditions
LEMMA CondsOK ==
  ASSUME NEW f, FrameOK(f), ~f.looping, f.pos <= Len(f.tokens), NEW conds \in Seq(BOOLEAN),
         Len(conds) <= COND_STACK_DEPTH + 1
  PROVE  FrameOK([Advance(f, <<>>) EXCEPT !.conds = conds])
<1> DEFINE a == Advance(f, <<>>)
           g == [a EXCEPT !.conds = conds]
<1>1. FrameOK(a) /\ ~a.looping
  BY AdvanceOK
<1> HIDE DEF a
<1>2. /\ Fields \subseteq DOMAIN g /\ g.tokens = a.tokens /\ g.pos = a.pos
      /\ g.conds = conds /\ g.items = a.items /\ g.looping = a.looping
  BY <1>1 DEF FrameOK, Fields
<1> HIDE DEF g
<1> QED BY <1>1, <1>2 DEF FrameOK, g, a

LEMMA CondIfStep ==
  ASSUME IInv, NEW op, op # "each", At(op), NEW value \in BOOLEAN, CondIf(value), UNCHANGED <<page, scopes>>
  PROVE  IInv'
<1>1. frames # <<>> /\ FrameOK(Top) /\ ~Top.looping /\ Top.pos <= Len(Top.tokens)
  BY AtTop
<1> DEFINE conds == Append(Top.conds, value)
           f == [Advance(Top, <<>>) EXCEPT !.conds = conds]
<1>2. Top.conds \in Seq(BOOLEAN) /\ Len(Top.conds) \in Nat /\ COND_STACK_DEPTH \in Nat
  BY <1>1, TemplateAssumption DEF FrameOK
<1>3. CASE Len(Top.conds) > COND_STACK_DEPTH
  BY <1>1, <1>3, TopStep DEF CondIf, Fails, IInv, RestInv
<1>4. CASE ~(Len(Top.conds) > COND_STACK_DEPTH)
  <2>1. frames' = [frames EXCEPT ![Len(frames)] = f]
    BY <1>4 DEF CondIf, Conds, Top
  <2>2. conds \in Seq(BOOLEAN) /\ Len(conds) <= COND_STACK_DEPTH + 1
    BY <1>2, <1>4
  <2>3. FrameOK(f)
    BY <1>1, <2>2, CondsOK
  <2>4. abort' = abort
    BY <1>4 DEF CondIf
  <2> HIDE DEF f
  <2> QED BY <1>1, <2>1, <2>3, <2>4, TopStep
<1> QED BY <1>3, <1>4

LEMMA IfSetStep == ASSUME IInv, IfSet PROVE IInv'
<1>1. Known(Name) \in BOOLEAN
  BY DEF Known
<1> QED BY <1>1, CondIfStep DEF IfSet

LEMMA IfFnStep == ASSUME IInv, IfFn PROVE IInv'
<1> DEFINE t == Top.tokens[Top.pos]
           value == Compare(t.fn, GetArg(t.a1), GetArg(t.a2))
<1>1. frames # <<>> /\ FrameOK(Top)
  BY AtTop DEF IfFn
<1>2. value \in BOOLEAN
  BY DEF Compare
<1>3. CASE ~IsNumber(t.a1) \/ ~IsNumber(t.a2)
  BY <1>1, <1>3, TopStep DEF IfFn, Fails, IInv, RestInv
<1>4. CASE IsNumber(t.a1) /\ IsNumber(t.a2)
  <2>1. CondIf(value) /\ At("iffn") /\ UNCHANGED <<page, scopes>>
    BY <1>4 DEF IfFn
  <2> HIDE DEF value
  <2> QED BY <1>2, <2>1, CondIfStep
<1> QED BY <1>3, <1>4

LEMMA CondsStep ==
  ASSUME IInv, NEW op, op # "each", At(op), NEW conds \in Seq(BOOLEAN), Len(conds) <= COND_STACK_DEPTH + 1,
         NEW what \in {"else", "endif"},
         \/ Conds(conds) /\ UNCHANGED abort
         \/ Fails(what),
         UNCHANGED <<page, scopes>>
  PROVE  IInv'
<1>1. frames # <<>> /\ FrameOK(Top) /\ ~Top.looping /\ Top.pos <= Len(Top.tokens)
  BY AtTop
<1> DEFINE f == [Advance(Top, <<>>) EXCEPT !.conds = conds]
<1>2. CASE Conds(conds) /\ UNCHANGED abort
  <2>1. frames' = [frames EXCEPT ![Len(frames)] = f]
    BY <1>2 DEF Conds, Top
  <2>2. FrameOK(f)
    BY <1>1, CondsOK
  <2> HIDE DEF f
  <2> QED BY <1>1, <1>2, <2>1, <2>2, TopStep DEF IInv, RestInv
<1>3. CASE Fails(what)
  BY <1>1, <1>3, TopStep DEF Fails, IInv, RestInv
<1> QED BY <1>2, <1>3

LEMMA ElseStep == ASSUME IInv, Else PROVE IInv'
<1> DEFINE conds == [Top.conds EXCEPT ![Len(Top.conds)] = ~@]
<1>1. At("else") /\ FrameOK(Top)
  BY AtTop DEF Else
<1>2. Top.conds \in Seq(BOOLEAN) /\ Len(Top.conds) <= COND_STACK_DEPTH + 1
  BY <1>1 DEF FrameOK
<1>3. CASE Top.conds = <<>>
  <2>1. Fails("else") /\ UNCHANGED <<page, scopes>>
    BY <1>3 DEF Else
  <2> QED BY <1>1, <1>2, <2>1, CondsStep
<1>4. CASE Top.conds # <<>>
  <2>1. conds \in Seq(BOOLEAN) /\ Len(conds) = Len(Top.conds)
    <3>1. BOOLEAN \cup {~Top.conds[Len(Top.conds)]} = BOOLEAN
      <4>1. \A x \in BOOLEAN : BOOLEAN \cup {x} = BOOLEAN
        OBVIOUS
      <4>2. (~Top.conds[Len(Top.conds)]) \in BOOLEAN
        OBVIOUS
      <4> QED BY <4>1, <4>2
    <3>2. conds \in Seq(BOOLEAN \cup {~Top.conds[Len(Top.conds)]}) /\ Len(conds) = Len(Top.conds)
      BY <1>2, <1>4, LastChanges
    <3> QED BY <3>1, <3>2
  <2>2. Conds(conds) /\ UNCHANGED <<page, scopes, abort>>
    BY <1>4 DEF Else
  <2> HIDE DEF conds
  <2> QED BY <1>1, <1>2, <2>1, <2>2, CondsStep
<1> QED BY <1>3, <1>4

LEMMA EndifStep == ASSUME IInv, Endif PROVE IInv'
<1> DEFINE conds == SubSeq(Top.conds, 1, Len(Top.conds) - 1)
<1>1. At("endif") /\ FrameOK(Top)
  BY AtTop DEF Endif
<1>2. Top.conds \in Seq(BOOLEAN) /\ Len(Top.conds) <= COND_STACK_DEPTH + 1 /\ COND_STACK_DEPTH \in Nat
  BY <1>1, TemplateAssumption DEF FrameOK
<1>3. CASE Top.conds = <<>>
  <2>1. Fails("endif") /\ UNCHANGED <<page, scopes>>
    BY <1>3 DEF Endif
  <2> QED BY <1>1, <1>2, <2>1, CondsStep
<1>4. CASE Top.conds # <<>>
  <2>1. conds \in Seq(BOOLEAN) /\ Len(conds) <= COND_STACK_DEPTH + 1
    BY <1>2, <1>4
  <2>2. Conds(conds) /\ UNCHANGED <<page, scopes, abort>>
    BY <1>4 DEF Endif
  <2> HIDE DEF conds
  <2> QED BY <1>1, <2>1, <2>2, CondsStep
<1> QED BY <1>3, <1>4

LEMMA ReturnStep == ASSUME IInv, Return PROVE IInv'
<1> DEFINE n == Len(frames) - 1
           caller == frames[n]
           f == IF caller.looping THEN [caller EXCEPT !.out = @ \o Top.out] ELSE Advance(caller, Top.out)
<1>1. PICK S : frames \in Seq(S)
  BY DEF IInv, FramesInv
<1>2. n \in Nat \ {0} /\ n \in DOMAIN frames /\ Len(frames) = n + 1 /\ FrameOK(caller)
  <2>1. Len(frames) \in Nat /\ Len(frames) > 1 /\ DOMAIN frames = 1..Len(frames)
    BY <1>1 DEF Return
  <2>2. n \in Nat \ {0} /\ n \in DOMAIN frames /\ Len(frames) = n + 1
    BY <2>1
  <2> QED BY <2>2 DEF IInv, FramesInv
<1>3. frames' = [i \in 1..n |-> IF i < n THEN frames[i] ELSE f]
  BY DEF Return
<1>4. /\ abort = "none" /\ UNCHANGED <<page, abort>>
      /\ scopes' = IF caller.looping THEN SubSeq(scopes, 1, Len(scopes) - 1) ELSE scopes
  BY DEF Return
<1> HIDE DEF n, f
<1>5. FrameOK(f) /\ (f.looping <=> caller.looping)
  <2>1. Unfinished(caller)
    BY <1>2 DEF IInv, FramesInv
  <2>2. CASE caller.looping
    <3>1. /\ Fields \subseteq DOMAIN f /\ f.tokens = caller.tokens /\ f.pos = caller.pos
          /\ f.conds = caller.conds /\ f.items = caller.items /\ f.looping = caller.looping
      BY <1>2, <2>2 DEF FrameOK, Fields, f
    <3> QED BY <1>2, <3>1 DEF FrameOK
  <2>3. CASE ~caller.looping
    BY <1>2, <2>1, <2>3, AdvanceOK DEF f, Unfinished
  <2> QED BY <2>2, <2>3
<1>6. /\ DOMAIN frames' = 1..n /\ frames'[n] = f /\ \A i \in 1..(n - 1) : frames'[i] = frames[i]
      /\ frames' \in Seq(S \cup {f}) /\ Len(frames') = n
  <2>1. \A i \in 1..n : i < n => i \in DOMAIN frames
    BY <1>1, <1>2
  <2>2. frames' \in [1..n -> S \cup {f}]
    BY <1>1, <1>2, <1>3, <2>1
  <2>3. frames' \in Seq(S \cup {f}) /\ Len(frames') = n
    BY <1>2, <2>2
  <2> QED BY <1>2, <1>3, <2>3
<1>7. FramesInv'
  <2>1. \A i \in 1..n : i \in 1..(n - 1) \/ i = n
    BY <1>2
  <2>2. \A i \in 1..(n - 1) : i \in DOMAIN frames /\ i < Len(frames)
    BY <1>1, <1>2
  <2>3. \A i \in DOMAIN frames' : FrameOK(frames'[i]) /\ (i < Len(frames') => Unfinished(frames'[i]))
    BY <1>2, <1>5, <1>6, <2>1, <2>2 DEF IInv, FramesInv
  <2> QED BY <1>6, <2>3 DEF FramesInv
<1>8. LoopsUnderWay = LoopsUnderWay' \cup (IF caller.looping THEN {n} ELSE {}) /\ n \notin LoopsUnderWay'
  <2>1. 1..n = (1..(n - 1)) \cup {n} /\ n \notin 1..(n - 1)
    BY <1>2
  <2>2. LoopsUnderWay = {i \in 1..n : frames[i].looping}
    BY <1>2 DEF LoopsUnderWay, n
  <2>3. LoopsUnderWay' = {i \in 1..(n - 1) : frames[i].looping}
    BY <1>6 DEF LoopsUnderWay
  <2> QED BY <2>1, <2>2, <2>3
<1>9. Len(scopes) = 1 + Cardinality(LoopsUnderWay)
  BY <1>4 DEF IInv, ScopesBalanced
<1>10. IsFiniteSet(LoopsUnderWay') /\ Cardinality(LoopsUnderWay') \in Nat
  <2>1. IsFiniteSet(LoopsUnderWay')
    BY <1>8, LoopsFinite, FS_Subset DEF IInv
  <2> QED BY <2>1, FS_CardinalityType
<1>11. PICK V : scopes \in Seq(V)
  BY DEF IInv, ScopesInv
<1>12. CASE caller.looping
  <2>1. Len(scopes) = 2 + Cardinality(LoopsUnderWay')
    <3>1. Cardinality(LoopsUnderWay) = Cardinality(LoopsUnderWay') + 1
      BY <1>8, <1>10, <1>12, FS_AddElement
    <3> QED BY <1>9, <1>10, <3>1
  <2>2. /\ scopes' \in Seq(V) /\ Len(scopes') = Len(scopes) - 1 /\ scopes'[1] = scopes[1]
    BY <1>4, <1>10, <1>11, <1>12, <2>1
  <2>3. ScopesInv' /\ ScopesBalanced'
    BY <1>4, <1>10, <2>1, <2>2, TemplateAssumption DEF IInv, ScopesInv, ScopesBalanced
  <2> QED BY <1>4, <1>7, <2>3 DEF IInv, RestInv
<1>13. CASE ~caller.looping
  <2>1. LoopsUnderWay' = LoopsUnderWay /\ scopes' = scopes
    BY <1>4, <1>8, <1>13
  <2> QED BY <1>4, <1>7, <2>1 DEF IInv, RestInv, ScopesInv, ScopesBalanced
<1> QED BY <1>12, <1>13

LEMMA FinishStep == ASSUME IInv, Finish PROVE IInv'
<1>1. frames' = <<>> /\ Len(frames) = 1 /\ UNCHANGED <<page, scopes, abort>>
  BY DEF Finish
<1>2. LoopsUnderWay = {} /\ LoopsUnderWay' = {}
  BY <1>1 DEF LoopsUnderWay
<1>3. frames' \in Seq({}) /\ DOMAIN frames' = {}
  BY <1>1
<1>4. FramesInv'
  BY <1>3 DEF FramesInv
<1> QED BY <1>1, <1>2, <1>4 DEF IInv, ScopesInv, RestInv, ScopesBalanced

-----------------------------------------------------------------------------

LEMMA InitHolds == Init => IInv
<1> SUFFICES ASSUME Init PROVE IInv
  OBVIOUS
<1> DEFINE f == Frame(page)
<1>1. page \in Pages /\ scopes = <<Globals>> /\ frames = <<f>> /\ abort = "none"
  BY DEF Init
<1>2. FrameOK(f)
  BY <1>1, FrameIsOK, TokensAssumption
<1> HIDE DEF f
<1>3. frames \in Seq({f}) /\ Len(frames) = 1 /\ DOMAIN frames = {1} /\ frames[1] = f
  BY <1>1
<1>4. FramesInv
  BY <1>2, <1>3 DEF FramesInv
<1>5. scopes \in Seq({Globals}) /\ Len(scopes) = 1 /\ scopes[1] = Globals
  BY <1>1
<1>6. ScopesInv
  BY <1>5, TemplateAssumption DEF ScopesInv
<1>7. LoopsUnderWay = {}
  BY <1>3 DEF LoopsUnderWay
<1>8. ScopesBalanced
  BY <1>5, <1>7, FS_EmptySet DEF ScopesBalanced
<1> QED BY <1>1, <1>4, <1>6, <1>8 DEF IInv, RestInv

LEMMA StepHolds == IInv /\ [Next]_vars => IInv'
<1> SUFFICES ASSUME IInv, [Next]_vars PROVE IInv'
  OBVIOUS
<1>1. CASE UNCHANGED vars
  BY <1>1 DEF vars, IInv, FramesInv, ScopesInv, RestInv, ScopesBalanced, LoopsUnderWay
<1>2. CASE Ended
  BY <1>1, <1>2 DEF Ended
<1> QED BY <1>1, <1>2, TextStep, PipelineStep, VariableStep, ForeachStep, ForeachItemStep, ForeachEndStep,
           IfSetStep, IfFnStep, ElseStep, EndifStep, ReturnStep, FinishStep DEF Next

\* The inductive invariant of rendering.
THEOREM Invariance == Spec => []IInv
BY InitHolds, StepHolds, PTL DEF Spec

\* parse.h, template.y: frames, conditions and scopes stay within their
\* types, and the stacks within their limits (cond_stack with the one
\* element too many that the assertion admits).
THEOREM TypeCorrect == Spec => []TypeOK
<1>1. ASSUME IInv PROVE TypeOK
  <2>1. /\ page \in Pages /\ Len(scopes) \in 1..VAR_MAX_SCOPES
        /\ abort \in {"none", "type", "stage", "scopes", "depth", "else", "endif"}
    BY <1>1 DEF IInv, ScopesInv, RestInv
  <2>2. \A i \in Frames : FrameOK(frames[i])
    BY <1>1 DEF IInv, FramesInv, Frames
  <2> QED BY <2>1, <2>2 DEF TypeOK, FrameOK
<1> QED BY <1>1, Invariance, PTL

\* vars_scope_push and vars_scope_pop around the items of every foreach:
\* they balance, whatever is rendered, and the request's scope is kept.
THEOREM AlwaysBalanced == Spec => []ScopesBalanced
BY Invariance, PTL DEF IInv
=============================================================================
