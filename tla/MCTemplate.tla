---------------------------- MODULE MCTemplate ----------------------------
(***************************************************************************)
(* Every page of up to MaxTokens tokens, and what it should look like.     *)
(*                                                                         *)
(* The reference definition does not walk along the tokens with a stack:   *)
(* it says for each token which {if}s enclose it and on which side of      *)
(* their {else}s it is.                                                    *)
(***************************************************************************)
EXTENDS Template

CONSTANTS MaxTokens, MaxOthers

T(op) == [op |-> op]
N(op, name) == [op |-> op, name |-> name]
Each(name, tmpl) == [op |-> "each", name |-> name, tmpl |-> tmpl]
Pipe(name, stages) == [op |-> "pipe", name |-> name, stages |-> stages]
Fn(fn, name, n) == [op |-> "iffn", fn |-> fn, a1 |-> [name |-> name], a2 |-> [n |-> n]]

Str(s) == [type |-> "str", s |-> s]
Num(n) == [type |-> "int", n |-> n]
Array(items) == [type |-> "array", items |-> items]
Nvl(vals) == [type |-> "nvl", vals |-> vals]

\* "list" is a list of strings, "posts" of posts; a title has characters
\* that an escape treats in ways of their own, and looks like an escape
MCGlobals == [list |-> Array(<<Str(<<"x">>), Str(<<"y">>)>>), count |-> Num(0),
              posts |-> Array(<<Nvl([title |-> Str(<<"<", "&", "l", "t", ";", " ">>)]),
                                Nvl([count |-> Num(1)])>>),
              name |-> Str(<<"\"", "~", "+", ">", "%">>)]

\* list.tmpl shadows the array it is called for; post.tmpl has conditions of
\* its own, of which one is left open
MCSub == [item |-> <<T("text"), Pipe("list", <<"nosuch">>)>>,
          post |-> <<N("ifset", "title"), Pipe("title", <<"escape", "urlescape">>), T("else"),
                     N("var", "count"), T("endif"), Fn("ifgt", "count", 0), T("text")>>,
          footer |-> <<N("ifset", "title"), T("else"), T("text"), Each("list", "item")>>]

\* count is set, but not positive
Tokens == {T("text"), N("var", "footer"), Each("posts", "post"), N("ifset", "count"),
           Fn("ifgt", "count", 0), T("else"), T("endif")}

\* conversions, some of a value of the wrong type, and a value that is no text
Others == Tokens \cup {Pipe("name", <<"escape">>), Pipe("name", <<"urlescape", "escape">>),
                       Pipe("name", <<"zulu">>), Pipe("count", <<"escape">>),
                       Pipe("count", <<"date", "urlescape">>), Pipe("footer", <<"escape">>),
                       N("var", "list"), Fn("ifeq", "count", 0), Fn("iflt", "nothing", 1)}

MCPages == BoundedSeq(Tokens, MaxTokens) \cup BoundedSeq(Others, MaxOthers)

-----------------------------------------------------------------------------

IsIf(t) == t.op \in {"ifset", "iffn"}

\* ifs opened less ifs closed among tokens j..k
Nesting(s, j, k) == Cardinality({i \in j..k : IsIf(s[i])}) - Cardinality({i \in j..k : s[i].op = "endif"})

\* the {if} at j is open just before token i
Encloses(s, j, i) == j < i /\ IsIf(s[j]) /\ \A k \in (j + 1)..(i - 1) : Nesting(s, j, k) >= 1

\* the {else}s of the {if} at j that precede token i
Elses(s, j, i) == {k \in (j + 1)..(i - 1) : s[k].op = "else" /\ Encloses(s, j, k) /\ Nesting(s, j, k) = 1}

\* the condition of an {if}: env is the innermost scope on top of the others
Holds(t, env) ==
  IF t.op = "ifset" THEN t.name \in DOMAIN env
  ELSE LET n == IF t.a1.name \in DOMAIN env THEN env[t.a1.name].n ELSE 0
       IN \/ t.fn = "ifgt" /\ n > t.a2.n
          \/ t.fn = "iflt" /\ n < t.a2.n
          \/ t.fn = "ifeq" /\ n = t.a2.n

Shown(s, i, env) ==
  \A j \in 1..(i - 1) :
    Encloses(s, j, i) => (Holds(s[j], env) <=> Cardinality(Elses(s, j, i)) % 2 = 0)

Extend(env, scope) == [n \in DOMAIN env \cup DOMAIN scope |->
                         IF n \in DOMAIN scope THEN scope[n] ELSE env[n]]

RECURSIVE Meaning(_, _)
Meaning(s, env) ==
  LET Says(i) ==
        LET t == s[i] IN
        CASE ~Shown(s, i, env) -> <<>>
          [] Shown(s, i, env) /\ t.op = "text" -> <<t>>
          [] Shown(s, i, env) /\ t.op \in {"var", "pipe"} ->
               IF t.name \in DOMAIN env
               THEN <<[stages |-> IF t.op = "pipe" THEN t.stages ELSE <<>>, of |-> env[t.name]]>>
               ELSE IF t.op = "var" /\ t.name \in DOMAIN Sub THEN Meaning(Sub[t.name], env)
               ELSE <<>>
          [] Shown(s, i, env) /\ t.op = "each" ->
               FlattenSeq([k \in 1..Len(env[t.name].items) |->
                             Meaning(Sub[t.tmpl],
                                     Extend(env, ItemScope(t.name, env[t.name].items[k])))])
          [] OTHER -> <<>>
  IN FlattenSeq([i \in 1..Len(s) |-> Says(i)])

\* The first {else} or {endif} without an {if}
Unmatched(s) == {i \in DOMAIN s : s[i].op \in {"else", "endif"} /\ ~\E j \in 1..(i - 1) : Encloses(s, j, i)}

\* The type a value has after some stages; there is none after a stage that
\* cannot be applied to the type before it
TypeAfter(stages, type) ==
  LET after[i \in 0..Len(stages)] ==
        IF i = 0 THEN type
        ELSE CASE stages[i] \in {"escape", "urlescape"} ->
                    IF after[i - 1] = "str" THEN "str" ELSE "none"
               [] stages[i] \in {"time", "date", "zulu", "rfc822"} ->
                    IF after[i - 1] = "int" THEN "str" ELSE "none"
               [] OTHER -> after[i - 1]
  IN after[Len(stages)]

\* What a browser makes of escaped text, and what a query string says
Entities == [amp |-> "&", lt |-> "<", gt |-> ">", quot |-> "\""]
Spelling == [amp |-> <<"&", "a", "m", "p", ";">>, lt |-> <<"&", "l", "t", ";">>,
             gt |-> <<"&", "g", "t", ";">>, quot |-> <<"&", "q", "u", "o", "t", ";">>]

HtmlDecode(s) ==
  LET from[i \in 1..(Len(s) + 1)] ==
        IF i > Len(s) THEN <<>>
        ELSE LET named == {e \in DOMAIN Entities : IsPrefix(Spelling[e], SubSeq(s, i, Len(s)))}
             IN IF named = {} THEN <<s[i]>> \o from[i + 1]
                ELSE LET e == CHOOSE e \in named : TRUE
                     IN <<Entities[e]>> \o from[i + Len(Spelling[e])]
  IN from[1]

UrlDecode(s) ==
  LET Escapes(c, i) == <<hd[Code(c) \div 16 + 1], hd[(Code(c) % 16) + 1]>> = SubSeq(s, i, i + 1)
      from[i \in 1..(Len(s) + 1)] ==
        IF i > Len(s) THEN <<>>
        ELSE IF s[i] = "+" THEN <<" ">> \o from[i + 1]
        ELSE IF s[i] # "%" THEN <<s[i]>> \o from[i + 1]
        ELSE <<CHOOSE c \in Punctuation : Escapes(c, i + 1)>> \o from[i + 3]
  IN from[1]

\* the text read back through all the stages, last to first
ReadBack(stages, s) ==
  LET back[i \in 0..Len(stages)] ==
        IF i = Len(stages) THEN s
        ELSE CASE stages[i + 1] = "escape" -> HtmlDecode(back[i + 1])
               [] stages[i + 1] = "urlescape" -> UrlDecode(back[i + 1])
               [] OTHER -> back[i + 1]
  IN back[0]

\* A printed value reads back as the value it was made from (a date as its
\* fields), and is harmless where the last stage says so
Prints(out, m) ==
  IF "op" \in DOMAIN m THEN out = m
  ELSE LET last == IF m.stages = <<>> THEN "none" ELSE m.stages[Len(m.stages)]
           IsText(stage) == stage \in {"time", "date", "zulu", "rfc822"}
       IN IF TypeAfter(m.stages, m.of.type) = "int" THEN out = m.of
          ELSE /\ out.type = "str"
               /\ ReadBack(m.stages, out.s)
                    = IF m.of.type = "int" THEN Stage(SelectSeq(m.stages, IsText)[1], m.of).s
                      ELSE m.of.s
               /\ last = "escape" => Count(out.s, {"<", ">", "\""}) = 0
               /\ last = "urlescape" => \A i \in DOMAIN out.s :
                     IsAlnum(out.s[i]) \/ out.s[i] \in {"+", "-", "_", ".", "~", "%"}

\* a value that a template must not print
Unprintable(m) == "of" \in DOMAIN m /\ TypeAfter(m.stages, m.of.type) \notin {"str", "int"}

\* A rendered page is what its template means: the text, values, loops and
\* sub-templates that every enclosing {if} lets through, in order, each
\* looked up in the innermost scope and converted so that it reads back as
\* what it was; conditions of one template never affect another.  And a page
\* fails only for an {else} or {endif} without {if}, or for a value that it
\* shows and that its stages are not for.
RendersMeaning ==
  LET meaning == Meaning(page, Globals)
      Bad == {i \in DOMAIN meaning : Unprintable(meaning[i])}
  IN (abort # "none" \/ frames = <<>>) =>
       /\ abort = "none" => /\ Len(output) = Len(meaning)
                            /\ Bad = {} /\ Unmatched(page) = {}
                            /\ \A i \in DOMAIN meaning : Prints(output[i], meaning[i])
       /\ abort \in {"none", "else", "endif", "type", "stage"}
       /\ abort \in {"else", "endif"} => Unmatched(page) # {}
       /\ abort \in {"type", "stage"} => Bad # {}
=============================================================================
