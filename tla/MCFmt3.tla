------------------------------- MODULE MCFmt3 -------------------------------
(***************************************************************************)
(* Posts put together from pieces, and what their HTML should be, read off *)
(* the grammar from the top down and not, as the parser does, token by     *)
(* token from the left.                                                    *)
(***************************************************************************)
EXTENDS Fmt3

\* Bounds: the pieces that are put together, of any kind and of the kinds that
\* nest, and how deep environments and arguments are in each other.
CONSTANTS MaxPieces, MaxNesting, MaxDepth

T(type) == <<[t |-> type]>>
W(s) == <<[t |-> "word", s |-> s]>>
Cmd1(name, arg) == T("bs") \o W(name) \o T("{") \o arg \o T("}")
CmdOpen(name) == T("bs") \o W(name) \o T("{")
With(type, s) == <<[t |-> type, s |-> s]>>
Var(v, s) == <<[t |-> "special", var |-> v, s |-> s]>>

Plain == {W("x"), T("sp"), T("nl"), T("nl") \o T("nl"), T("comment"), T("amp"), T("}")}
Nesting == {Cmd1("begin", W("texttt")), Cmd1("end", W("texttt")),
            Cmd1("begin", W("tabular")), Cmd1("end", W("tabular")), CmdOpen("trow")}
Others == {T("bad"), T("bs"), T("]"), With("chars", "<"), With("math", "m"), T("script"),
           With("verbatim", "v"), T("hollow"),
           Var("title", "x"), Var("title", "y"), Var("tags", "x"), Var("tags", "y"),
           T("bs") \o W("tm"), T("bs") \o W("emph"), T("bs") \o W("nosuch"),
           CmdOpen("emph"), CmdOpen("section"), CmdOpen("link"), CmdOpen("bug"),
           T("bs") \o W("link") \o T("["), T("bs") \o W("link") \o T("[") \o W("l") \o T("]") \o T("{"),
           T("bs") \o W("item") \o T("[") \o W("l") \o T("]") \o T("{"), CmdOpen("post"), CmdOpen("wiki"),
           CmdOpen("category"), CmdOpen("abbrev"), CmdOpen("img"), CmdOpen("listing"),
           Cmd1("begin", W("itemize")), Cmd1("end", W("itemize")),
           Cmd1("begin", W("quote")), Cmd1("end", W("quote")), Cmd1("begin", W("x"))}

\* texts of up to n pieces
Strings(pieces, n) == {FlattenSeq(q) : q \in BoundedSeq(pieces, n)}

\* environments and arguments around text, to some depth
Envs == {"texttt", "itemize", "quote", "tabular"}
Around(b) ==
  {Cmd1("begin", W(e)) \o b \o Cmd1("end", W(e)) : e \in Envs}
  \cup {Cmd1(c, b) : c \in {"trow", "item", "emph", "section"}}
  \cup {W("x") \o b, Cmd1("trow", W("x") \o T("amp") \o b), b \o T("nl") \o T("nl") \o W("x")}
Deep[d \in 0..MaxDepth] ==
  IF d = 0 THEN {W("x"), T("nl")}
  ELSE LET inner == Deep[d - 1] IN inner \cup UNION {Around(b) : b \in inner}

Breaks == {W("x"), T("nl"), T("nl") \o T("nl"), T("amp"), T("}")}

\* The filter is there for TLC, which sorts what it filters and finds duplicates fast.
Structured == {text \in Deep[MaxDepth] \cup Strings(Breaks \cup Nesting, MaxNesting) : text # <<>>}

MCSources == Structured \cup Strings(Plain \cup Nesting \cup Others, MaxPieces)

-----------------------------------------------------------------------------
(* The tokens of a text *)

Blank(i) == IsAt(i, "sp") \/ IsAt(i, "nl")

\* an empty line starts at i or before, with only white space since
InGap(i) == \E k \in 1..i : IsAt(k, "nl") /\ IsAt(k + 1, "nl") /\ \A j \in k..i : Blank(j)

Lexed ==
  FlattenSeq([i \in DOMAIN src |->
    IF \E k \in 1..i : src[k].t = "bad" THEN <<>>
    ELSE IF InGap(i) THEN IF i > 1 /\ InGap(i - 1) THEN <<>> ELSE T("par")
    ELSE IF src[i].t = "comment" THEN <<>>
    ELSE <<src[i]>>]) \o T("eof")

-----------------------------------------------------------------------------
(* The grammar, from the top down *)

\* \begin{e} less \end{e} among the first n tokens
Nested(ts, e, n) ==
  LET Uses(c) == {k \in 1..(n - 4) : SubSeq(ts, k, k + 4) = Cmd1(c, W(e))}
  IN Cardinality(Uses("begin")) - Cardinality(Uses("end"))

\* what begin and end become; up to and with the token n
EnvHtml(c, txt, ts, n) ==
  LET e == EnvName(txt)
      outer == e # "tabular" \/ Nested(ts, e, IF c = "begin" THEN n - 1 ELSE n) = 0
  IN IF e = "invalid" THEN Invalid
     ELSE IF c = "begin" THEN (IF outer THEN <<Close("p")>> ELSE <<>>) \o <<Open(ElementOf[e])>>
                              \o (IF e = "quote" THEN <<Open("p")>> ELSE <<>>)
     ELSE (IF e = "quote" THEN <<Close("p")>> ELSE <<>>) \o <<Close(ElementOf[e])>>
          \o (IF outer THEN <<Open("p")>> ELSE <<>>)

\* A phrase that ends before the token end; fail says why there is none.
Phrase(end, html, null, fail) == [end |-> end, html |-> html, null |-> null, fail |-> fail]
Fails(why) == Phrase(0, <<>>, FALSE, why)
ThingStarts == Texts \cup Areas \cup {"special", "bs"}

RECURSIVE Thing(_, _), Paragraph(_, _), Paragraphs(_, _)

\* what is between brackets at i
Argument(ts, i, close) ==
  LET Closed(p) == IF p.fail = None /\ ts[p.end].t # close THEN Fails("syntax")
                   ELSE [p EXCEPT !.end = p.end + 1]
  IN Closed(Paragraph(ts, i + 1))

\* the command whose name is at i, with its arguments
Applied(ts, i, opt, txt) ==
  LET name == ts[i].s
      c == cmds(~opt.null)[name]
  IN IF txt.fail # None THEN txt
     ELSE IF name \notin DOMAIN cmds(FALSE) THEN Phrase(txt.end, Invalid, FALSE, None)
     ELSE IF (c.square = "PROHIBITED" /\ ~opt.null) \/ (c.curly = "PROHIBITED" /\ ~txt.null)
             \/ (c.curly = "REQUIRED" /\ txt.null)
     THEN Fails("assert")
     ELSE Phrase(txt.end,
                 IF name \in {"begin", "end"} THEN EnvHtml(name, txt.html, ts, txt.end - 1)
                 ELSE Fill(c.html, txt.html, opt.html), FALSE, None)

CommandAt(ts, i) ==
  LET no == Phrase(i + 1, <<>>, TRUE, None)
      After(opt) == Applied(ts, i, opt,
                      IF opt.fail # None THEN opt
                      ELSE IF ts[opt.end].t = "{" THEN Argument(ts, opt.end, "}")
                      ELSE IF ts[i + 1].t = "[" THEN Fails("syntax") ELSE no)
  IN After(IF ts[i + 1].t = "[" THEN Argument(ts, i + 1, "]") ELSE no)

Thing(ts, i) ==
  LET t == ts[i].t
      Is(html) == Phrase(i + 1, html, FALSE, None)
  IN CASE t \in {"word", "chars"} -> Is(<<Says(Replaced(ts[i].s))>>)
       [] t = "sp"    -> Is(<<Says(" ")>>)
       [] t = "nl"    -> Is(<<Says(IF Nested(ts, "texttt", i) # 0 THEN "\n" ELSE " ")>>)
       [] t = "tilde" -> Is(<<Says("&nbsp;")>>)
       [] t = "amp"   -> Is(<<Close("td"), Open("td")>>)
       [] t = "math"  -> Is(In("math", <<Says(ts[i].s)>>))
       [] t = "verbatim" -> Is(Block(<<Says(ts[i].s)>>))
       [] t = "list"  -> Is(Block(In("pre", <<Says(ts[i].s)>>)))
       [] t = "special" -> Phrase(i + 1, <<>>, TRUE, None)
       [] t = "bs"    -> IF ts[i + 1].t \in Literal THEN Phrase(i + 2, <<Says(ts[i + 1].t)>>, FALSE, None)
                         ELSE IF ts[i + 1].t = "word" THEN CommandAt(ts, i + 1) ELSE Fails("syntax")
       [] OTHER       -> Fails("syntax")

\* a phrase and the next one
Joined(first, rest) ==
  IF rest.fail # None THEN rest ELSE Phrase(rest.end, first.html \o rest.html, FALSE, None)

\* things, and one at least
Paragraph(ts, i) ==
  LET From(first) == IF first.fail # None \/ ts[first.end].t \notin ThingStarts THEN first
                     ELSE Joined(first, Paragraph(ts, first.end))
  IN From(Thing(ts, i))

Paragraphs(ts, i) ==
  LET From(p) == IF p.fail # None THEN p
                 ELSE IF ts[p.end].t = "par" /\ ts[p.end + 1].t # "eof"
                 THEN Joined([p EXCEPT !.html = In("p", @)], Paragraphs(ts, p.end + 1))
                 ELSE Phrase(IF ts[p.end].t = "par" THEN p.end + 1 ELSE p.end,
                             In("p", p.html), FALSE, None)
  IN From(Paragraph(ts, i))

Meaning ==
  LET Whole(ts, p) == IF ts[1].t = "par" THEN IF ts[2].t = "eof" THEN Phrase(2, <<>>, FALSE, None)
                                              ELSE Fails("syntax")
                      ELSE IF p.fail = None /\ ts[p.end].t # "eof" THEN Fails("syntax") ELSE p
  IN Whole(Lexed, Paragraphs(Lexed, 1))

\* a comment alone between two blank lines, as in tests/fmt3-bugs/comment-par.tex: there
\* are two ends of paragraphs in a row, and the grammar has no place for the second
CommentedGap(ts) == \E i \in 2..Len(ts) : ts[i - 1].t = "par" /\ ts[i].t = "par"

\* The parser, which reduces as it reads, gives a post the HTML of its grammar, and
\* fails where the grammar or the cmds table has no place for what is there (post_fmt3.y,
\* post_fmt3.l, process_cmd); of two titles the last is kept, and every tag.  Not
\* of posts with a commented gap, for which that test wants what the grammar does not say.
ParsesAsMeant ==
  LET Given(v) == SelectSeq(Lexed, LAMBDA tok : tok.t = "special" /\ tok.var = v)
      titles == Given("title")
      tags == Given("tags")
      Means(m) == IF m.fail # None THEN outcome = m.fail
                  ELSE /\ outcome = "ok"
                       /\ stroutput = m.html
                       /\ sc.title = IF titles = <<>> THEN None ELSE Last(titles).s
                       /\ sc.tags = Reverse([i \in DOMAIN tags |-> tags[i].s])
  IN outcome # "parsing" /\ ~CommentedGap(Lexed) => Means(Meaning)

-----------------------------------------------------------------------------
(* Posts that use the commands where they belong *)

Attributes == {"link", "photolink", "wiki", "post", "taglink", "bug", "img", "photo", "abbrev"}
Blocks == {"section", "subsection", "subsubsection", "listing"}

OnlyQuotes(ctx) == \A k \in DOMAIN ctx : ctx[k] = <<"env", "quote">>

Allowed(name, ctx) ==
  /\ \A k \in DOMAIN ctx : ctx[k][1] = "env" \/ ctx[k][2] \notin Attributes
  /\ name \in Blocks => OnlyQuotes(ctx)

EnvAllowed(e, ctx) == OnlyQuotes(ctx) \/ (e = "tabular" /\ Contains(ctx, <<"env", "tabular">>))

\* What is open after a token, and whether all so far is where it belongs.  The
\* environments that end a paragraph are only in the text or in quotations, a
\* table also in another's cell, cells are in rows, addresses are plain text.
UseToken(ts, use, i) ==
  LET t == ts[i].t
      ctx == use.ctx
      inner == Front(ctx)
      e == EnvName(<<Says(ts[i - 1].s)>>)
      named == ts[i - 2].t = "{" /\ ts[i - 1].t = "word" /\ e # "invalid"
      Now(c, ok) == [use EXCEPT !.ctx = c, !.neat = @ /\ ok, !.bs = FALSE]
  IN CASE t = "bs" /\ ~use.bs -> [use EXCEPT !.bs = TRUE]
       [] t = "word" /\ use.bs -> [Now(ctx, Allowed(ts[i].s, ctx)) EXCEPT !.cmd = ts[i].s]
       [] ~use.bs /\ t \in {"{", "["} -> Now(Append(ctx, <<"cmd", use.cmd>>), TRUE)
       [] ~use.bs /\ t \in {"}", "]"} ->
            IF ctx = <<>> \/ Last(ctx)[1] = "env" THEN Now(<<>>, FALSE)
            ELSE IF Last(ctx)[2] = "begin" /\ named
            THEN Now(Append(inner, <<"env", e>>), EnvAllowed(e, inner))
            ELSE IF Last(ctx)[2] = "end" /\ named
            THEN IF inner = <<>> THEN Now(inner, FALSE)
                 ELSE Now(Front(inner), Last(inner) = <<"env", e>>)
            ELSE [Now(inner, TRUE) EXCEPT !.cmd = Last(ctx)[2]]
       [] ~use.bs /\ t = "amp" -> Now(ctx, ctx # <<>> /\ Last(ctx) = <<"cmd", "trow">>)
       [] t \in {"verbatim", "list", "par"} -> Now(ctx, OnlyQuotes(ctx))
       [] t = "math" -> Now(ctx, Allowed("emph", ctx))
       [] OTHER -> Now(ctx, TRUE)

UsedWell ==
  LET ts == Lexed
      use[i \in 0..Len(ts)] ==
        IF i = 0 THEN [ctx |-> <<>>, cmd |-> None, bs |-> FALSE, neat |-> TRUE]
        ELSE UseToken(ts, use[i - 1], i)
  IN use[Len(ts)].neat /\ use[Len(ts)].ctx = <<>>

\* every tag that is opened is closed, innermost first, and addresses are plain text
WellNested(html) ==
  LET open[i \in 0..Len(html)] ==
        IF i = 0 THEN <<>>
        ELSE LET o == open[i - 1]
             IN IF "says" \in DOMAIN html[i] THEN o
                ELSE IF "open" \in DOMAIN html[i]
                THEN Append(o, IF o # <<>> /\ Last(o) = "attr" THEN "stuck" ELSE html[i].open)
                ELSE IF o # <<>> /\ Last(o) = html[i].close THEN Front(o) ELSE Append(o, "stuck")
  IN open[Len(html)] = <<>>

\* A post that uses the commands where they belong becomes well nested HTML: the
\* paragraphs that the environments end and start again fit, whatever is in what
\* (__process_begin, __process_end, __process_section, the rules of paragraphs).
Balanced == outcome = "ok" /\ UsedWell => WellNested(stroutput)
=============================================================================
