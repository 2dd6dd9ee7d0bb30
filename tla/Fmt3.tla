-------------------------------- MODULE Fmt3 --------------------------------
(***************************************************************************)
(* The formatter of posts: the lexer (post_fmt3.l), the grammar            *)
(* (post_fmt3.y) and the commands (post_fmt3_cmds.c), from a post.tex to   *)
(* HTML and the values of \title, \tag and the like.                       *)
(*                                                                         *)
(* The text is a sequence of symbols, one for the characters that the      *)
(* lexer keeps together; lexing is what it does with line ends, blank      *)
(* lines, comments and characters it does not know.  The parser reduces as *)
(* soon as it can, so it is a walk along the tokens with a stack of frames *)
(* for the paragraphs that are not finished: the post's and, inside it,    *)
(* those of arguments.  HTML is a sequence of tags and texts.              *)
(***************************************************************************)
EXTENDS Integers, FiniteSets, SequencesExt

CONSTANT Sources    \* the texts that may be formatted

\* A symbol has a type t: "word" and "chars" (s), "sp", "nl", "comment", "bad",
\* "amp", "tilde", "script" (_ or ^), "bs" (the backslash), "{", "}", "[", "]",
\* "verbatim", "list" (a listing) and "math" (s: what is in them), "special"
\* (var, s) as in \title{s}, and "hollow": one of these with nothing in it.

VARIABLES
  src, pos,         \* the text, and the next symbol
  frames,           \* the paragraphs that are being parsed
  table_nesting, texttt_nesting,
  sc,               \* data->sc_title and the others; sc_tags from the last to the first
  unbalanced,       \* some argument's string was put once too often, or never
  outcome,          \* "parsing", "ok", or how it failed: "syntax" or "assert"
  stroutput

vars == <<src, pos, frames, table_nesting, texttt_nesting, sc, unbalanced, outcome, stroutput>>

-----------------------------------------------------------------------------
(* HTML *)

Open(e) == [open |-> e]
Close(e) == [close |-> e]
Says(s) == [says |-> s]

\* pieces that stand for a command's arguments
Txt == [arg |-> "txt"]
Opt == [arg |-> "opt"]

In(e, html) == <<Open(e)>> \o html \o <<Close(e)>>

\* a block between two paragraphs
Block(html) == <<Close("p")>> \o html \o <<Open("p")>>

-----------------------------------------------------------------------------
(* The commands: __process_* and the table cmds *)

\* what a command does with its strings: str_cat takes one reference for each
\* piece, unless the command writes into a buffer; get and put are those it gets
\* and puts besides
Command(square, curly, html, get, put) ==
  [square |-> square, curly |-> curly, html |-> html,
   buffered |-> FALSE, get |-> get, put |-> put]

Req(html) == Command("PROHIBITED", "REQUIRED", html, {}, {})
Non(html) == Command("PROHIBITED", "PROHIBITED", html, {}, {})
Nop       == Command("PROHIBITED", "REQUIRED", <<>>, {}, {"txt", "opt"})

\* (mutant) the text is taken twice but not got again
LinkOnce(hasOpt) ==
  Command("ALLOWED", "REQUIRED",
          In("a", In("attr", <<Txt>>) \o (IF hasOpt THEN <<Opt>> ELSE <<Txt>>)), {}, {})

\* __process_link, __process_photolink: an address, and the label or else the
\* address
Link(hasOpt) ==
  Command("ALLOWED", "REQUIRED",
          In("a", In("attr", <<Txt>>) \o (IF hasOpt THEN <<Opt>> ELSE <<Txt>>)),
          IF hasOpt THEN {} ELSE {"txt"}, {})

Icon == In("attr", <<Says("icon")>>)

\* __process_wiki
Wiki(hasOpt) ==
  Command("ALLOWED", "REQUIRED",
          In("a", In("attr", <<Txt>>) \o Icon \o (IF hasOpt THEN <<Opt>> ELSE <<Txt>>)),
          IF hasOpt THEN {} ELSE {"txt"}, {})

\* __process_post, __process_taglink
BufferedLink(hasOpt) == [Link(hasOpt) EXCEPT !.buffered = TRUE, !.get = {}, !.put = {"txt", "opt"}]

\* __process_img, __process_photo
Image == Command("ALLOWED", "REQUIRED", <<Open("attr"), Txt, Opt, Close("attr")>>, {}, {})

\* __process_abbrev: the long form, or else the text, is in the title
Abbrev(hasOpt) ==
  Command("ALLOWED", "REQUIRED",
          In("abbr", In("attr", IF hasOpt THEN <<Opt>> ELSE <<Txt>>) \o <<Txt>>),
          IF hasOpt THEN {} ELSE {"txt"}, {})

\* __process_item
Item(hasOpt) ==
  Command("ALLOWED", "REQUIRED",
          IF hasOpt THEN In("dt", <<Opt>>) \o In("dd", <<Txt>>) ELSE In("li", <<Txt>>), {}, {})

\* __process_bug: the number is there twice
Bug == Command("PROHIBITED", "REQUIRED", In("a", In("attr", <<Txt>>) \o Icon \o <<Txt>>), {"txt"}, {})

\* __process_listing: the file's lines, and not the arguments
Listing == Command("ALLOWED", "REQUIRED", Block(In("pre", <<Says("file")>>)), {}, {"txt", "opt"})

\* __process_begin and __process_end take the name of the environment apart
Environment == Command("PROHIBITED", "REQUIRED", <<>>, {}, {"txt"})

cmds(hasOpt) ==
  [leftarrow |-> Non(<<Says("larr")>>), leftrightarrow |-> Non(<<Says("harr")>>),
   rightarrow |-> Non(<<Says("rarr")>>), tm |-> Non(<<Says("trade")>>),
   category |-> Nop, tag |-> Nop, title |-> Nop, published |-> Nop,
   abbrev |-> Abbrev(hasOpt), img |-> Image, item |-> Item(hasOpt), link |-> Link(hasOpt),
   listing |-> Listing, photo |-> Image, photolink |-> Link(hasOpt),
   post |-> BufferedLink(hasOpt), taglink |-> BufferedLink(hasOpt), wiki |-> Wiki(hasOpt),
   begin |-> Environment, bug |-> Bug, degree |-> Req(<<Says("deg"), Txt>>),
   emph |-> Req(In("em", <<Txt>>)), end |-> Environment,
   section |-> Req(Block(In("h3", <<Txt>>))), subsection |-> Req(Block(In("h4", <<Txt>>))),
   subsubsection |-> Req(Block(In("h5", <<Txt>>))),
   textbf |-> Req(In("strong", <<Txt>>)), textit |-> Req(In("i", <<Txt>>)),
   texttt |-> Req(In("span", <<Txt>>)), trow |-> Req(In("tr", In("td", <<Txt>>)))]

\* the element that an environment becomes
ElementOf == [texttt |-> "pre", enumerate |-> "ol", itemize |-> "ul", description |-> "dl",
              quote |-> "blockquote", tabular |-> "table"]

\* the name of an environment, when the argument is just a name
EnvName(txt) == IF Len(txt) = 1 /\ txt[1] \in {Says(e) : e \in DOMAIN ElementOf}
                THEN txt[1].says ELSE "invalid"

Invalid == <<Says("invalid")>>

\* __process_begin; only the outermost table ends the paragraph
Begin(e) ==
  CASE e = "invalid" -> Invalid
    [] e = "quote"   -> <<Close("p"), Open("blockquote"), Open("p")>>
    [] e = "tabular" -> IF table_nesting # 0 THEN <<Open("table")>> ELSE <<Close("p"), Open("table")>>
    [] OTHER         -> <<Close("p"), Open(ElementOf[e])>>

\* (mutant) the nesting is looked at before it is decremented
EndPost(e) ==
  CASE e = "invalid" -> Invalid
    [] e = "quote"   -> <<Close("p"), Close("blockquote"), Open("p")>>
    [] e = "tabular" -> IF table_nesting # 0 THEN <<Close("table")>> ELSE <<Close("table"), Open("p")>>
    [] OTHER         -> <<Close(ElementOf[e]), Open("p")>>

\* __process_end
End(e) ==
  CASE e = "invalid" -> Invalid
    [] e = "quote"   -> <<Close("p"), Close("blockquote"), Open("p")>>
    [] e = "tabular" -> IF table_nesting - 1 # 0 THEN <<Close("table")>>
                        ELSE <<Close("table"), Open("p")>>
    [] OTHER         -> <<Close(ElementOf[e]), Open("p")>>

-----------------------------------------------------------------------------
(* The lexer *)

IsAt(p, t) == p \in DOMAIN src /\ src[p].t = t

\* (mutant) white space after the second line end is left for later
NextTokenShort(p) ==
  IF p \notin DOMAIN src \/ IsAt(p, "bad") THEN [t |-> "eof", next |-> p]
  ELSE IF IsAt(p, "nl") /\ IsAt(p + 1, "nl") THEN [t |-> "par", next |-> p + 2]
  ELSE [t |-> src[p].t, next |-> p + 1]

\* The token at a symbol that is no comment: two line ends and all the white
\* space that follows are one token, a character that no rule is for ends the
\* text (yyterminate).
NextToken(p) ==
  IF p \notin DOMAIN src \/ IsAt(p, "bad") THEN [t |-> "eof", next |-> p]
  ELSE IF IsAt(p, "nl") /\ IsAt(p + 1, "nl")
  THEN [t |-> "par",
        next |-> CHOOSE q \in (p + 2)..(Len(src) + 1) :
                   /\ ~IsAt(q, "nl") /\ ~IsAt(q, "sp")
                   /\ \A k \in (p + 2)..(q - 1) : IsAt(k, "nl") \/ IsAt(k, "sp")]
  ELSE [t |-> src[p].t, next |-> p + 1]

Tok == NextToken(pos).t

-----------------------------------------------------------------------------
(* The parser *)

\* no word is empty
None == ""

NoCommand == [name |-> None, square |-> FALSE, opt |-> <<>>, hasOpt |-> FALSE]

\* kind: "post", "square" or "curly".  paras: the paragraphs that are complete,
\* text: the one that is not, things: how many there are in it, null: it is a
\* single thing without a value.  state: "start", "in" a paragraph, "after" a
\* blank line that ends one, or a blank line is the "only" token so far.
\* cmd: the command whose arguments are to come; its name is "\\" before that,
\* square: '[' ... ']' was there, hasOpt: and had a value.
Frame(kind) == [kind |-> kind, paras |-> <<>>, text |-> <<>>, null |-> FALSE,
                state |-> "start", cmd |-> NoCommand]

Init ==
  /\ src \in Sources
  /\ pos = 1
  /\ frames = <<Frame("post")>>
  /\ table_nesting = 0 /\ texttt_nesting = 0
  /\ sc = [title |-> None, pub |-> None, tags |-> <<>>, img |-> None]
  /\ unbalanced = FALSE
  /\ outcome = "parsing"
  /\ stroutput = <<>>

Top == frames[Len(frames)]

Cmd == Top.cmd

\* paragraph : paragraph thing | thing
AddThing(frame, html, isNull) ==
  [frame EXCEPT !.text = @ \o html, !.null = isNull /\ frame.state # "in",
                !.state = "in", !.cmd = NoCommand]

SetTop(frame) == frames' = [frames EXCEPT ![Len(frames)] = frame]

Shift == pos' = NextToken(pos).next

\* a thing may follow
ThingFits == outcome = "parsing" /\ Cmd.name = None /\ Top.state # "only"

Replaced(s) ==
  CASE s = "--" -> "&ndash;" [] s = "---" -> "&mdash;" [] s = "`" -> "&lsquo;"
    [] s = "``" -> "&ldquo;" [] s = "'" -> "&rsquo;" [] s = "''" -> "&rdquo;"
    [] s = "\"" -> "&quot;" [] s = "<" -> "&lt;" [] s = ">" -> "&gt;"
    [] s = "..." -> "&hellip;" [] OTHER -> s

\* the tokens that are a thing by themselves
Texts == {"word", "chars", "sp", "nl", "amp", "tilde"}
Areas == {"verbatim", "list", "math"}

\* a comment leaves no token
Comment ==
  /\ outcome = "parsing"
  /\ IsAt(pos, "comment")
  /\ pos' = pos + 1
  /\ UNCHANGED <<src, frames, table_nesting, texttt_nesting, sc, unbalanced, outcome, stroutput>>

\* thing: text, line ends, table cells
Text ==
  /\ ThingFits
  /\ Tok \in Texts
  /\ Shift
  /\ SetTop(AddThing(Top,
       CASE Tok = "word"  -> <<Says(src[pos].s)>>
         [] Tok = "chars" -> <<Says(Replaced(src[pos].s))>>
         [] Tok = "sp"    -> <<Says(" ")>>
         [] Tok = "nl"    -> <<Says(IF texttt_nesting # 0 THEN "\n" ELSE " ")>>
         [] Tok = "tilde" -> <<Says("&nbsp;")>>
         [] Tok = "amp"   -> <<Close("td"), Open("td")>>, FALSE))
  /\ UNCHANGED <<src, table_nesting, texttt_nesting, sc, unbalanced, outcome, stroutput>>

\* thing: what the lexer reads in a mode of its own
Verbatim ==
  /\ ThingFits
  /\ Tok \in Areas
  /\ Shift
  /\ SetTop(AddThing(Top,
       CASE Tok = "verbatim" -> Block(<<Says(src[pos].s)>>)
         [] Tok = "list"     -> Block(In("pre", <<Says(src[pos].s)>>))
         [] Tok = "math"     -> In("math", <<Says(src[pos].s)>>), FALSE))
  /\ UNCHANGED <<src, table_nesting, texttt_nesting, sc, unbalanced, outcome, stroutput>>

\* thing: special_cmd, special_cmd_list; the thing has no value
Special ==
  /\ ThingFits
  /\ Tok = "special"
  /\ Shift
  /\ sc' = IF src[pos].var = "tags" THEN [sc EXCEPT !.tags = <<src[pos].s>> \o @]
           ELSE [sc EXCEPT ![src[pos].var] = src[pos].s]
  /\ SetTop(AddThing(Top, <<>>, TRUE))
  /\ UNCHANGED <<src, table_nesting, texttt_nesting, unbalanced, outcome, stroutput>>

\* thing: '\\' cmd
Backslash ==
  /\ ThingFits
  /\ Tok = "bs"
  /\ Shift
  /\ SetTop([Top EXCEPT !.cmd.name = "\\"])
  /\ UNCHANGED <<src, table_nesting, texttt_nesting, sc, unbalanced, outcome, stroutput>>

\* cmd: a character that is meant literally
Literal == {"bs", "{", "}", "[", "]", "amp", "tilde", "script"}

CmdChar ==
  /\ outcome = "parsing" /\ Cmd.name = "\\"
  /\ Tok \in Literal
  /\ Shift
  /\ SetTop(AddThing(Top, <<Says(Tok)>>, FALSE))
  /\ UNCHANGED <<src, table_nesting, texttt_nesting, sc, unbalanced, outcome, stroutput>>

\* cmd: its name
CmdWord ==
  /\ outcome = "parsing" /\ Cmd.name = "\\"
  /\ Tok = "word"
  /\ Shift
  /\ SetTop([Top EXCEPT !.cmd.name = src[pos].s])
  /\ UNCHANGED <<src, table_nesting, texttt_nesting, sc, unbalanced, outcome, stroutput>>

Named == outcome = "parsing" /\ Cmd.name \notin {None, "\\"}

\* optcmdarg, cmdarg: '[' and '{'
OpenArg ==
  /\ Named
  /\ Tok = "{" \/ (Tok = "[" /\ ~Cmd.square)
  /\ Shift
  /\ frames' = Append(frames, Frame(IF Tok = "{" THEN "curly" ELSE "square"))
  /\ UNCHANGED <<src, table_nesting, texttt_nesting, sc, unbalanced, outcome, stroutput>>

\* __check_arg
Fits(tri, given) == tri = "ALLOWED" \/ (tri = "REQUIRED" <=> given)

\* the pieces of a command with its arguments in their places
Fill(html, txt, opt) ==
  FlattenSeq([i \in DOMAIN html |->
    IF html[i] = Txt THEN txt ELSE IF html[i] = Opt THEN opt ELSE <<html[i]>>])

\* references to an argument's string that are left, of the one that was given
Left(c, arg) ==
  1 + Cardinality({arg} \cap c.get) - Cardinality({arg} \cap c.put)
    - Cardinality({i \in DOMAIN c.html : ~c.buffered /\ c.html[i] = [arg |-> arg]})

\* process_cmd for the command of the frame that is on top once depth frames
\* are left; the command becomes a thing of that frame's paragraph
ProcessCmd(depth, hasTxt, txt) ==
  LET caller == frames[depth]
      name == caller.cmd.name
      opt == caller.cmd.opt
      hasOpt == caller.cmd.hasOpt
      c == cmds(hasOpt)[name]
      e == EnvName(txt)
      html == CASE name = "begin" -> Begin(e)
                [] name = "end"   -> End(e)
                [] OTHER          -> Fill(c.html, txt, opt)
      Returns(h) == frames' = [i \in 1..depth |-> IF i < depth THEN frames[i]
                                                  ELSE AddThing(caller, h, FALSE)]
      unit == CASE name = "begin" -> 1 [] name = "end" -> 0 - 1 [] OTHER -> 0
  IN IF name \notin DOMAIN cmds(FALSE)
     THEN /\ Returns(Invalid)
          /\ UNCHANGED <<table_nesting, texttt_nesting, unbalanced, outcome>>
     ELSE IF ~Fits(c.square, hasOpt) \/ ~Fits(c.curly, hasTxt)
     THEN outcome' = "assert" /\ UNCHANGED <<frames, table_nesting, texttt_nesting, unbalanced>>
     ELSE /\ Returns(html)
          /\ table_nesting' = table_nesting + IF e = "tabular" THEN unit ELSE 0
          /\ texttt_nesting' = texttt_nesting + IF e = "texttt" THEN unit ELSE 0
          /\ unbalanced' = (\/ unbalanced
                            \/ hasTxt /\ Left(c, "txt") # 0
                            \/ hasOpt /\ Left(c, "opt") # 0)
          /\ UNCHANGED outcome

\* cmd : WORD, once the next token is seen to be no argument's
CmdAlone ==
  /\ Named /\ ~Cmd.square
  /\ Tok \notin {"[", "{"} /\ ~IsAt(pos, "comment")
  /\ ProcessCmd(Len(frames), FALSE, <<>>)
  /\ UNCHANGED <<src, pos, sc, stroutput>>

\* a paragraph is complete
Ends(kind) == outcome = "parsing" /\ Cmd.name = None /\ Top.kind = kind /\ Top.state = "in"

WithOpt(caller) == [caller EXCEPT !.cmd.square = TRUE, !.cmd.opt = Top.text, !.cmd.hasOpt = ~Top.null]

\* optcmdarg : '[' paragraph ']'; a paragraph without a value is as good as none
CloseSquare ==
  /\ Ends("square")
  /\ Tok = "]"
  /\ Shift
  /\ frames' = [Front(frames) EXCEPT ![Len(frames) - 1] = WithOpt(@)]
  /\ UNCHANGED <<src, table_nesting, texttt_nesting, sc, unbalanced, outcome, stroutput>>

\* cmdarg : '{' paragraph '}', and the command
CloseCurly ==
  /\ Ends("curly")
  /\ Tok = "}"
  /\ Shift
  /\ ProcessCmd(Len(frames) - 1, ~Top.null, Top.text)
  /\ UNCHANGED <<src, sc, stroutput>>

\* paragraphs : ... paragraph
InP(frame) == IF frame.state = "in" THEN frame.paras \o In("p", frame.text) ELSE frame.paras

\* PAREND
Par ==
  /\ outcome = "parsing" /\ Cmd.name = None /\ Top.kind = "post"
  /\ Top.state \in {"start", "in"}
  /\ Tok = "par"
  /\ Shift
  /\ SetTop([Top EXCEPT !.state = IF @ = "in" THEN "after" ELSE "only",
                        !.paras = InP(Top), !.text = <<>>, !.null = FALSE])
  /\ UNCHANGED <<src, table_nesting, texttt_nesting, sc, unbalanced, outcome, stroutput>>

\* post
Finish ==
  /\ outcome = "parsing" /\ Cmd.name = None /\ Top.kind = "post" /\ Top.state # "start"
  /\ Tok = "eof"
  /\ outcome' = "ok"
  /\ stroutput' = InP(Top)
  /\ UNCHANGED <<src, pos, frames, table_nesting, texttt_nesting, sc, unbalanced>>

\* the tokens that the grammar has a place for here
Expected ==
  IF Cmd.name = "\\" THEN Literal \cup {"word"}
  ELSE IF Cmd.name # None THEN IF Cmd.square THEN {"{"} ELSE {Tok}
  ELSE (IF Top.state # "only" THEN Texts \cup Areas \cup {"special", "bs"} ELSE {})
       \cup (CASE Top.kind = "post" -> IF Top.state \in {"start", "in"} THEN {"par"} ELSE {}
               [] Top.kind = "square" -> IF Top.state = "in" THEN {"]"} ELSE {}
               [] Top.kind = "curly"  -> IF Top.state = "in" THEN {"}"} ELSE {})
       \cup (IF Top.kind = "post" /\ Top.state # "start" THEN {"eof"} ELSE {})

\* fmt3_parse fails, and __do_load_post_body_fmt3 panics
SyntaxError ==
  /\ outcome = "parsing"
  /\ ~IsAt(pos, "comment")
  /\ Tok \notin Expected
  /\ outcome' = "syntax"
  /\ UNCHANGED <<src, pos, frames, table_nesting, texttt_nesting, sc, unbalanced, stroutput>>

Ended == outcome # "parsing" /\ UNCHANGED vars

Next ==
  \/ Comment \/ Text \/ Verbatim \/ Special \/ Backslash \/ CmdChar \/ CmdWord
  \/ OpenArg \/ CmdAlone \/ CloseSquare \/ CloseCurly \/ Par \/ Finish
  \/ SyntaxError \/ Ended

Spec == Init /\ [][Next]_vars

-----------------------------------------------------------------------------
(* What must hold *)

\* Every string that is given to a command is put exactly once, however often and on
\* whichever of its paths the command uses it (str_getref, str_putref, str_cat).
RefsConsumedOnce == ~unbalanced
=============================================================================
