----------------------------- MODULE PipeStages -----------------------------
(***************************************************************************)
(* The stages of a template's pipelines (pipeline.c) and the escaping they *)
(* share with the rest of the program (mangle.c).                          *)
(*                                                                         *)
(* A value has a type: "str" (s, its characters), "int" (n) or "null".     *)
(* The fields of a date stand for the digits or letters they become.       *)
(***************************************************************************)
EXTENDS Naturals, Sequences, FiniteSets, SequencesExt

Broken == [type |-> "broken"]   \* an assertion or panic in a stage

Count(s, chars) == Cardinality({i \in DOMAIN s : s[i] \in chars})

\* the characters that are not isalnum, of those the models use
Unreserved == {" ", "-", "_", ".", "~"}
Punctuation == {"<", ">", "&", "\"", "%", "+", ";", ":", ",", "/"}
IsAlnum(c) == c \notin Unreserved \cup Punctuation

-----------------------------------------------------------------------------
(* mangle_htmlescape: the first loop sizes the buffer, the second fills it *)

HtmlSize[s \in Seq(STRING)] ==
  Len(s) + 3 * Count(s, {"<", ">"}) + 4 * Count(s, {"&"}) + 5 * Count(s, {"\""})

\* (mutant) an ampersand is taken for harmless
HtmlCharAmp(c) ==
  CASE c = "<"  -> <<"&", "l", "t", ";">>
    [] c = ">"  -> <<"&", "g", "t", ";">>
    [] c = "\"" -> <<"&", "q", "u", "o", "t", ";">>
    [] OTHER    -> <<c>>

HtmlChar(c) ==
  CASE c = "<"  -> <<"&", "l", "t", ";">>
    [] c = ">"  -> <<"&", "g", "t", ";">>
    [] c = "&"  -> <<"&", "a", "m", "p", ";">>
    [] c = "\"" -> <<"&", "q", "u", "o", "t", ";">>
    [] OTHER    -> <<c>>

mangle_htmlescape[s \in Seq(STRING)] == FlattenSeq([i \in DOMAIN s |-> HtmlChar(s[i])])

-----------------------------------------------------------------------------
(* __urlescape_str *)

hd == <<"0", "1", "2", "3", "4", "5", "6", "7", "8", "9", "A", "B", "C", "D", "E", "F">>

\* the code of a character that is escaped
Code(c) ==
  CASE c = "\"" -> 34 [] c = "%" -> 37 [] c = "&" -> 38 [] c = "+" -> 43
    [] c = ","  -> 44 [] c = "/" -> 47 [] c = ":" -> 58 [] c = ";" -> 59
    [] c = "<"  -> 60 [] c = ">" -> 62

Unescaped(c) == IsAlnum(c) \/ c \in Unreserved

UrlSize[s \in Seq(STRING)] == Len(s) + 2 * Cardinality({i \in DOMAIN s : ~Unescaped(s[i])})

UrlChar(c) ==
  IF c = " " THEN <<"+">>
  ELSE IF Unescaped(c) THEN <<c>>
  ELSE <<"%", hd[Code(c) \div 16 + 1], hd[(Code(c) % 16) + 1]>>

UrlEscape[s \in Seq(STRING)] == FlattenSeq([i \in DOMAIN s |-> UrlChar(s[i])])

-----------------------------------------------------------------------------
(* The stages *)

\* __escape.  str_of_int has no text for an integer, which the assertion
\* after the switch meets; writing past the buffer is broken too.
EscapeWith(v, text, size) ==
  CASE v.type = "str"  -> IF Len(text) <= size THEN [type |-> "str", s |-> text] ELSE Broken
    [] v.type = "null" -> [type |-> "str", s |-> <<>>]
    [] OTHER           -> Broken

Chars(v) == IF v.type = "str" THEN v.s ELSE <<>>

escape_fxn(v) == EscapeWith(v, mangle_htmlescape[Chars(v)], HtmlSize[Chars(v)])

urlescape_fxn(v) == EscapeWith(v, UrlEscape[Chars(v)], UrlSize[Chars(v)])

\* __datetime
DateTime(v, fmt) == IF v.type = "int" THEN [type |-> "str", s |-> fmt] ELSE Broken

\* the stage of that name, or the nop stage
Stage(name, v) ==
  CASE name = "urlescape" -> urlescape_fxn(v)
    [] name = "escape"    -> escape_fxn(v)
    [] name = "time"      -> DateTime(v, <<"H", ":", "M">>)
    [] name = "date"      -> DateTime(v, <<"B", " ", "e", ",", " ", "Y">>)
    [] name = "zulu"      -> DateTime(v, <<"Y", "-", "m", "-", "d", "T",
                                           "H", ":", "M", ":", "S", "Z">>)
    [] name = "rfc822"    -> DateTime(v, <<"a", ",", " ", "d", " ", "b", " ", "Y", " ",
                                           "H", ":", "M", ":", "S", " ", "+", "0", "0", "0", "0">>)
    [] OTHER              -> v

\* the stages of a pipeline, in the order they were appended; every stage but
\* nop, which takes anything, leaves a broken value broken
RunPipeline(stages, v) ==
  LET after[i \in 0..Len(stages)] == IF i = 0 THEN v ELSE Stage(stages[i], after[i - 1])
  IN after[Len(stages)]
=============================================================================
