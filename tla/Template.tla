----------------------------- MODULE Template -----------------------------
(***************************************************************************)
(* The template engine: tmpl_parse as render_page drives it (template.y,   *)
(* parse.h, render.c) over the scopes of vars.c.                           *)
(*                                                                         *)
(* The parser acts on every word and command as it reduces it, so a        *)
(* template is its sequence of tokens and rendering is a walk along it.    *)
(* Conditions are kept on a stack, one per render_page; a command of a     *)
(* part that is not shown is still reduced.  A loop and a variable that is *)
(* no variable render another template, in a call of its own: a frame.     *)
(***************************************************************************)
EXTENDS PipeStages

CONSTANTS
  Pages,           \* the token sequences that may be rendered
  Sub,             \* the template files: a function from names to token sequences
  Globals,         \* the scopes[0] of the request: a function from names to values
  COND_STACK_DEPTH, VAR_MAX_SCOPES

\* A token has an op: "text", "var" {n}, "pipe" {n|stage|stage}, "each"
\* {n%tmpl}, "ifset" {ifset(n)}, "iffn" {ifgt(a,b)} and the like, "else",
\* "endif".  An argument is a number, [n |-> 0], or a variable, [name |-> x].
\* A value has a type: "str", "int", "array" (items) or "nvl" (vals).

ASSUME TemplateAssumption ==
  /\ COND_STACK_DEPTH \in Nat \ {0}
  /\ VAR_MAX_SCOPES \in Nat \ {0}

ASSUME TokensAssumption ==
  /\ \A p \in Pages : Len(p) \in Nat
  /\ \A t \in DOMAIN Sub : Len(Sub[t]) \in Nat

\* the templates a template names
Calls(t) == LET s == Sub[t]
            IN {s[i].name : i \in {k \in DOMAIN s : s[k].op = "var"}}
               \cup {s[i].tmpl : i \in {k \in DOMAIN s : s[k].op = "each"}}

\* no template names itself, directly or through others
NoRecursion ==
  \A S \in SUBSET DOMAIN Sub : S # {} => \E t \in S : Calls(t) \cap S = {}

ASSUME SubAssumption == NoRecursion

VARIABLES
  page,     \* the page being rendered
  scopes,   \* vars->scopes[0..cur]
  frames,   \* the calls of render_page: [tokens, pos, conds, out, items, looping]
  output,   \* of the page
  abort     \* "none", or what failed

vars == <<page, scopes, frames, output, abort>>

\* x.cond_stack_use is -1
Frame(tokens) == [tokens |-> tokens, pos |-> 1, conds |-> <<>>, out |-> <<>>,
                  items |-> <<>>, looping |-> FALSE]

Init ==
  /\ page \in Pages
  /\ scopes = <<Globals>>
  /\ frames = <<Frame(page)>>
  /\ output = <<>>
  /\ abort = "none"

-----------------------------------------------------------------------------

Top == frames[Len(frames)]

\* the parser is at a token with this operation
At(op) == /\ abort = "none"
          /\ frames # <<>>
          /\ Top.pos <= Len(Top.tokens)
          /\ Top.tokens[Top.pos].op = op

Name == Top.tokens[Top.pos].name

\* (mutant) only the innermost condition counts
CondValueInner(frame) == frame.conds = <<>> \/ frame.conds[Len(frame.conds)]

\* cond_value
CondValue(frame) == \A i \in DOMAIN frame.conds : frame.conds[i]

Known(n) == \E i \in DOMAIN scopes : n \in DOMAIN scopes[i]

\* vars_lookup: the innermost scope first
Lookup(n) ==
  LET i == CHOOSE i \in DOMAIN scopes :
             /\ n \in DOMAIN scopes[i]
             /\ \A j \in DOMAIN scopes : j > i => n \notin DOMAIN scopes[j]
  IN scopes[i][n]

Printable(v) == v.type \in {"str", "int"}

\* the frame after a token that made text
Advance(frame, text) == [frame EXCEPT !.pos = @ + 1, !.out = @ \o text]

Step(text) == frames' = [frames EXCEPT ![Len(frames)] = Advance(@, text)]

Fails(what) == abort' = what /\ UNCHANGED frames

\* words CHAR, words WORD
Text ==
  /\ At("text")
  /\ Step(IF CondValue(Top) THEN <<Top.tokens[Top.pos]>> ELSE <<>>)
  /\ UNCHANGED <<page, scopes, output, abort>>

\* pipeline: the value goes through the stages
Pipeline ==
  /\ At("pipe")
  /\ LET stages == Top.tokens[Top.pos].stages IN
     IF CondValue(Top) /\ Known(Name)
     THEN IF ~Printable(Lookup(Name)) THEN Fails("type")
          ELSE IF RunPipeline(stages, Lookup(Name)) = Broken THEN Fails("stage")
          ELSE Step(<<RunPipeline(stages, Lookup(Name))>>) /\ UNCHANGED abort
     ELSE Step(<<>>) /\ UNCHANGED abort
  /\ UNCHANGED <<page, scopes, output>>

\* variable: its value, or else the template of that name, if there is one
Variable ==
  /\ At("var")
  /\ IF ~CondValue(Top) THEN Step(<<>>) /\ UNCHANGED abort
     ELSE IF Known(Name)
     THEN IF Printable(Lookup(Name)) THEN Step(<<Lookup(Name)>>) /\ UNCHANGED abort
                                     ELSE Fails("type")
     ELSE /\ IF Name \in DOMAIN Sub THEN frames' = Append(frames, Frame(Sub[Name]))
                                    ELSE Step(<<>>)
          /\ UNCHANGED abort
  /\ UNCHANGED <<page, scopes, output>>

\* foreach: look the array up
Foreach ==
  /\ At("each")
  /\ ~Top.looping
  /\ IF CondValue(Top) /\ Known(Name)
     THEN IF Lookup(Name).type = "array"
          THEN /\ frames' = [frames EXCEPT ![Len(frames)] =
                               [@ EXCEPT !.looping = TRUE, !.items = Lookup(Name).items]]
               /\ UNCHANGED abort
          ELSE Fails("type")
     ELSE Step(<<>>) /\ UNCHANGED abort
  /\ UNCHANGED <<page, scopes, output>>

\* the variables an item sets in its scope
ItemScope(n, item) == IF item.type = "nvl" THEN item.vals ELSE [m \in {n} |-> item]

\* __foreach: a scope with the item's variables, and the template
ForeachItem ==
  /\ At("each")
  /\ Top.looping /\ Top.items # <<>>
  /\ LET item == Head(Top.items)
         tmpl == Top.tokens[Top.pos].tmpl
     IN IF Len(scopes) >= VAR_MAX_SCOPES THEN Fails("scopes") /\ UNCHANGED scopes
        ELSE IF item.type \notin {"nvl", "str"} THEN Fails("type") /\ UNCHANGED scopes
        ELSE /\ scopes' = Append(scopes, ItemScope(Name, item))
             /\ frames' = Append([frames EXCEPT ![Len(frames)].items = Tail(@)],
                                 Frame(IF tmpl \in DOMAIN Sub THEN Sub[tmpl] ELSE <<>>))
             /\ UNCHANGED abort
  /\ UNCHANGED <<page, output>>

\* the loop ends
ForeachEnd ==
  /\ At("each")
  /\ Top.looping /\ Top.items = <<>>
  /\ frames' = [frames EXCEPT ![Len(frames)] = [Advance(@, <<>>) EXCEPT !.looping = FALSE]]
  /\ UNCHANGED <<page, scopes, output, abort>>

\* the parser goes on with these conditions
Conds(conds) == frames' = [frames EXCEPT ![Len(frames)] = [Advance(@, <<>>) EXCEPT !.conds = conds]]

\* cond_if.  The assertion lets cond_stack_use reach COND_STACK_DEPTH, one
\* past the last element; what is written there is read back (the bytes
\* after cond_stack are padding).
CondIf(value) ==
  IF Len(Top.conds) > COND_STACK_DEPTH THEN Fails("depth")
  ELSE /\ Conds(Append(Top.conds, value))
       /\ UNCHANGED abort

\* {ifset(n)}
IfSet ==
  /\ At("ifset")
  /\ CondIf(Known(Name))
  /\ UNCHANGED <<page, scopes, output>>

\* __function_get_arg, of an argument that can be looked at
GetArg(arg) ==
  IF "n" \in DOMAIN arg THEN arg.n ELSE IF Known(arg.name) THEN Lookup(arg.name).n ELSE 0

IsNumber(arg) == "n" \in DOMAIN arg \/ (Known(arg.name) => Lookup(arg.name).type = "int")

\* __function
Compare(fn, a, b) ==
  \/ fn = "ifgt" /\ a > b
  \/ fn = "iflt" /\ a < b
  \/ fn = "ifeq" /\ a = b

\* {ifgt(a,b)}, {iflt(a,b)}, {ifeq(a,b)}: the arguments are looked at even
\* where nothing is shown
IfFn ==
  /\ At("iffn")
  /\ LET t == Top.tokens[Top.pos]
     IN IF ~IsNumber(t.a1) \/ ~IsNumber(t.a2) THEN Fails("type")
        ELSE CondIf(Compare(t.fn, GetArg(t.a1), GetArg(t.a2)))
  /\ UNCHANGED <<page, scopes, output>>

\* {else()}: cond_else
Else ==
  /\ At("else")
  /\ IF Top.conds = <<>> THEN Fails("else")
     ELSE /\ Conds([Top.conds EXCEPT ![Len(Top.conds)] = ~@])
          /\ UNCHANGED abort
  /\ UNCHANGED <<page, scopes, output>>

\* {endif()}: cond_endif
Endif ==
  /\ At("endif")
  /\ IF Top.conds = <<>> THEN Fails("endif")
     ELSE /\ Conds(SubSeq(Top.conds, 1, Len(Top.conds) - 1))
          /\ UNCHANGED abort
  /\ UNCHANGED <<page, scopes, output>>

\* (mutant) the item's scope is not popped
ReturnKeepsScope ==
  /\ abort = "none" /\ Len(frames) > 1 /\ Top.pos > Len(Top.tokens)
  /\ LET n == Len(frames) - 1
         caller == frames[n]
     IN frames' = [i \in 1..n |->
                     IF i < n THEN frames[i]
                     ELSE IF caller.looping THEN [caller EXCEPT !.out = @ \o Top.out]
                     ELSE Advance(caller, Top.out)]
  /\ UNCHANGED <<page, scopes, output, abort>>

\* (mutant) the caller is left where it was, and calls again
ReturnAgain ==
  /\ abort = "none" /\ Len(frames) > 1 /\ Top.pos > Len(Top.tokens)
  /\ LET n == Len(frames) - 1
     IN /\ frames' = SubSeq(frames, 1, n)
        /\ scopes' = IF frames[n].looping THEN SubSeq(scopes, 1, Len(scopes) - 1) ELSE scopes
  /\ UNCHANGED <<page, output, abort>>

\* render_page returns to variable or to __foreach, which pops the scope
Return ==
  /\ abort = "none" /\ Len(frames) > 1 /\ Top.pos > Len(Top.tokens)
  /\ LET n == Len(frames) - 1
         caller == frames[n]
     IN /\ frames' = [i \in 1..n |->
                        IF i < n THEN frames[i]
                        ELSE IF caller.looping THEN [caller EXCEPT !.out = @ \o Top.out]
                        ELSE Advance(caller, Top.out)]
        /\ scopes' = IF caller.looping THEN SubSeq(scopes, 1, Len(scopes) - 1) ELSE scopes
  /\ UNCHANGED <<page, output, abort>>

\* the outermost render_page returns
Finish ==
  /\ abort = "none" /\ Len(frames) = 1 /\ Top.pos > Len(Top.tokens)
  /\ output' = Top.out
  /\ frames' = <<>>
  /\ UNCHANGED <<page, scopes, abort>>

Ended ==
  /\ abort # "none" \/ frames = <<>>
  /\ UNCHANGED vars

Next ==
  \/ Text \/ Pipeline \/ Variable \/ Foreach \/ ForeachItem \/ ForeachEnd
  \/ IfSet \/ IfFn \/ Else \/ Endif \/ Return \/ Finish \/ Ended

Spec == Init /\ [][Next]_vars

\* rendering is straight-line code of one thread
FairSpec == Spec /\ WF_vars(Next)

-----------------------------------------------------------------------------
(* What must hold *)

Frames == DOMAIN frames

\* Type invariant; a loop is not left before its last item.
TypeOK ==
  /\ page \in Pages
  /\ \A f \in Frames :
       /\ frames[f].pos \in 1..(Len(frames[f].tokens) + 1)
       /\ frames[f].conds \in Seq(BOOLEAN)
       /\ Len(frames[f].conds) <= COND_STACK_DEPTH + 1
       /\ frames[f].looping \in BOOLEAN
       /\ frames[f].items # <<>> => frames[f].looping
  /\ Len(scopes) \in 1..VAR_MAX_SCOPES
  /\ abort \in {"none", "type", "stage", "scopes", "depth", "else", "endif"}

\* the calls of render_page that wait in a loop for the template of an item
LoopsUnderWay == {f \in 1..(Len(frames) - 1) : frames[f].looping}

\* Pushes and pops of scopes balance: besides the request's own scope there
\* is one for each loop that is rendering an item, and after the page the
\* request's variables are what they were.
ScopesBalanced ==
  /\ scopes[1] = Globals
  /\ abort = "none" => Len(scopes) = 1 + Cardinality(LoopsUnderWay)

\* Rendering ends, in a page or in an abort, whatever loops and templates
\* call one another.  (NoRecursion is assumed: nothing in the code limits the
\* recursion of a template that names itself.)
RenderingEnds == <>(frames = <<>> \/ abort # "none")
=============================================================================
