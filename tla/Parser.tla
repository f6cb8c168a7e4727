--------------------------------- MODULE Parser ---------------------------------
(***************************************************************************)
(* Parser::parse (parser/mod.rs): the parse functions of Grammar, run as a *)
(* stack of what is left to do, over every token stream the indentation    *)
(* pass can produce from the tokens of a scene.  A token is drawn from the *)
(* stream only when a function looks at it; what a rewinding function has  *)
(* seen stays in `ahead`.                                                  *)
(***************************************************************************)
EXTENDS Grammar, Integers, FiniteSets

CONSTANT Scenes
(***************************************************************************)
(* Where the files come from: a scene fixes the tokens a file begins with, *)
(* the code tokens it goes on with, how many tokens and line starts there  *)
(* may be after the beginning, how deep its blocks may be, and whether the *)
(* expressions in it are recorded.                                         *)
(***************************************************************************)

Structure == {"Newline", "Indent", "Dedent"}

\* How often the token t occurs in the sequence s.
Times(s, t) == Cardinality({i \in DOMAIN s : s[i] = t})

\* Line starts and the end are drawn apart; a beginning has both.
ASSUME ScenesAssumption ==
  \A s \in Scenes :
    /\ s.prefix \in Seq(STRING) /\ Times(s.prefix, "End") = 0
    /\ Times(s.prefix, "Indent") >= Times(s.prefix, "Dedent")
    /\ s.alphabet \subseteq STRING \ (Structure \union {"End"})
    /\ s.size \in Nat /\ s.deepest \in Nat /\ s.recorded \in BOOLEAN

VARIABLES
  scene,                 \* the scene of this file
  ahead,                 \* the tokens drawn and not yet consumed
  depth,                 \* how many blocks are open after those tokens
  left,                  \* bound: how many more may be drawn before the end
  stack,                 \* the symbols left to do, the next one first
  built,                 \* the expression node completed last
  status,                \* "parsing", "accepted" (Ok) or "rejected" (Err)
  open,                  \* history: the delimiters and blocks now open, innermost first
  swallowed,             \* history: Indents less Dedents skipped inside lists
  text,                  \* history of a recorded scene: the tokens consumed
  tree                   \* history of a recorded scene: the nodes completed

history == <<open, swallowed, text, tree>>
vars == <<scene, ahead, depth, left, stack, built, status, history>>

Lines == INSTANCE Layout

-----------------------------------------------------------------------------

Top == stack[1]
Rest == Tail(stack)

\* The token under the cursor and the one after it.
Peek == ahead[1]
PeekNext == IF Len(ahead) > 1 THEN ahead[2] ELSE "End"

\* How many tokens the symbol looks at.
Looks(s) ==
  CASE s.sym \in {"node", "fail", "pipe", "pratt"} -> 0
    [] s.sym = "nt" /\ s.name \in DOMAIN Blind -> 0
    [] s.sym = "nt" /\ s.name \in TwoAhead -> 2
    [] OTHER -> 1

Drawn == \E i \in DOMAIN ahead : ahead[i] = "End"

Wanting ==
  /\ status = "parsing" /\ stack # <<>>
  /\ Len(ahead) < Looks(Top) /\ ~Drawn

Ready(kinds) ==
  /\ status = "parsing" /\ stack # <<>> /\ ~Wanting
  /\ Top.sym \in kinds

-----------------------------------------------------------------------------

Init ==
  /\ scene \in Scenes
  /\ ahead = scene.prefix
  /\ depth = Times(scene.prefix, "Indent") - Times(scene.prefix, "Dedent")
  /\ left = scene.size
  /\ stack = <<Nt("parse_file")>>
  /\ built = "other"
  /\ status = "parsing"
  /\ open = <<>>
  /\ swallowed = 0
  /\ text = <<>>
  /\ tree = <<>>

Draw(tokens) ==
  /\ Wanting
  /\ left > 0
  /\ left' = left - 1
  /\ ahead' = ahead \o tokens
  /\ UNCHANGED <<scene, stack, built, status, history>>

DrawCode == \E t \in scene.alphabet : Draw(<<t>>) /\ UNCHANGED depth

DrawLine ==
  \E d \in Lines!NextDepths(depth) :
    /\ d <= scene.deepest
    /\ Draw(Lines!LineStart(depth, d))
    /\ depth' = d

DrawEnd ==
  /\ Wanting
  /\ ahead' = ahead \o Lines!Dedents(depth) \o <<"End">>
  /\ depth' = 0
  /\ left' = 0
  /\ UNCHANGED <<scene, stack, built, status, history>>

-----------------------------------------------------------------------------

Closing == [x \in {"(", "[", "{", "<", "Indent"} |->
              CASE x = "(" -> ")" [] x = "[" -> "]" [] x = "{" -> "}" [] x = "<" -> ">"
                [] OTHER -> "Dedent"]

Closers == {Closing[x] : x \in DOMAIN Closing}
SingleBrackets == {{c} : c \in DOMAIN Closing \union Closers}

\* What the reader of the file sees open after the delimiter t, if `before`
\* was open before it.
Delimited(t, before) ==
  CASE t \in DOMAIN Closing -> <<Closing[t]>> \o before
    [] t \in Closers ->
         IF before # <<>> /\ t = before[1] THEN Tail(before) ELSE <<"misplaced">> \o before
    [] OTHER -> before

Opened(t) == Delimited(t, open)

(***************************************************************************)
(* advance(): the cursor moves past one token, and the symbols of `then`   *)
(* take the place of the one at the top.                                   *)
(***************************************************************************)
Consume(then, opened) ==
  /\ ahead' = Tail(ahead)
  /\ stack' = then \o Rest
  /\ open' = opened
  /\ text' = IF scene.recorded THEN Append(text, Peek) ELSE text
  /\ UNCHANGED <<scene, depth, left, built, status, swallowed, tree>>

Advance(then) == Consume(then, Opened(Peek))

\* The cursor stays.
Replace(then) ==
  /\ stack' = then \o Rest
  /\ UNCHANGED <<scene, ahead, depth, left, built, status, history>>

CallPratt == Ready({"pratt"}) /\ Replace(parse_pratt(Top.min))

\* A record holds one statement, the last one begun.
Call ==
  /\ Ready({"nt"})
  /\ stack' = Rule(Top.name, Peek, PeekNext) \o Rest
  /\ text' = IF Top.name = "parse_stmt" THEN <<>> ELSE text
  /\ tree' = IF Top.name = "parse_stmt" THEN <<>> ELSE tree
  /\ UNCHANGED <<scene, ahead, depth, left, built, status, open, swallowed>>

Expect == Ready({"tok"}) /\ Peek \in Top.set /\ Advance(<<>>)

Eat ==
  /\ Ready({"opt", "star"})
  /\ Peek \in Top.set
  /\ Advance(Top.then \o IF Top.sym = "star" THEN <<Top>> ELSE <<>>)

DeclineToEat == Ready({"opt", "star"}) /\ Peek \notin Top.set /\ Replace(<<>>)

\* skip_newlines and skip_structural: no block is opened or closed by it.
SkipLayout ==
  /\ Ready({"skip"})
  /\ Peek \in Top.set
  /\ ahead' = Tail(ahead)
  /\ swallowed' = CASE Peek = "Indent" -> swallowed + 1
                    [] Peek = "Dedent" -> swallowed - 1
                    [] OTHER -> swallowed
  /\ UNCHANGED <<scene, depth, left, stack, built, status, open, text, tree>>

EndSkip == Ready({"skip"}) /\ Peek \notin Top.set /\ Replace(<<>>)

\* The loop of parse_block and its like.
NextElement ==
  /\ Ready({"many"})
  /\ Peek \notin {"Dedent", "End"}
  /\ Replace(IF Peek = "Newline" THEN Newlines \o <<Top>>
                                 ELSE Top.item \o Newlines \o <<Top>>)

\* The loop of parse_comma_list and its like.
NextListed ==
  /\ Ready({"list"})
  /\ Peek \notin Top.close \union {"End"}
  /\ Replace(Top.item \o Top.skip \o <<Opt({","}, Top.skip \o <<Top>>)>>)

EndLoop ==
  /\ \/ Ready({"many"}) /\ Peek \in {"Dedent", "End"}
     \/ Ready({"list"}) /\ Peek \in Top.close \union {"End"}
  /\ Replace(<<>>)

\* An angle that is an operator is no delimiter.
Operator ==
  /\ Ready({"ops"})
  /\ GoesOn(Top, Peek)
  /\ Consume(<<Pratt(next_min(Peek)), Node(Peek), Top>>, open)

EndOperators == Ready({"ops"}) /\ ~GoesOn(Top, Peek) /\ Replace(<<>>)

CloseAngle == Ready({"angle"}) /\ Peek = ">" /\ Advance(<<>>)

\* Mutant: `>>` is consumed whole, with the second `>` in it.
SplitShiftWhole ==
  /\ Ready({"angle"})
  /\ Peek = ">>"
  /\ Consume(<<>>, Delimited(">", Opened(">")))

\* `>>` is split into two, in the vector of tokens itself.
SplitShift ==
  /\ Ready({"angle"})
  /\ Peek = ">>"
  /\ ahead' = <<">">> \o Tail(ahead)
  /\ stack' = Rest
  /\ open' = Opened(">")
  /\ UNCHANGED <<scene, depth, left, built, status, swallowed, text, tree>>

\* A node is completed; a pipe looks at its kind.
Build ==
  /\ Ready({"node"})
  /\ stack' = Rest
  /\ built' = IF Top.kind \in {"ident", "call"} THEN Top.kind ELSE "other"
  /\ tree' = IF scene.recorded THEN Append(tree, Top.kind) ELSE tree
  /\ UNCHANGED <<scene, ahead, depth, left, status, open, swallowed, text>>

CheckPipe == Ready({"pipe"}) /\ built \in {"ident", "call"} /\ Replace(<<>>)

\* Err: everything but the verdict is dropped.
Reject ==
  /\ \/ Ready({"fail"})
     \/ Ready({"tok"}) /\ Peek \notin Top.set
     \/ Ready({"angle"}) /\ Peek \notin {">", ">>"}
     \/ Ready({"pipe"}) /\ built \notin {"ident", "call"}
  /\ status' = "rejected"
  /\ ahead' = <<>> /\ depth' = 0 /\ left' = 0 /\ stack' = <<>> /\ built' = "other"
  /\ open' = <<>> /\ swallowed' = 0 /\ text' = <<>> /\ tree' = <<>>
  /\ UNCHANGED scene

Accept ==
  /\ status = "parsing"
  /\ stack = <<>>
  /\ status' = "accepted"
  /\ UNCHANGED <<scene, ahead, depth, left, stack, built, history>>

Next ==
  \/ DrawCode \/ DrawLine \/ DrawEnd
  \/ Call \/ CallPratt \/ Expect \/ Eat \/ DeclineToEat \/ SkipLayout \/ EndSkip
  \/ NextElement \/ NextListed \/ EndLoop
  \/ Operator \/ EndOperators \/ CloseAngle \/ SplitShift
  \/ Build \/ CheckPipe \/ Reject \/ Accept

(***************************************************************************)
(* The parser is one call that nothing interrupts: as long as it has a     *)
(* step to take it takes it, and the tokens are all there before it starts.*)
(***************************************************************************)
Spec == Init /\ [][Next]_vars /\ WF_vars(Next)

-----------------------------------------------------------------------------

(***************************************************************************)
(* The types of the variables.                                             *)
(***************************************************************************)
TypeOK ==
  /\ scene \in Scenes
  /\ \A i \in DOMAIN ahead :
       ahead[i] \in scene.alphabet \union {scene.prefix[j] : j \in DOMAIN scene.prefix}
                   \union Structure \union {"End", ">"}
  /\ depth \in Nat /\ swallowed \in Int
  /\ left \in 0 .. scene.size
  /\ built \in {"ident", "call", "other"}
  /\ status \in {"parsing", "accepted", "rejected"}

(***************************************************************************)
(* What is due: the closers that the symbols left to do ask for, the next  *)
(* first, without those whose openers are still to come.  The loop over    *)
(* the sections of an fsm asks for its Dedent itself.                      *)
(***************************************************************************)
Bracket(s) ==
  CASE s.sym = "tok" /\ s.set \in SingleBrackets -> CHOOSE c \in s.set : TRUE
    [] s.sym = "angle" -> ">"
    [] s.sym = "nt" /\ s.name \in {"fsm_incomplete", "fsm_complete"} -> "Dedent"
    [] OTHER -> "none"

\* What is due before a symbol with the bracket b, from what is due after it.
Ask(b, due) ==
  CASE b \in Closers -> <<b>> \o due
    [] b \in DOMAIN Closing ->
         IF due # <<>> /\ due[1] = Closing[b] THEN Tail(due) ELSE <<"unmatched">> \o due
    [] OTHER -> due

\* What is due before the symbols of s, from what is due after them.
DueBefore(s, after) ==
  LET due[i \in 0 .. Len(s)] ==
        IF i = 0 THEN after ELSE Ask(Bracket(s[Len(s) - i + 1]), due[i - 1])
  IN  due[Len(s)]

Due == DueBefore(stack, <<>>)

Failing == stack # <<>> /\ Top = Fail

(***************************************************************************)
(* Wherever the parser is, what it has yet to ask for closes exactly what  *)
(* the reader of the file sees open, in that order: no function of the     *)
(* grammar closes what its caller opened, or returns with anything open,   *)
(* and a `>>` closes two generic lists by its halves (all of parser/*.rs;  *)
(* expect_token in mod.rs:82-92, expect_close_angle in types.rs:11-31).    *)
(***************************************************************************)
DelimitersAgree == status = "parsing" /\ ~Failing => Due = open

(***************************************************************************)
(* A statement is as deep in the tree as its line is in the file, unless   *)
(* lists have swallowed more Indents than Dedents or fewer                 *)
(* (skip_structural, mod.rs:120-127); and a file in which they have, all   *)
(* in all, is not accepted.                                                *)
(***************************************************************************)
LineDepth == depth - Times(ahead, "Indent") + Times(ahead, "Dedent")

BlocksAgree ==
  /\ Ready({"nt"}) /\ Top.name = "parse_stmt" /\ swallowed = 0 =>
       Times(Due, "Dedent") = LineDepth
  /\ status = "accepted" => swallowed = 0

(***************************************************************************)
(* Every call of the parser returns: no loop of it goes round without      *)
(* consuming a token, and none waits for a token that never comes          *)
(* (mod.rs:150-192 and every loop of the parse functions).                 *)
(***************************************************************************)
Terminates == <>(status # "parsing")

(***************************************************************************)
(* "Stops before `>` ... to avoid consuming generic closing tokens"        *)
(* (expr.rs:48-49): an angle that closes a generic list is not taken for   *)
(* an operator of the expression before it.                                *)
(***************************************************************************)
AnglesClose ==
  Ready({"ops"}) /\ Peek = ">" /\ Due # <<>> /\ Due[1] = ">" => ~GoesOn(Top, Peek)

(***************************************************************************)
(* "`_` in pattern match context" (the language design, line 44): a match  *)
(* arm that begins with it is not an error.                                *)
(***************************************************************************)
WildcardArms ==
  Ready({"fail"}) /\ Peek = "_" =>
    ~ \E i \in 2 .. 6 : i <= Len(stack) /\ stack[i] = Nt("match_body")

=================================================================================
