------------------------------ MODULE Indentation ------------------------------
(***************************************************************************)
(* process_indentation (lexer/indent.rs), run on the token stream from     *)
(* which tokenize (lexer/mod.rs) has already filtered the comments: the    *)
(* source text still holds them, so a comment-only line is measured like   *)
(* any other although none of its tokens is left.                          *)
(*                                                                         *)
(* One action is one Newline token together with the tokens of the line    *)
(* that follows it.  A line is abstracted to what the pass can tell apart: *)
(* whether it is blank, how much white space starts it, and whether any    *)
(* token of it is left ("Content" stands for all of them).                 *)
(***************************************************************************)
EXTENDS Naturals, Sequences, FiniteSets

CONSTANTS
  Widths,                \* the leading white space of lines: spaces and tabs
  MaxLines               \* bound: how many Newline tokens a file may have

ASSUME WidthsAssumption == Widths \subseteq [sp : Nat, tab : Nat]
ASSUME MaxLinesAssumption == MaxLines \in Nat

VARIABLES
  indent_stack,          \* the levels of the open blocks, innermost last
  result,                \* the tokens pushed so far
  status,                \* "scanning", "accepted" (Ok) or "rejected" (Err)
  lines,                 \* history: the levels of the lines measured so far
  newlines               \* how many Newline tokens have been read

vars == <<indent_stack, result, status, lines, newlines>>

Tokens == {"Newline", "Indent", "Dedent", "Content"}

\* How often the token t occurs in the sequence s.
Count(s, t) == Cardinality({i \in DOMAIN s : s[i] = t})

Dedents(n) == [i \in 1 .. n |-> "Dedent"]

(***************************************************************************)
(* measure_indent: a space is one column, a tab is four, in any order.     *)
(***************************************************************************)
measure_indent(w) == w.sp + 4 * w.tab

Top == indent_stack[Len(indent_stack)]

(***************************************************************************)
(* Where the loop `while len > 1 && top > level { pop }` stops.            *)
(***************************************************************************)
StopsAt(k, level) ==
  /\ k = 1 \/ indent_stack[k] <= level
  /\ \A j \in (k + 1) .. Len(indent_stack) : indent_stack[j] > level

Kept(level) == CHOOSE k \in 1 .. Len(indent_stack) : StopsAt(k, level)

\* The tokens of a line of which some are left, or none (a comment).
LineTokens == {<<>>, <<"Content">>}

-----------------------------------------------------------------------------

(***************************************************************************)
(* The tokens before the first Newline are copied: the indentation of the  *)
(* first line of a file is never measured.                                 *)
(***************************************************************************)
Init ==
  /\ indent_stack = <<0>>
  /\ result \in LineTokens
  /\ status = "scanning"
  /\ lines = <<>>
  /\ newlines = 0

ReadNewline ==
  /\ status = "scanning"
  /\ newlines < MaxLines
  /\ newlines' = newlines + 1

\* is_blank_line: white space up to the end of the line is not measured.
BlankLine ==
  /\ ReadNewline
  /\ result' = Append(result, "Newline")
  /\ UNCHANGED <<indent_stack, status, lines>>

\* Mutant: `>=` for `>`, a block opens at every line.
DeeperLineOrEqual(w, rest) ==
  /\ ReadNewline
  /\ measure_indent(w) >= Top
  /\ indent_stack' = Append(indent_stack, measure_indent(w))
  /\ result' = result \o <<"Newline", "Indent">> \o rest
  /\ lines' = Append(lines, measure_indent(w))
  /\ UNCHANGED status

\* Mutant: the Indent is pushed before the Newline.
DeeperLineSwapped(w, rest) ==
  /\ ReadNewline
  /\ measure_indent(w) > Top
  /\ indent_stack' = Append(indent_stack, measure_indent(w))
  /\ result' = result \o <<"Indent", "Newline">> \o rest
  /\ lines' = Append(lines, measure_indent(w))
  /\ UNCHANGED status

\* indent_level > current: one Indent, however deep the line is.
DeeperLine(w, rest) ==
  /\ ReadNewline
  /\ measure_indent(w) > Top
  /\ indent_stack' = Append(indent_stack, measure_indent(w))
  /\ result' = result \o <<"Newline", "Indent">> \o rest
  /\ lines' = Append(lines, measure_indent(w))
  /\ UNCHANGED status

\* indent_level == current.
SameLine(w, rest) ==
  /\ ReadNewline
  /\ measure_indent(w) = Top
  /\ result' = result \o <<"Newline">> \o rest
  /\ lines' = Append(lines, measure_indent(w))
  /\ UNCHANGED <<indent_stack, status>>

\* Mutant: the level the loop stops at is not compared with the line's.
ShallowerLineUnchecked(w, rest) ==
  LET level == measure_indent(w)
      kept == Kept(level)
  IN  /\ ReadNewline
      /\ level < Top
      /\ indent_stack' = SubSeq(indent_stack, 1, kept)
      /\ result' = result \o <<"Newline">> \o Dedents(Len(indent_stack) - kept)
                          \o rest
      /\ lines' = Append(lines, level)
      /\ UNCHANGED status

\* indent_level < current, and the pop loop stops at a block of that level.
ShallowerLine(w, rest) ==
  LET level == measure_indent(w)
      kept == Kept(level)
  IN  /\ ReadNewline
      /\ level < Top
      /\ indent_stack[kept] = level
      /\ indent_stack' = SubSeq(indent_stack, 1, kept)
      /\ result' = result \o <<"Newline">> \o Dedents(Len(indent_stack) - kept)
                          \o rest
      /\ lines' = Append(lines, level)
      /\ UNCHANGED status

\* indent_level < current, and no open block has that level: Err, the tokens
\* pushed so far are dropped with the vector that holds them.
MismatchedLine(w) ==
  LET level == measure_indent(w)
      kept == Kept(level)
  IN  /\ ReadNewline
      /\ level < Top
      /\ indent_stack[kept] # level
      /\ indent_stack' = SubSeq(indent_stack, 1, kept)
      /\ result' = <<>>
      /\ status' = "rejected"
      /\ UNCHANGED lines

\* Mutant: no Dedent for the blocks still open at the end of the input.
EndOfInputSilent ==
  /\ status = "scanning"
  /\ indent_stack' = SubSeq(indent_stack, 1, 1)
  /\ status' = "accepted"
  /\ UNCHANGED <<result, lines, newlines>>

\* Mutant: the loop at the end of the input pops the file's level too.
EndOfInputAll ==
  /\ status = "scanning"
  /\ result' = result \o Dedents(Len(indent_stack))
  /\ indent_stack' = <<>>
  /\ status' = "accepted"
  /\ UNCHANGED <<lines, newlines>>

\* The end of the input pops every block but the file's, one Dedent each.
EndOfInput ==
  /\ status = "scanning"
  /\ result' = result \o Dedents(Len(indent_stack) - 1)
  /\ indent_stack' = SubSeq(indent_stack, 1, 1)
  /\ status' = "accepted"
  /\ UNCHANGED <<lines, newlines>>

Next ==
  \/ BlankLine
  \/ \E w \in Widths :
       \/ \E rest \in LineTokens :
            DeeperLine(w, rest) \/ SameLine(w, rest) \/ ShallowerLine(w, rest)
       \/ MismatchedLine(w)
  \/ EndOfInput

Spec == Init /\ [][Next]_vars

-----------------------------------------------------------------------------

Lines == INSTANCE Layout

Offside == INSTANCE OffsideRule WITH
  Levels <- {measure_indent(w) : w \in Widths},
  opened <- Count(result, "Indent"),
  closed <- Count(result, "Dedent"),
  verdict <- status

(***************************************************************************)
(* The types of the variables; the stack always holds the file's level.    *)
(***************************************************************************)
TypeOK ==
  /\ indent_stack \in Seq(Nat) \ {<<>>}
  /\ indent_stack[1] = 0
  /\ result \in Seq(Tokens)
  /\ status \in {"scanning", "accepted", "rejected"}
  /\ lines \in Seq(Nat)
  /\ newlines \in 0 .. MaxLines

(***************************************************************************)
(* The open blocks are exactly those of the offside rule: pushing and      *)
(* popping one level at a time loses no block that a line may still return *)
(* to and keeps none that a line has closed (indent.rs:27-54).             *)
(***************************************************************************)
StackIsOpenLevels ==
  status = "scanning" =>
    {indent_stack[k] : k \in DOMAIN indent_stack} = Offside!OpenLevels(lines)

(***************************************************************************)
(* The Indents that no Dedent has closed are the blocks on the stack, so   *)
(* the stream handed to the parser is balanced when the pass accepts and   *)
(* empty when it rejects (indent.rs:28-42, 61-65).                         *)
(***************************************************************************)
TokensBalanced ==
  /\ status # "rejected" =>
       Count(result, "Indent") + 1 = Count(result, "Dedent") + Len(indent_stack)
  /\ status = "accepted" => Len(indent_stack) = 1
  /\ status = "rejected" => result = <<>>

(***************************************************************************)
(* What the parser is checked on: every step hands on the line start that  *)
(* leads from the blocks open before it to those open after it, a Newline  *)
(* first, or at the end the Dedents of all of them (indent.rs:16-65, read  *)
(* by parse_block, parser/mod.rs:150-168).                                 *)
(***************************************************************************)
Depth == Len(indent_stack) - 1

FeedsParser ==
  [][\/ /\ status' = "scanning"
        /\ Depth' \in Lines!NextDepths(Depth)
        /\ \E rest \in LineTokens :
             result' = result \o Lines!LineStart(Depth, Depth') \o rest
     \/ status' = "accepted" /\ result' = result \o Lines!Dedents(Depth)
     \/ status' = "rejected"]_vars

(***************************************************************************)
(* Every run of the pass is a run of the offside rule, which has no stack  *)
(* (all of process_indentation).                                           *)
(***************************************************************************)
ImplementsOffsideRule == Offside!Spec

(***************************************************************************)
(* What the comment in lexer/mod.rs:15 and the plan that introduced it     *)
(* claim: lines with nothing but a comment do not touch the block          *)
(* structure, so no Indent ... Dedent encloses nothing.                    *)
(***************************************************************************)
EveryBlockHasContent ==
  \A i, j \in DOMAIN result :
    (i < j /\ result[i] = "Indent" /\ result[j] = "Dedent") =>
      \E k \in i .. j : result[k] = "Content"
================================================================================
