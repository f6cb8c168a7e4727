--------------------------------- MODULE Lexer ---------------------------------
(***************************************************************************)
(* lex (lexer/lex.rs): the first pass of tokenize.  logos, an external     *)
(* crate, picks at every position the longest text that one of the         *)
(* patterns of Token (lexer/token.rs) matches, and of two patterns that    *)
(* match it the one of higher priority.  Two patterns have callbacks,      *)
(* which are modelled step by step or in full: the scanner of nested block *)
(* comments, and parse_numeric (lexer/numeric.rs).                         *)
(*                                                                         *)
(* Characters are strings; "blank" stands for a space or a tab, "newline"  *)
(* is \n and "return" is \r.  Of the tokens, those are kept whose texts    *)
(* can be mistaken for each other: comments, the operators made of the     *)
(* same characters, numbers, words, strings and line ends.                 *)
(***************************************************************************)
EXTENDS Naturals, Sequences, FiniteSets, SequencesExt

CONSTANTS
  Texts,                 \* the source texts
  Bits                   \* the bits of a literal's value (128 in the code)

ASSUME TextsAssumption == Texts \subseteq Seq(STRING)
ASSUME BitsAssumption == Bits \in Nat \ {0}

VARIABLES
  text,                  \* the source
  position,              \* how much of it the tokens so far have consumed
  tokens,                \* [kind, from, to, value, mask]: text[from + 1 .. to]
  depth,                 \* lex_block_comment: the comments open, 0 outside it
  at,                    \* lex_block_comment: where its loop stands
  status                 \* "lexing", "lexed" (Ok) or "rejected" (Err)

vars == <<text, position, tokens, depth, at, status>>

Digits == {"0", "1", "2", "3", "4"}

\* The digits of radix 16: a letter of them also names the binary base.
DigitValue ==
  [d \in Digits \union {"b", "d"} |->
    CASE d = "0" -> 0 [] d = "1" -> 1 [] d = "2" -> 2 [] d = "3" -> 3
      [] d = "4" -> 4 [] d = "b" -> 11 [] d = "d" -> 13]

Letters == {"a", "b", "d", "h", "x"}

\* What may stand between digits, and is not one.
Gap == "_"

\* The characters that the pattern of a base's digits accepts.  Those of a
\* sized decimal are the hexadecimal ones.
PatternOf ==
  [b |-> {"0", "1", Gap, "?"},
   h |-> DOMAIN DigitValue \union {Gap},
   d |-> DOMAIN DigitValue \union {Gap}]

Radix == [b |-> 2, h |-> 16, d |-> 10]

\* What lex takes for the end of a line; the patterns of comments know the
\* first only.
LineEnds == {<<"newline">>, <<"return">>, <<"return", "newline">>}

All(s, chars) == \A i \in DOMAIN s : s[i] \in chars

-----------------------------------------------------------------------------
\* The patterns of Token, each true of the texts it matches.

\* [0-9]+'[bB][01_?]+ and [0-9]+'[hHdD][0-9a-fA-F_]+
SizedNumber(s) ==
  \E tick \in 2 .. Len(s) - 2 :
    /\ s[tick] = "'"
    /\ All(SubSeq(s, 1, tick - 1), Digits)
    /\ s[tick + 1] \in DOMAIN PatternOf
    /\ All(SubSeq(s, tick + 2, Len(s)), PatternOf[s[tick + 1]])

\* 0[xX][0-9a-fA-F_]+
HexNumber(s) ==
  /\ Len(s) > 2
  /\ s[1] = "0" /\ s[2] = "x"
  /\ All(SubSeq(s, 3, Len(s)), DOMAIN DigitValue \union {Gap})

\* 0[bB][01_]+
BinaryNumber(s) ==
  /\ Len(s) > 2
  /\ s[1] = "0" /\ s[2] = "b"
  /\ All(SubSeq(s, 3, Len(s)), {"0", "1", Gap})

\* [0-9][0-9_]*
DecimalNumber(s) == s[1] \in Digits /\ All(s, Digits \union {Gap})

Number(s) ==
  SizedNumber(s) \/ HexNumber(s) \/ BinaryNumber(s) \/ DecimalNumber(s)

\* [a-zA-Z_][a-zA-Z0-9_]*
Word(s) ==
  s[1] \in Letters \union {"_"} /\ All(s, Letters \union Digits \union {"_"})

\* "[^"]*": a string goes over line ends.
StringText(s) ==
  /\ Len(s) > 1
  /\ {i \in DOMAIN s : s[i] = "quote"} = {1, Len(s)}

Slashes(s, n) == Len(s) >= n /\ \A i \in 1 .. n : s[i] = "/"

\* Mutant: the pattern of a line comment takes the end of its line too.
LineCommentGreedy(s) ==
  Slashes(s, 2) /\ All(Front(s), {c \in Range(s) : c # "newline"})

\* //[^\n]*: a return does not end it.
LineComment(s) == Slashes(s, 2) /\ "newline" \notin Range(s)

\* ///[^\n]*, of higher priority.
DocComment(s) == Slashes(s, 3) /\ LineComment(s)

Operators == {<<"/">>, <<"*">>, <<"*", "*">>, <<"?">>}

\* The kinds of token that match the text s, as the priorities leave them.
Kinds(s) ==
  {k \in {"Numeric", "Ident", "StringLit", "Operator", "Underscore", "Doc",
          "Line", "Block", "Skipped"} :
    CASE k = "Numeric" -> Number(s)
      [] k = "Ident" -> Word(s) /\ s # <<"_">>
      [] k = "Underscore" -> s = <<"_">>
      [] k = "StringLit" -> StringText(s)
      [] k = "Doc" -> DocComment(s)
      [] k = "Line" -> LineComment(s) /\ ~DocComment(s)
      [] k = "Block" -> s = <<"/", "*">>
      [] k = "Operator" -> s \in Operators
      [] k = "Skipped" -> All(s, {"blank"})}

Slice(from, to) == SubSeq(text, from + 1, to)

\* Where the patterns match that start at the position, and the longest match.
Matches == {to \in position + 1 .. Len(text) : Kinds(Slice(position, to)) # {}}

Longest == Max(Matches)

Kind == CHOOSE k \in Kinds(Slice(position, Longest)) : TRUE

-----------------------------------------------------------------------------
\* parse_numeric (lexer/numeric.rs).

\* The power that a place, and a width, stands for.
Pow(b, n) ==
  LET power[k \in Nat] == IF k = 0 THEN 1 ELSE b * power[k - 1]
  IN  power[n]

\* "Err" is above every value.
Limit == Pow(2, Bits)

Err == Limit

\* One digit more: multiplication and addition are checked.
WithDigit(value, digit, radix) ==
  LET next == value * radix + digit
  IN  IF value = Err \/ digit >= radix \/ next >= Limit THEN Err ELSE next

\* u128::from_str_radix: digit by digit, none of a larger radix.
from_str_radix(s, radix) ==
  LET read[k \in 0 .. Len(s)] ==
        IF k = 0 THEN 0 ELSE WithDigit(read[k - 1], DigitValue[s[k]], radix)
  IN  IF s = <<>> THEN Err ELSE read[Len(s)]

\* c != '_', and `?` read as a zero.
Stripped(s) ==
  LET kept[k \in 0 .. Len(s)] ==
        IF k = 0 THEN <<>>
        ELSE IF s[k] = Gap THEN kept[k - 1] ELSE Append(kept[k - 1], s[k])
  IN  kept[Len(s)]

Cleaned(s) == [i \in DOMAIN s |-> IF s[i] = "?" THEN "0" ELSE s[i]]

\* The mask is shifted and set digit by digit; its width is never checked.
dont_care_mask(s) ==
  LET mask[k \in 0 .. Len(s)] ==
        IF k = 0 THEN 0
        ELSE (2 * mask[k - 1] + (IF s[k] = "?" THEN 1 ELSE 0)) % Limit
  IN  mask[Len(s)]

NoLiteral == [value |-> Err, mask |-> 0]

\* Mutant: a value one above the largest of its width passes.
sized_literal_loose(width, value, mask) ==
  IF width = Err \/ width = 0 \/ width > Bits \/ value = Err
    \/ (width < Bits /\ value > Pow(2, width))
  THEN NoLiteral ELSE [value |-> value, mask |-> mask]

sized_literal(width, value, mask) ==
  IF width = Err \/ width = 0 \/ width > Bits \/ value = Err
    \/ (width < Bits /\ value >= Pow(2, width))
  THEN NoLiteral ELSE [value |-> value, mask |-> mask]

\* Where a sized number has its tick: s.find('\'').
Tick(s) == CHOOSE i \in DOMAIN s : s[i] = "'"

parse_numeric(s) ==
  IF "'" \in Range(s)
  THEN LET base == s[Tick(s) + 1]
           digits == Stripped(SubSeq(s, Tick(s) + 2, Len(s)))
       IN  sized_literal(from_str_radix(SubSeq(s, 1, Tick(s) - 1), 10),
                         from_str_radix(Cleaned(digits), Radix[base]),
                         IF base = "b" THEN dont_care_mask(digits) ELSE 0)
  ELSE LET clean == Stripped(s)
           rest == SubSeq(clean, 3, Len(clean))
       IN  [value |-> CASE HexNumber(s) -> from_str_radix(rest, 16)
                        [] BinaryNumber(s) -> from_str_radix(rest, 2)
                        [] OTHER -> from_str_radix(clean, 10),
            mask |-> 0]

-----------------------------------------------------------------------------
Init ==
  /\ text \in Texts
  /\ position = 0
  /\ tokens = <<>>
  /\ depth = 0
  /\ at = 0
  /\ status = "lexing"

Between == status = "lexing" /\ depth = 0

Push(kind, to, literal) ==
  /\ tokens' = Append(tokens, [kind |-> kind, from |-> position, to |-> to,
                               value |-> literal.value, mask |-> literal.mask])
  /\ position' = to

Reject ==
  /\ status' = "rejected"
  /\ UNCHANGED <<text, position, tokens, depth, at>>

\* A text that needs no callback: white space is skipped, the rest a token.
Emit ==
  /\ Between /\ Matches # {}
  /\ Kind \notin {"Numeric", "Block"}
  /\ IF Kind = "Skipped"
     THEN position' = Longest /\ UNCHANGED tokens
     ELSE Push(Kind, Longest, NoLiteral)
  /\ UNCHANGED <<text, depth, at, status>>

\* lex_sized_numeric and lex_unsized_numeric: None makes the text an error.
EmitNumber ==
  /\ Between /\ Matches # {} /\ Kind = "Numeric"
  /\ LET literal == parse_numeric(Slice(position, Longest))
     IN  /\ literal.value # Err
         /\ Push("Numeric", Longest, literal)
  /\ UNCHANGED <<text, depth, at, status>>

RejectNumber ==
  /\ Between /\ Matches # {} /\ Kind = "Numeric"
  /\ parse_numeric(Slice(position, Longest)).value = Err
  /\ Reject

\* No pattern starts with a line end: it is the error that is no error.  How
\* much text an error has is up to logos: \r\n may be one line end or two.
EmitNewline ==
  /\ Between /\ Matches = {}
  /\ \E to \in position + 1 .. Len(text) :
       /\ Slice(position, to) \in LineEnds
       /\ Push("Newline", to, NoLiteral)
  /\ UNCHANGED <<text, depth, at, status>>

RejectCharacter ==
  /\ Between /\ Matches = {}
  /\ position < Len(text) /\ text[position + 1] \notin {"newline", "return"}
  /\ Reject

Finish ==
  /\ Between /\ position = Len(text)
  /\ status' = "lexed"
  /\ UNCHANGED <<text, position, tokens, depth, at>>

\* lex_block_comment is called behind the opener that logos has matched.
OpenComment ==
  /\ Between /\ Matches # {} /\ Kind = "Block"
  /\ depth' = 1
  /\ at' = Longest
  /\ UNCHANGED <<text, position, tokens, status>>

Scanning == status = "lexing" /\ depth > 0 /\ at < Len(text)

Here(pair) == at + 1 < Len(text) /\ Slice(at, at + 2) = pair

\* Mutant: an opener moves the loop by one character.
NestOverlapping ==
  /\ Scanning /\ Here(<<"/", "*">>)
  /\ depth' = depth + 1
  /\ at' = at + 1
  /\ UNCHANGED <<text, position, tokens, status>>

Nest ==
  /\ Scanning /\ Here(<<"/", "*">>)
  /\ depth' = depth + 1
  /\ at' = at + 2
  /\ UNCHANGED <<text, position, tokens, status>>

\* The closer of the outermost comment ends the token: lex.bump(i).
CloseComment ==
  /\ Scanning /\ Here(<<"*", "/">>)
  /\ depth' = depth - 1
  /\ IF depth = 1
     THEN Push("Block", at + 2, NoLiteral) /\ at' = 0
     ELSE at' = at + 2 /\ UNCHANGED <<tokens, position>>
  /\ UNCHANGED <<text, status>>

\* Mutant: the loop takes two characters when it finds no delimiter.
PassOverTwo ==
  /\ Scanning /\ ~Here(<<"/", "*">>) /\ ~Here(<<"*", "/">>)
  /\ at' = at + 2
  /\ UNCHANGED <<text, position, tokens, depth, status>>

PassOver ==
  /\ Scanning /\ ~Here(<<"/", "*">>) /\ ~Here(<<"*", "/">>)
  /\ at' = at + 1
  /\ UNCHANGED <<text, position, tokens, depth, status>>

Unterminated ==
  /\ status = "lexing" /\ depth > 0 /\ at >= Len(text)
  /\ Reject

Next ==
  \/ Emit \/ EmitNumber \/ RejectNumber \/ EmitNewline \/ RejectCharacter \/ Finish
  \/ OpenComment \/ Nest \/ CloseComment \/ PassOver \/ Unterminated

Spec == Init /\ [][Next]_vars

-----------------------------------------------------------------------------

KindNames == {"Numeric", "Ident", "StringLit", "Operator", "Underscore", "Doc",
              "Line", "Block", "Newline"}

(***************************************************************************)
(* The types of the variables: the tokens follow each other in the text,   *)
(* none of them empty, and the loop of lex_block_comment is never behind   *)
(* the opener it was called for (lex.rs:5-30, token.rs:349-375).           *)
(***************************************************************************)
TypeOK ==
  /\ text \in Texts
  /\ status \in {"lexing", "lexed", "rejected"}
  /\ position \in 0 .. Len(text)
  /\ depth \in Nat
  /\ depth = 0 <=> at = 0
  /\ depth > 0 => at \in position + 2 .. Len(text)
  /\ \A i \in DOMAIN tokens :
       /\ tokens[i].kind \in KindNames
       /\ tokens[i].from < tokens[i].to /\ tokens[i].to <= position
       /\ i > 1 => tokens[i - 1].to <= tokens[i].from

TextOf(t) == SubSeq(text, t.from + 1, t.to)

Of(kind) == {i \in DOMAIN tokens : tokens[i].kind = kind}

(***************************************************************************)
(* Nothing of an accepted text is lost but blanks.  A newline that is in   *)
(* no block comment and no string is a line end of its own, so the pass    *)
(* over the indentation misses no such line, and so is a return, but in a  *)
(* line comment: that goes on to the newline, and hides what is between    *)
(* (lex.rs:9-26, token.rs:324-345).                                        *)
(***************************************************************************)
TokensCoverText ==
  /\ status = "lexed" =>
       \A p \in DOMAIN text :
         \/ text[p] = "blank"
         \/ \E i \in DOMAIN tokens : p \in tokens[i].from + 1 .. tokens[i].to
  /\ \A i \in DOMAIN tokens :
       LET t == tokens[i]
       IN  /\ "newline" \in Range(TextOf(t)) => t.kind \in {"Block", "StringLit", "Newline"}
           /\ "return" \in Range(TextOf(t)) =>
                t.kind \in {"Block", "StringLit", "Newline", "Line", "Doc"}
           /\ t.kind = "Newline" => TextOf(t) \in LineEnds
           /\ t.kind \in {"Line", "Doc"} => t.to = Len(text) \/ text[t.to + 1] = "newline"

(***************************************************************************)
(* The reference for nested comments.  Delimiters must not overlap: of the *)
(* places where an opener or a closer can be read those count that no      *)
(* counted one covers, which leaves one choice of them.                    *)
(***************************************************************************)
Pairs(s, pair) == {p \in 1 .. Len(s) - 1 : <<s[p], s[p + 1]>> = pair}

Openers(s) == Pairs(s, <<"/", "*">>)
Closers(s) == Pairs(s, <<"*", "/">>)

Delimiters(s) ==
  CHOOSE D \in SUBSET (Openers(s) \union Closers(s)) :
    \A p \in Openers(s) \union Closers(s) : p \in D <=> p - 1 \notin D

\* The comments that are open behind the place p of a text.
OpenBehind(s, p) ==
  Cardinality({q \in Delimiters(s) \intersect Openers(s) : q <= p})
    - Cardinality({q \in Delimiters(s) \intersect Closers(s) : q <= p})

\* The text is one comment, which ends where none is open any more.
IsComment(s) ==
  /\ Len(s) - 1 \in Delimiters(s)
  /\ \A p \in Delimiters(s) : OpenBehind(s, p) = 0 <=> p = Len(s) - 1

\* A comment starts the text and has no end in it.
NeverCloses(s) ==
  /\ 1 \in Openers(s)
  /\ \A p \in Delimiters(s) : OpenBehind(s, p) > 0

(***************************************************************************)
(* A block comment ends at the closer of its opener, whatever comments are *)
(* nested in it and however their delimiters touch, and a text is rejected *)
(* for one only if that closer is missing (lex_block_comment,              *)
(* token.rs:349-375).                                                      *)
(***************************************************************************)
Rest == Slice(position, Len(text))

CommentsNest ==
  /\ \A i \in Of("Block") : IsComment(TextOf(tokens[i]))
  /\ status = "rejected" /\ depth > 0 => NeverCloses(Rest)

(***************************************************************************)
(* The reference for numbers: the sum of the digits at their places, where *)
(* a place counts the digits behind it.                                    *)
(***************************************************************************)
Base(s) ==
  IF "'" \in Range(s) THEN Radix[s[Tick(s) + 1]]
  ELSE IF HexNumber(s) THEN 16
  ELSE IF BinaryNumber(s) THEN 2 ELSE 10

Prefix(s) ==
  IF "'" \in Range(s) THEN Tick(s) + 1
  ELSE IF HexNumber(s) \/ BinaryNumber(s) THEN 2 ELSE 0

DigitsOf(s) == SubSeq(s, Prefix(s) + 1, Len(s))

Places(digits) == {i \in DOMAIN digits : digits[i] # Gap}

Behind(digits, i) == Cardinality({j \in Places(digits) : j > i})

Weighted(digits, base, i) ==
  IF digits[i] \in {Gap, "?"} THEN 0
  ELSE DigitValue[digits[i]] * Pow(base, Behind(digits, i))

Positional(digits, base) ==
  LET sum[i \in 0 .. Len(digits)] ==
        IF i = 0 THEN 0 ELSE sum[i - 1] + Weighted(digits, base, i)
  IN  sum[Len(digits)]

DontCares(digits) ==
  {Behind(digits, i) : i \in {j \in Places(digits) : digits[j] = "?"}}

\* The width written before the tick; an unsized literal has all the bits.
WidthOf(s) ==
  IF "'" \in Range(s) THEN Positional(SubSeq(s, 1, Tick(s) - 1), 10) ELSE Bits

ValueOf(s) == Positional(DigitsOf(s), Base(s))

Meaningful(s) ==
  /\ Places(DigitsOf(s)) # {}
  /\ \A i \in Places(DigitsOf(s)) :
       DigitsOf(s)[i] = "?" \/ DigitValue[DigitsOf(s)[i]] < Base(s)
  /\ WidthOf(s) \in 1 .. Bits
  /\ ValueOf(s) < Pow(2, WidthOf(s))

(***************************************************************************)
(* A literal has the value of its digits, which fits the width it states,  *)
(* and its don't-care bits are where the `?` stand (those beyond 128 are   *)
(* lost; nothing compares them with the width).  A number is refused only  *)
(* if it has no such value, so no value wraps around.  A literal stops     *)
(* before no character that its base allows (parse_numeric,                *)
(* numeric.rs:13-94, and the patterns, token.rs:304-314).                  *)
(***************************************************************************)
NumbersAsWritten ==
  /\ \A i \in Of("Numeric") :
       LET s == TextOf(tokens[i])
       IN  /\ Meaningful(s)
           /\ tokens[i].value = ValueOf(s)
           /\ \A b \in 0 .. Bits - 1 :
                b \in DontCares(DigitsOf(s)) <=> (tokens[i].mask \div Pow(2, b)) % 2 = 1
           /\ tokens[i].to < Len(text) =>
                /\ text[tokens[i].to + 1] # Gap
                /\ text[tokens[i].to + 1] \in Digits =>
                     DigitValue[text[tokens[i].to + 1]] >= Base(s)
  /\ status = "rejected" /\ depth = 0 /\ Matches # {} =>
       ~Meaningful(Slice(position, Longest))

================================================================================
