---------------------------- MODULE ExpressionTrees ----------------------------
(***************************************************************************)
(* The tree of an expression, from the table of operators and without a    *)
(* parser: the loosest operator outside all brackets splits it, the last   *)
(* of them if it associates to the left.  A tree is written as its nodes   *)
(* in postorder.                                                           *)
(***************************************************************************)
EXTENDS Integers, Sequences, FiniteSets, FiniteSetsExt

CONSTANT PostfixFirst    \* TRUE or FALSE
(***************************************************************************)
(* Is a postfix operator applied before a prefix one?  The plan says so    *)
(* ("at highest priority", line 119): -a.b is -(a.b).  The parser does not *)
(* (parse_unary in expr.rs:175-216): it is (-a).b there.                   *)
(***************************************************************************)
(***************************************************************************)
(* The table of docs/superpowers/plans/2026-03-10-phase2-parser-ast.md,    *)
(* lines 102-117, loosest first; the pipe is looser than all of them.  Its *)
(* "Non-assoc" for ranges (line 112) is what Chained is about.             *)
(***************************************************************************)
Levels ==
  << {"|>"}, {"implies"}, {"or"}, {"and"}, {"|"}, {"^"}, {"&"}, {"==", "!="},
     {"<", ">", "<=", ">="}, {"..", "..="}, {"<<", ">>", ">>>"}, {"++"},
     {"+", "-"}, {"*", "/", "%"}, {"**"} >>

ToTheRight == {"implies", "**"}
Ranges == {"..", "..="}
InfixOperators == UNION {Levels[i] : i \in DOMAIN Levels}
PrefixOperators == {"not", "~", "-"}
PostfixOperators == {".", "[", "("}
Openers == {"(", "["}
Closers == {")", "]"}

Level(t) == CHOOSE i \in DOMAIN Levels : t \in Levels[i]

EndsOperand(t) == t \notin InfixOperators \union PrefixOperators \union Openers \union {",", ".", "="}

(***************************************************************************)
(* How many brackets are open before the k-th token of s.                  *)
(***************************************************************************)
Nesting(s, k) ==
  Cardinality({m \in 1 .. (k - 1) : s[m] \in Openers})
  - Cardinality({m \in 1 .. (k - 1) : s[m] \in Closers})

\* The positions of s outside all brackets whose token is in S, after an operand.
Outside(s, S) ==
  {k \in 2 .. Len(s) : s[k] \in S /\ Nesting(s, k) = 0 /\ EndsOperand(s[k - 1])}

Before(s, k) == SubSeq(s, 1, k - 1)
After(s, k) == SubSeq(s, k + 1, Len(s))
Inside(s, k) == SubSeq(s, k + 1, Len(s) - 1)

\* The position at which the loosest operator splits s, if it has one.
Split(s) ==
  LET at == Outside(s, InfixOperators)
      loosest == {k \in at : \A m \in at : Level(s[k]) <= Level(s[m])}
  IN  IF s[Min(loosest)] \in ToTheRight THEN Min(loosest) ELSE Max(loosest)

\* `name = e` stands for e among the arguments of a call.
Unnamed(s) == IF Len(s) > 2 /\ s[2] = "=" THEN After(s, 2) ELSE s

RECURSIVE TreeOf(_), TreesOf(_)

(***************************************************************************)
(* The trees of the elements of a list, which commas separate.             *)
(***************************************************************************)
TreesOf(s) ==
  LET commas == {k \in 1 .. Len(s) : s[k] = "," /\ Nesting(s, k) = 0}
  IN  CASE s = <<>> -> <<>>
        [] s # <<>> /\ commas = {} -> TreeOf(Unnamed(s))
        [] OTHER -> TreeOf(Unnamed(Before(s, Min(commas)))) \o TreesOf(After(s, Min(commas)))

TreeOf(s) ==
  LET postfix == IF PostfixFirst /\ s[1] \in PrefixOperators
                   THEN {} ELSE Outside(s, PostfixOperators)
      k == Max(postfix)
  IN  CASE Outside(s, InfixOperators) # {} ->
             TreeOf(Before(s, Split(s))) \o TreeOf(After(s, Split(s))) \o <<s[Split(s)]>>
        [] Outside(s, InfixOperators) = {} /\ postfix # {} ->
             CASE s[k] = "." -> TreeOf(Before(s, k)) \o <<"field">>
               [] s[k] = "(" ->
                    IF k > 2 /\ s[k - 2] = "."
                      THEN TreeOf(Before(s, k - 2)) \o TreesOf(Inside(s, k)) \o <<"method">>
                      ELSE TreeOf(Before(s, k)) \o TreesOf(Inside(s, k)) \o <<"call">>
               [] OTHER -> TreeOf(Before(s, k)) \o TreeOf(Inside(s, k)) \o <<"index">>
        [] OTHER ->
             CASE s[1] \in PrefixOperators -> TreeOf(Tail(s)) \o <<s[1]>>
               [] s[1] = "(" -> TreeOf(Inside(s, 1)) \o <<"paren">>
               [] s[1] = "[" -> TreesOf(Inside(s, 1)) \o <<"array">>
               [] s[1] \in {"num", "true"} -> <<"literal">>
               [] OTHER -> <<"ident">>

\* An assignment, or an expression alone.
StatementTrees(s) ==
  LET assigned == Outside(s, {"="})
  IN  IF assigned = {} THEN TreeOf(s)
      ELSE TreeOf(Before(s, Min(assigned))) \o TreeOf(After(s, Min(assigned)))

-----------------------------------------------------------------------------
(* The texts on which the parser and the plan part. *)

\* Both positions are in the same brackets.
SameBrackets(s, k, m) ==
  Nesting(s, m) = Nesting(s, k) /\ \A i \in k .. m : Nesting(s, i) >= Nesting(s, k)

\* What separates operands between them, outside further brackets.
Separators(s, k, m) ==
  {s[i] : i \in {j \in (k + 1) .. (m - 1) :
                   /\ s[j] \in InfixOperators \union {",", "="} /\ EndsOperand(s[j - 1])
                   /\ Nesting(s, j) = Nesting(s, k)}}

\* A postfix operator stands after the operand of a prefix operator.
PrefixedPostfix(s) ==
  \E k, m \in DOMAIN s :
    /\ k < m /\ SameBrackets(s, k, m) /\ Separators(s, k, m) = {}
    /\ s[k] \in PrefixOperators /\ (k > 1 => ~EndsOperand(s[k - 1]))
    /\ s[m] \in PostfixOperators /\ EndsOperand(s[m - 1])

\* A range has a range for an operand, with no bracket around it.
Chained(s) ==
  \E k, m \in DOMAIN s :
    /\ k < m /\ SameBrackets(s, k, m)
    /\ s[k] \in Ranges /\ s[m] \in Ranges
    /\ \A t \in Separators(s, k, m) : t \in InfixOperators /\ Level(t) >= Level("..")
================================================================================
