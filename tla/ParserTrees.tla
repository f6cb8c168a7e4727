------------------------------ MODULE ParserTrees ------------------------------
(***************************************************************************)
(* The trees of the expressions that Parser accepts, compared with the     *)
(* recursive definition of ExpressionTrees.                                *)
(***************************************************************************)
EXTENDS Parser

Parsed == INSTANCE ExpressionTrees WITH PostfixFirst <- FALSE
Planned == INSTANCE ExpressionTrees WITH PostfixFirst <- TRUE

(***************************************************************************)
(* The tree of an accepted expression is the one that the plan's table of  *)
(* operators describes (docs/superpowers/plans/                            *)
(* 2026-03-10-phase2-parser-ast.md:102-119), but for two kinds of texts:   *)
(* those in which a postfix operator follows the operand of a prefix one,  *)
(* where the parser applies the prefix operator first, and chains of       *)
(* ranges, which the plan excludes and the parser takes from the left      *)
(* (expr.rs:13-41, 116-172, 175-216, 219-293).                             *)
(***************************************************************************)
TreeIsPrecedence ==
  status = "accepted" /\ scene.recorded /\ text # <<>> =>
    /\ tree = Parsed!StatementTrees(text)
    /\ Planned!PrefixedPostfix(text) \/ Planned!Chained(text)
       \/ tree = Planned!StatementTrees(text)

================================================================================
