-------------------------------- MODULE Grammar --------------------------------
(***************************************************************************)
(* The recursive-descent parser (parser/*.rs) as data.  A parse function   *)
(* is a sequence of symbols, or an operator from the token it peeks at (t) *)
(* and the one after that (u) to such a sequence; what a symbol does to    *)
(* the cursor is in Parser.  A function that saves its position and        *)
(* rewinds is one that looks at two tokens.  What a function builds is     *)
(* kept for expressions only.                                              *)
(*                                                                         *)
(* Tokens are the strings they are written as; identifiers whose text the  *)
(* parser compares are tokens of their own, and one word stands for each   *)
(* set of words that are treated alike.                                    *)
(***************************************************************************)
EXTENDS Naturals, Sequences

\* Memory stands for DualPortMemory too.
TypeNames == {"Type", "Flip", "Clock", "SyncReset", "AsyncReset", "Memory"}
GenericKinds == {"uint"}       \* uint, int, bool, float, string, type
ClockEdges == {"rising"}       \* rising, falling, dual
Polarities == {"active_high"}  \* active_high, active_low
Encodings == {"binary"}        \* binary, onehot, gray, custom
Modes == {"auto"}              \* auto, manual, none
Labels == {"states", "encoding", "initial", "transitions", "outputs", "timeout",
           "input", "output", "backpressure", "stall_when"}

\* What Token::Ident covers; a keyword or an underscore is none.
Idents == {"id"} \union TypeNames \union GenericKinds \union ClockEdges
          \union Polarities \union Encodings \union Modes \union Labels

-----------------------------------------------------------------------------

(***************************************************************************)
(* The symbols.                                                            *)
(***************************************************************************)
Tok(S) == [sym |-> "tok", set |-> S]                    \* one of S, or an error
Opt(S, then) == [sym |-> "opt", set |-> S, then |-> then]    \* if eat(S) { then }
Star(S, then) == [sym |-> "star", set |-> S, then |-> then]  \* while eat(S) { then }
Skip(S) == [sym |-> "skip", set |-> S]                  \* while check(S) { advance }
Many(item) == [sym |-> "many", item |-> item]           \* up to a Dedent or the end
List(close, item, skip) ==                              \* up to close or the end
  [sym |-> "list", close |-> close, item |-> item, skip |-> skip]
Nt(name) == [sym |-> "nt", name |-> name]               \* a call of a function below
Pratt(min) == [sym |-> "pratt", min |-> min]            \* parse_pratt(min)
Ops(min, generic) == [sym |-> "ops", min |-> min, generic |-> generic] \* its loop
Node(kind) == [sym |-> "node", kind |-> kind]           \* the node just completed
Angle == [sym |-> "angle"]                              \* expect_close_angle
PipeTarget == [sym |-> "pipe"]                          \* the check of a pipe's rhs
Fail == [sym |-> "fail"]                                \* return Err

T(t) == <<Tok({t})>>
Ident == <<Tok(Idents)>>                                \* expect_ident
Newlines == <<Skip({"Newline"})>>                       \* skip_newlines
Structural == <<Skip({"Newline", "Indent", "Dedent"})>> \* skip_structural

\* Mutant: `eat` for `expect_token`, the block may end without its Dedent.
parse_block_lenient(item) ==
  T(":") \o Newlines \o T("Indent") \o <<Many(item), Opt({"Dedent"}, <<>>)>>

parse_block(item) ==
  T(":") \o Newlines \o T("Indent") \o <<Many(item)>> \o T("Dedent")

parse_comma_list(close, item) ==
  Structural \o <<List({close}, item, Structural)>> \o T(close)

Expr == <<Nt("parse_expr")>>
TypeExpr == <<Nt("parse_type_expr")>>
Stmt == <<Nt("parse_stmt")>>
Item == <<Nt("parse_item")>>
ExprInGeneric ==
  <<Nt("parse_unary"), Nt("parse_postfix"), Ops(0, TRUE)>>
StmtBlock == parse_block(Stmt)
ItemBlock == parse_block(Item)

-----------------------------------------------------------------------------

(***************************************************************************)
(* parser/expr.rs.  The operators, loosest first.                          *)
(***************************************************************************)
BindingPowers ==
  << {"implies"}, {"or"}, {"and"}, {"|"}, {"^"}, {"&"}, {"==", "!="},
     {"<", ">", "<=", ">="}, {"..", "..="}, {"<<", ">>", ">>>"}, {"++"},
     {"+", "-"}, {"*", "/", "%"}, {"**"} >>

Infix == UNION {BindingPowers[i] : i \in DOMAIN BindingPowers}
RightAssociative == {"implies", "**"}

\* Mutant: `&` binds as `^` does.
infix_binding_power_flat(t) ==
  IF t = "&" THEN 5 ELSE CHOOSE i \in DOMAIN BindingPowers : t \in BindingPowers[i]

infix_binding_power(t) == CHOOSE i \in DOMAIN BindingPowers : t \in BindingPowers[i]

next_min(t) ==
  IF t \in RightAssociative THEN infix_binding_power(t) ELSE infix_binding_power(t) + 1

\* At which an expression of a generic argument stops, when it meets one itself.
AngleTokens == {"<", ">", "<<", ">>", ">=", "<="}

(***************************************************************************)
(* Does the loop with these bounds go on at t?                             *)
(***************************************************************************)
GoesOn(ops, t) ==
  /\ t \in Infix
  /\ infix_binding_power(t) >= ops.min
  /\ ops.generic => t \notin AngleTokens

\* parse_expr is parse_pipe_expr.
parse_pipe_expr ==
  <<Pratt(0), Star({"|>"}, <<Pratt(0), PipeTarget, Node("|>")>>)>>

parse_pratt(min) == <<Nt("parse_unary"), Nt("parse_postfix"), Ops(min, FALSE)>>

\* `name = expr` or `expr`, by a look past the identifier.
named_arg(t, u) ==
  IF t \in Idents /\ u = "=" THEN Ident \o T("=") \o Expr ELSE Expr

parse_call_args ==
  Newlines \o <<List({")"}, <<Nt("named_arg")>>, Newlines)>> \o T(")")

(***************************************************************************)
(* An operand.  The else branch of an if takes all that follows it.        *)
(***************************************************************************)
parse_atom(t) ==
  CASE t \in {"num", "str", "true", "false"} -> T(t) \o <<Node("literal")>>
    [] t \in Idents -> T(t) \o <<Node("ident")>>
    [] t = "next" -> T(t) \o T("(") \o Expr \o <<Opt({","}, Expr)>> \o T(")")
                       \o <<Node("next")>>
    [] t = "eventually" -> T(t) \o T("(") \o Expr \o T(",") \o <<Nt("named_arg")>>
                             \o T(")") \o <<Node("eventually")>>
    [] t = "if" -> T(t) \o Expr \o T("then") \o Expr \o T("else") \o Expr
                     \o <<Node("if")>>
    [] t = "(" -> T(t) \o Newlines \o Expr \o Newlines \o T(")") \o <<Node("paren")>>
    [] t = "[" -> T(t) \o Newlines \o <<List({"]"}, Expr, Newlines)>> \o T("]")
                    \o <<Node("array")>>
    [] OTHER -> <<Fail>>

Prefix == {"not", "~", "-"}

parse_unary(t) ==
  IF t \in Prefix THEN T(t) \o <<Nt("parse_unary"), Node(t)>> ELSE parse_atom(t)

\* Mutant: the `.` is peeked at and not consumed.
parse_postfix_stuck(t) ==
  IF t = "." THEN <<Nt("parse_postfix")>> ELSE <<>>

parse_postfix(t) ==
  CASE t = "." -> T(t) \o Ident \o <<Nt("method_args"), Nt("parse_postfix")>>
    [] t = "[" -> T(t) \o Expr \o <<Opt({":"}, Expr)>> \o T("]")
                    \o <<Node("index"), Nt("parse_postfix")>>
    [] t = "(" -> T(t) \o parse_call_args \o <<Node("call"), Nt("parse_postfix")>>
    [] OTHER -> <<>>

method_args(t) ==
  IF t = "(" THEN T(t) \o parse_call_args \o <<Node("method")>> ELSE <<Node("field")>>

-----------------------------------------------------------------------------

(***************************************************************************)
(* parser/types.rs.                                                        *)
(***************************************************************************)
parse_type_expr == <<Nt("parse_base_type"), Star({"["}, Expr \o T("]"))>>

parse_type_expr_with_domain == TypeExpr \o <<Opt({"@"}, Ident)>>

is_type_start(t, u) ==
  \/ t \in {"in", "out", "inout"} /\ u = "<"
  \/ t \in TypeNames

parse_generic_arg(t, u) == IF is_type_start(t, u) THEN TypeExpr ELSE ExprInGeneric

parse_generic_arg_list ==
  Newlines \o <<List({">", ">>"}, <<Nt("parse_generic_arg")>>, Newlines)>>
    \o Newlines \o <<Angle>>

parse_clock_type ==
  T("<") \o ExprInGeneric \o <<Opt({","}, <<Tok(ClockEdges)>>), Angle>>

parse_reset_type == T("<") \o <<Tok(Polarities), Angle>>

parse_memory_type ==
  T("<") \o TypeExpr
    \o <<Star({","}, Newlines \o Ident \o T("=") \o ExprInGeneric), Angle>>

partial_interface(t, u) ==
  IF t = "." /\ u = "{" THEN T(t) \o T(u) \o parse_comma_list("}", Ident) ELSE <<>>

\* A direction is one before `<` only; elsewhere it is no type at all.
parse_base_type(t, u) ==
  CASE t \in {"in", "out", "inout"} ->
         IF u = "<" THEN T(t) \o T("<") \o TypeExpr \o <<Angle>> ELSE <<Fail>>
    [] t = "Flip" /\ u = "<" -> T(t) \o T("<") \o TypeExpr \o <<Angle>>
    [] t = "Clock" /\ u = "<" -> T(t) \o parse_clock_type
    [] t \in {"SyncReset", "AsyncReset"} ->
         IF u = "<" THEN T(t) \o parse_reset_type ELSE T(t)
    [] t = "Memory" /\ u = "<" -> T(t) \o parse_memory_type
    [] OTHER -> Ident \o IF u = "<" THEN T("<") \o parse_generic_arg_list
                                    ELSE <<Nt("partial_interface")>>

\* Closed by `>` only, and a default is any expression.
parse_generic_params ==
  <<Opt({"<"}, parse_comma_list(">",
        Ident \o T(":") \o <<Tok(GenericKinds), Opt({"="}, Expr)>>))>>

-----------------------------------------------------------------------------

(***************************************************************************)
(* parser/stmt.rs.                                                         *)
(***************************************************************************)
parse_signal_decl ==
  T("signal") \o Ident \o T(":") \o TypeExpr \o <<Opt({"@"}, Ident), Opt({"="}, Expr)>>

\* parse_let_decl and parse_const_decl are alike.
parse_value_decl(keyword) ==
  T(keyword) \o Ident \o <<Opt({":"}, TypeExpr)>> \o T("=") \o Expr

parse_type_alias == T("type") \o Ident \o parse_generic_params \o T("=") \o TypeExpr

parse_assign_or_expr_stmt == Expr \o <<Opt({"="}, Expr)>>

parse_if_stmt ==
  T("if") \o Expr \o StmtBlock
    \o <<Star({"elif"}, Expr \o StmtBlock), Opt({"else"}, StmtBlock)>>

\* An indented block of statements where the line has ended, or one statement.
indented_or_stmt(t) ==
  IF t = "Indent" THEN T(t) \o <<Many(Stmt)>> \o T("Dedent") ELSE Stmt

match_body(t) ==
  CASE t = ":" -> StmtBlock
    [] t = "Newline" -> Newlines \o <<Nt("indented_or_stmt")>>
    [] OTHER -> Stmt

parse_match_stmt ==
  T("match") \o Expr \o parse_block(Expr \o T("=>") \o <<Nt("match_body")>>)

parse_for_stmt == T("for") \o Ident \o T("in") \o Expr \o StmtBlock

parse_comb_block == T("comb") \o StmtBlock

parse_reg_block ==
  T("reg") \o T("(") \o Expr \o T(",") \o Expr \o <<Opt({","}, <<Nt("named_arg")>>)>>
    \o T(")") \o parse_block(T("on") \o <<Tok({"reset", "tick"})>> \o StmtBlock)

when_arm == T("when") \o Expr \o T("=>") \o Stmt

priority_arm(t) ==
  IF t = "otherwise" THEN T(t) \o T("=>") \o Stmt ELSE when_arm

parse_priority_block == T("priority") \o parse_block(<<Nt("priority_arm")>>)

parse_parallel_block ==
  T("parallel") \o <<Opt({"("}, <<Nt("named_arg")>> \o T(")"))>> \o parse_block(when_arm)

\* parse_assume_stmt is this without `always`.
parse_assert_stmt(modifier) ==
  modifier \o <<Opt({"@"}, Ident)>> \o T(":") \o Expr \o <<Opt({","}, Expr)>>

cover_name(t, u) == IF t \in Idents /\ u = ":" THEN Ident ELSE <<>>

parse_cover_stmt == T("cover") \o <<Nt("cover_name")>> \o T(":") \o Expr

parse_static_assert == T("static_assert") \o Expr \o T(",") \o Expr

unchecked_body(t) ==
  CASE t = ":" -> StmtBlock
    [] t = "(" -> T(t) \o Expr \o T(")")
    [] OTHER -> <<Fail>>

Statements ==
  [signal |-> parse_signal_decl, let |-> parse_value_decl("let"),
   const |-> parse_value_decl("const"), type |-> parse_type_alias,
   if |-> parse_if_stmt, match |-> parse_match_stmt, for |-> parse_for_stmt,
   comb |-> parse_comb_block, reg |-> parse_reg_block,
   priority |-> parse_priority_block, parallel |-> parse_parallel_block,
   assert |-> parse_assert_stmt(T("assert") \o <<Opt({"always"}, <<>>)>>),
   assume |-> parse_assert_stmt(T("assume")), cover |-> parse_cover_stmt,
   static_assert |-> parse_static_assert,
   unchecked |-> T("unchecked") \o <<Nt("unchecked_body")>>]

parse_stmt(t) ==
  IF t \in DOMAIN Statements THEN Statements[t] ELSE parse_assign_or_expr_stmt

-----------------------------------------------------------------------------

(***************************************************************************)
(* parser/item.rs.                                                         *)
(***************************************************************************)
Named == Ident \o T(":") \o TypeExpr     \* a parameter, a field, a signal

parse_port ==
  <<Opt({"doc"}, Newlines), Tok({"in", "out", "inout"})>>
    \o Ident \o T(":") \o parse_type_expr_with_domain

Ports == T("(") \o parse_comma_list(")", parse_port)

parse_module_def ==
  T("module") \o Ident \o parse_generic_params \o Ports \o <<Opt({"@"}, Ident)>> \o ItemBlock

parse_struct_def ==
  T("struct") \o Ident
    \o parse_block(Named \o <<Opt({"@"}, T("[") \o Expr \o T(":") \o Expr \o T("]"))>>)

parse_enum_def ==
  T("enum") \o Ident \o <<Opt({"["}, <<Tok(Encodings)>> \o T("]"))>>
    \o parse_block(Ident \o <<Opt({"="}, Expr)>>)

\* The arm for `property` compares the text of an identifier with a keyword,
\* which is never lexed as one: it is not taken.
interface_member(t) ==
  IF t = "group" THEN T(t) \o Ident \o parse_block(Named) ELSE Named

parse_interface_def ==
  T("interface") \o Ident \o parse_generic_params
    \o parse_block(<<Nt("interface_member")>>)

parse_fn_def ==
  T("fn") \o Ident \o parse_generic_params \o T("(") \o parse_comma_list(")", Named)
    \o T("->") \o TypeExpr \o StmtBlock

State == <<Tok({"_"} \union Idents)>>

transition_body(t) ==
  IF t \in {"Newline", "Indent"} THEN Newlines \o <<Nt("indented_or_stmt")>> ELSE Stmt

parse_fsm_transition ==
  State \o T("--") \o <<Opt({"timeout"}, <<>>)>> \o T("(") \o Expr \o T(")")
    \o T("-->") \o State \o <<Opt({":"}, <<Nt("transition_body")>>)>>

(***************************************************************************)
(* The sections of an fsm up to its Dedent; `initial` is whether an        *)
(* initial state has been named, and the parser fails without one.         *)
(***************************************************************************)
fsm_sections(initial, t) ==
  LET more == Newlines \o <<Nt(IF initial \/ t = "initial" THEN "fsm_complete"
                                                          ELSE "fsm_incomplete")>>
  IN  CASE t = "Newline" -> more
        [] t \in {"Dedent", "End"} -> T("Dedent") \o IF initial THEN <<>> ELSE <<Fail>>
        [] t = "on" -> T(t) \o T("tick") \o StmtBlock \o more
        [] t = "states" -> T(t) \o T(":") \o Ident \o <<Star({"|"}, Ident)>> \o more
        [] t = "encoding" -> T(t) \o T(":") \o <<Tok(Encodings)>> \o more
        [] t = "initial" -> T(t) \o T(":") \o Ident \o more
        [] t = "transitions" -> T(t) \o parse_block(parse_fsm_transition) \o more
        [] t = "outputs" -> T(t) \o parse_block(Ident \o T("=>") \o Stmt) \o more
        [] OTHER -> <<Fail>>

\* The header of a reg-like construct: a name, a clock and a reset.
Clocked(keyword) == T(keyword) \o Ident \o T("(") \o Expr \o T(",") \o Expr

parse_fsm_def ==
  Clocked("fsm") \o T(")") \o T(":") \o Newlines \o T("Indent") \o <<Nt("fsm_incomplete")>>

parse_pipeline_port(label) == T(label) \o T(":") \o Ident \o <<Star({","}, Ident)>>

stage_element(t) == IF t = "stall_when" THEN T(t) \o T(":") \o Expr ELSE Stmt

parse_pipeline_stage ==
  T("stage") \o Expr \o <<Opt({"str"}, <<>>)>> \o parse_block(<<Nt("stage_element")>>)

parse_pipeline_def ==
  Clocked("pipeline")
    \o <<Opt({","}, T("backpressure") \o T("=") \o <<Tok(Modes)>>)>>
    \o T(")") \o T(":") \o Newlines \o T("Indent")
    \o parse_pipeline_port("input") \o Newlines
    \o parse_pipeline_port("output") \o Newlines
    \o <<Many(parse_pipeline_stage)>> \o T("Dedent")

parse_test_block == T("test") \o T("str") \o StmtBlock

import_names(t) == IF t = "{" THEN T(t) \o parse_comma_list("}", Ident) ELSE Ident

parse_import ==
  T("import") \o <<Nt("import_names")>> \o T("from") \o T("str") \o <<Opt({"as"}, Ident)>>

parse_extern_module ==
  T("extern") \o T("module") \o Ident \o Ports
    \o T("@") \o Ident \o T("(") \o T("str") \o T(")")

port_binding(t) ==
  CASE t \in {"=", "->"} -> T(t) \o <<Nt("discard_or_expr")>>
    [] t = "<->" -> T(t) \o Expr
    [] OTHER -> <<Fail>>

discard_or_expr(t) == IF t = "_" THEN T(t) ELSE Expr

parse_inst_decl ==
  T("inst") \o Ident \o T("=") \o Ident
    \o <<Opt({"<"}, parse_comma_list(">", ExprInGeneric))>>
    \o T("(") \o parse_comma_list(")", Ident \o <<Nt("port_binding")>>)

gen_body(t) ==
  CASE t = "for" -> T(t) \o Ident \o T("in") \o Expr \o ItemBlock
    [] t = "if" -> T(t) \o Expr \o ItemBlock \o <<Nt("gen_else")>>
    [] OTHER -> <<Fail>>

gen_else(t, u) ==
  IF t = "gen" /\ u = "else" THEN T(t) \o T(u) \o ItemBlock ELSE <<>>

parse_gen == T("gen") \o <<Nt("gen_body")>>

Items ==
  [module |-> parse_module_def, struct |-> parse_struct_def, enum |-> parse_enum_def,
   interface |-> parse_interface_def, fn |-> parse_fn_def, fsm |-> parse_fsm_def,
   pipeline |-> parse_pipeline_def, test |-> parse_test_block,
   import |-> parse_import, extern |-> parse_extern_module,
   inst |-> parse_inst_decl, gen |-> parse_gen]

Unattributed == {"struct", "enum", "interface", "fn"}

\* The kind of an item, after its doc comments, attributes and `pub`.
item_kind(attributed, t) ==
  IF t \notin DOMAIN Items THEN Stmt
  ELSE IF attributed /\ t \in Unattributed THEN <<Fail>>
  ELSE Items[t]

\* The loop over the attributes.
item_attributes(attributed, t) ==
  IF t = "@"
  THEN T(t) \o Ident \o <<Opt({"("}, parse_comma_list(")", Expr))>>
         \o Newlines \o <<Nt("more_attributes")>>
  ELSE <<Opt({"pub"}, <<>>), Nt(IF attributed THEN "attributed_item" ELSE "plain_item")>>

parse_item == <<Opt({"doc"}, Newlines \o <<Star({"doc"}, Newlines)>>), Nt("attributes")>>

parse_file(t) ==
  CASE t = "Newline" -> Newlines \o <<Nt("parse_file")>>
    [] t = "End" -> <<>>
    [] OTHER -> Item \o Newlines \o <<Nt("parse_file")>>

-----------------------------------------------------------------------------

(***************************************************************************)
(* The functions by name: those that look at no token before they call     *)
(* another, those that look at one, and those that look at two.            *)
(***************************************************************************)
Blind == [parse_expr |-> parse_pipe_expr, parse_type_expr |-> parse_type_expr,
          parse_item |-> parse_item]

TwoAhead == {"named_arg", "parse_base_type", "parse_generic_arg",
             "partial_interface", "cover_name", "gen_else"}

Rule(name, t, u) ==
  CASE name \in DOMAIN Blind      -> Blind[name]
    [] name = "parse_unary"       -> parse_unary(t)
    [] name = "parse_postfix"     -> parse_postfix(t)
    [] name = "method_args"       -> method_args(t)
    [] name = "named_arg"         -> named_arg(t, u)
    [] name = "parse_base_type"   -> parse_base_type(t, u)
    [] name = "parse_generic_arg" -> parse_generic_arg(t, u)
    [] name = "partial_interface" -> partial_interface(t, u)
    [] name = "parse_stmt"        -> parse_stmt(t)
    [] name = "indented_or_stmt"  -> indented_or_stmt(t)
    [] name = "match_body"        -> match_body(t)
    [] name = "priority_arm"      -> priority_arm(t)
    [] name = "cover_name"        -> cover_name(t, u)
    [] name = "unchecked_body"    -> unchecked_body(t)
    [] name = "interface_member"  -> interface_member(t)
    [] name = "transition_body"   -> transition_body(t)
    [] name = "fsm_incomplete"    -> fsm_sections(FALSE, t)
    [] name = "fsm_complete"      -> fsm_sections(TRUE, t)
    [] name = "stage_element"     -> stage_element(t)
    [] name = "import_names"      -> import_names(t)
    [] name = "port_binding"      -> port_binding(t)
    [] name = "discard_or_expr"   -> discard_or_expr(t)
    [] name = "gen_body"          -> gen_body(t)
    [] name = "gen_else"          -> gen_else(t, u)
    [] name = "attributes"        -> item_attributes(FALSE, t)
    [] name = "more_attributes"   -> item_attributes(TRUE, t)
    [] name = "attributed_item"   -> item_kind(TRUE, t)
    [] name = "plain_item"        -> item_kind(FALSE, t)
    [] name = "parse_file"        -> parse_file(t)
================================================================================
