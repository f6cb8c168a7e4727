------------------------------- MODULE Resolver -------------------------------
(***************************************************************************)
(* Name and type resolution (sema/resolve.rs), the first of the semantic   *)
(* passes.  It walks the syntax tree once, and fills the symbol table and  *)
(* the map from item names to scopes that the later passes use.            *)
(*                                                                         *)
(* The program is not a constant: what the walk meets next is chosen as it *)
(* goes, one action per declaration or construct entered or left.  Every   *)
(* declaration and construct has a position in the source (its span), the  *)
(* number of those before it plus one.  Expressions are those of constant  *)
(* initialisers and widths: a literal, a name, or one that is no constant. *)
(***************************************************************************)
EXTENDS SymbolTable, FiniteSets

CONSTANTS
  Capitalised,           \* the names that begin with an upper-case letter
  Widths,                \* bound: the numbers in programs
  MaxWidth,              \* the largest width or size (2^64 - 1 in the code)
  Profiles               \* bound: [constructs, forms, names, size], what the
                         \* programs are made of, the forms of their type
                         \* expressions, the names they use, and how many
                         \* declarations and constructs they have

Scoping == {"module", "extern", "fn", "for"}
Nominal == {"Struct", "Enum", "Interface"}
Opaque == {"Fsm", "Pipeline"}
Mentions == {"assign", "read"}

ASSUME CapitalisedAssumption == Capitalised \subseteq Names
ASSUME WidthsAssumption == Widths \subseteq Nat /\ MaxWidth \in Nat
ASSUME ProfilesAssumption == IsFiniteSet(Profiles) /\ \A p \in Profiles : p.size \in Nat

Constructs == UNION {p.constructs : p \in Profiles}
Forms == UNION {p.forms : p \in Profiles}
MaxSize == CHOOSE n \in {p.size : p \in Profiles} : \A p \in Profiles : p.size <= n

VARIABLES
  table,
  scope_stack,
  scope_map,             \* the positions of module and fn names -> scopes
  const_values,
  errors,
  next_id,               \* next_struct_id, next_enum_id and next_interface_id
  open,                  \* the constructs the walk is in, innermost last
  header,                \* the part of the header of the last one, if still in it
  prog,                  \* history: the program so far
  meaning,               \* history: the value of each symbol that is a constant
  uses                   \* history: the names used as widths and sizes

vars == <<table, scope_stack, scope_map, const_values, errors, next_id,
          open, header, prog, meaning, uses>>

-----------------------------------------------------------------------------
(* The inputs. *)

NoName == "no name"

\* The profiles that the program may still be one of, and grow.
Live ==
  {p \in Profiles :
    /\ Len(prog) < p.size
    /\ \A i \in DOMAIN prog :
         prog[i].what \in p.constructs /\ prog[i].name \in p.names \union {NoName}}

LiveForms == UNION {p.forms : p \in Live}

\* A type expression: `Bool`, `UInt` alone, `I.{g}`, UInt<n>, a name X, and
\* those that count in X: UInt<X>, Bool[X], Memory<Bool, depth = X>, Clock<X>.
Counted == {"Width", "Array", "Memory", "Clock"}

TypeExpr ==
  [form : LiveForms \intersect {"Bool", "Bare", "Partial"}]
  \union [form : LiveForms \intersect {"Literal"}, n : Widths]
  \union [form : LiveForms \intersect ({"Named"} \union Counted), name : Names]

\* The type of a `let` or `const`, which may be left out.
OptType == TypeExpr \union [form : {"None"}]

\* The initialiser of a constant: a number, `true`, a name, or a call.
Initialiser ==
  [init : {"number"}, n : Widths] \union [init : {"name"}, name : Names]
  \union [init : {"bool", "call"}]

\* ConstValue, as far as resolution tells them apart; "none" is no value.
Value == [is : {"UInt", "Bool", "none"}, n : Nat]
NoValue == [is |-> "none", n |-> 0]

-----------------------------------------------------------------------------
(* Names and positions. *)

Here == Len(prog) + 1
Innermost == IF open = <<>> THEN [kind |-> "file", at |-> 0] ELSE open[Len(open)]
current_scope == scope_stack[Len(scope_stack)]
Lookup(x) == lookup(table, current_scope, x)

\* The position where the innermost construct with a scope begins.
ScopeAt ==
  LET scoping == {i \in DOMAIN open : open[i].kind \in Scoping}
  IN  IF scoping = {} THEN 0
      ELSE open[CHOOSE i \in scoping : \A j \in scoping : j <= i].at

\* The program stays one of a profile.
Fits(what, x, form) ==
  \E p \in Live :
    /\ what \in p.constructs
    /\ x \in p.names \union {NoName}
    /\ form \in p.forms \union {"None"}

\* The walk meets a construct, or a declaration, here.
Meet(what, x, form) ==
  /\ Fits(what, x, form)
  /\ prog' = Append(prog, [what |-> what, name |-> x, form |-> form,
                           block |-> Innermost.at, scope |-> ScopeAt])

\* Where items may stand; statements may stand anywhere but in an extern module.
InItems == Innermost.kind \in {"file", "module", "gen"}
InStatements == Innermost.kind # "extern"

-----------------------------------------------------------------------------
(* Types (resolve_type and its helpers). *)

\* ConstEval::eval_expr on a name: the binding, whatever scope it is from.
EvalName(x) == const_values[x]

\* ConstEval::eval_expr on the initialiser of a constant.
Eval(init) ==
  CASE init.init = "number" -> [is |-> "UInt", n |-> init.n]
    [] init.init = "bool" -> [is |-> "Bool", n |-> 0]
    [] init.init = "name" -> EvalName(init.name)
    [] init.init = "call" -> NoValue

NoType(t) == [ty |-> t, n |-> 0]

\* Mutant: the width wraps around.
to_u64_wrapping(n) == n % (MaxWidth + 1)

\* A constant may be larger than a width can be: the width is the largest then.
to_u64(n) == IF n <= MaxWidth THEN n ELSE MaxWidth

\* Mutant: a name that nothing declares is no error.
NamedTypeQuiet(x) ==
  [ty |-> IF Lookup(x) = 0 THEN NoType("Error") ELSE table.symbols[Lookup(x)].ty, errs |-> {}]

\* resolve_named_type on a name that is no primitive's.
NamedType(x) ==
  IF Lookup(x) = 0 THEN [ty |-> NoType("Error"), errs |-> {"UndefinedName"}]
  ELSE [ty |-> table.symbols[Lookup(x)].ty, errs |-> {}]

\* eval_param_at: the width a name gives.  The parser takes an argument that
\* begins with an upper-case letter for a type.
WidthParam(x) ==
  CASE EvalName(x).is = "UInt" -> [n |-> to_u64(EvalName(x).n), errs |-> {}]
    [] EvalName(x).is # "UInt" /\ x \notin Capitalised -> [n |-> 0, errs |-> {"ConstEvalError"}]
    [] EvalName(x).is # "UInt" /\ x \in Capitalised ->
         [n |-> 0,
          errs |-> IF /\ Lookup(x) # 0
                      /\ table.symbols[Lookup(x)].kind \in {"Const", "GenericParam"}
                     THEN {} ELSE NamedType(x).errs \union {"Custom"}]

\* resolve_type: the type, and the errors it pushes.
resolve_type(te) ==
  CASE te.form = "Bool" -> [ty |-> NoType("Bool"), errs |-> {}]
    [] te.form = "Bare" -> [ty |-> NoType("Error"), errs |-> {"Custom"}]
    [] te.form = "Partial" -> [ty |-> NoType("Error"), errs |-> {}]
    [] te.form = "Literal" -> [ty |-> [ty |-> "UInt", n |-> to_u64(te.n)], errs |-> {}]
    [] te.form = "Named" -> NamedType(te.name)
    [] te.form = "Width" -> [ty |-> [ty |-> "UInt", n |-> WidthParam(te.name).n],
                             errs |-> WidthParam(te.name).errs]
    [] te.form \in {"Array", "Memory", "Clock"} ->
         IF EvalName(te.name).is = "UInt"
           THEN [ty |-> [ty |-> te.form, n |-> to_u64(EvalName(te.name).n)], errs |-> {}]
           ELSE [ty |-> NoType(IF te.form = "Array" THEN "Error" ELSE te.form),
                 errs |-> IF te.form = "Clock" THEN {} ELSE {"ConstEvalError"}]

\* `.map(|t| self.resolve_type(t)).unwrap_or(default)`.
resolve_opt(te, default) ==
  IF te.form = "None" THEN [ty |-> NoType(default), errs |-> {}] ELSE resolve_type(te)

-----------------------------------------------------------------------------
(* Errors, and what the properties remember. *)

\* The errors that declaring x in the current scope, with these from its
\* type, pushes.
Push(x, errs) ==
  errors' = errors
    \union {[error |-> e, name |-> x, first |-> 0, second |-> Here] : e \in errs}
    \union (IF lookup_local(table, current_scope, x) = 0 THEN {}
            ELSE {[error |-> "DuplicateDefinition", name |-> x, second |-> Here,
                   first |-> table.symbols[lookup_local(table, current_scope, x)].span]})

\* The value the name x has by the scopes it is used in.
Meaning(x) == IF Lookup(x) = 0 THEN NoValue ELSE meaning[Lookup(x)]

Remember(value) ==
  meaning' = IF Len(table'.symbols) = Len(table.symbols) THEN meaning
             ELSE Append(meaning, value)

\* No name is declared by `const` twice so far.
Once == \A i, j \in DOMAIN prog :
          (prog[i].what = "const" /\ prog[j].what = "const" /\ i # j) => prog[i].name # prog[j].name

Use(te) ==
  uses' = IF te.form \in Counted
            THEN uses \union
                 {[got |-> resolve_type(te).ty.n, want |-> Meaning(te.name), once |-> Once]}
            ELSE uses

\* Resolver::define: into the current scope, or a DuplicateDefinition.
Defined(x, kind, ty) == define(table, current_scope, x, kind, ty, Here)

-----------------------------------------------------------------------------

Init ==
  /\ table = EmptyTable
  /\ scope_stack = << root_scope >>
  /\ scope_map = [k \in {} |-> 0]
  /\ const_values = [x \in Names |-> NoValue]
  /\ errors = {}
  /\ next_id = [t \in Nominal |-> 0]
  /\ open = <<>>
  /\ header = "none"
  /\ prog = <<>>
  /\ meaning = <<>>
  /\ uses = {}

\* push_scope, on the table that the declaration before it leaves.
Enter(tab, kind) ==
  /\ table' = push_scope(tab, current_scope, kind)
  /\ scope_stack' = Append(scope_stack, Len(tab.scopes) + 1)

\* Mutant: the map leads to the scope around the item's.
MapNameOuter(kind) == scope_map' = [k \in DOMAIN scope_map \union {Here} |->
                                      IF k = Here THEN current_scope ELSE scope_map[k]]

\* scope_map.insert(span.start, scope_id).
MapName(kind) == scope_map' = [k \in DOMAIN scope_map \union {Here} |->
                                 IF k = Here THEN Len(table.scopes) + 1 ELSE scope_map[k]]

\* resolve_module and resolve_fn up to their parameters; an extern module has
\* a scope too, that scope_map does not know.
EnterItem(what, x) ==
  /\ InItems
  /\ Meet(what, x, "None")
  /\ Enter(Defined(x, IF what = "fn" THEN "Fn" ELSE "Module", NoType("Void")),
           IF what = "fn" THEN "Function" ELSE "Module")
  /\ IF what = "extern" THEN UNCHANGED scope_map ELSE MapName(what)
  /\ Push(x, {})
  /\ Remember(NoValue)
  /\ open' = Append(open, [kind |-> what, at |-> Here])
  /\ header' = IF what = "extern" THEN "parameters" ELSE "generics"
  /\ UNCHANGED <<const_values, next_id, uses>>

\* A generic parameter of a module or fn: resolution skips them.
Generic(x) ==
  /\ header = "generics"
  /\ Meet("generic", x, "None")
  /\ UNCHANGED <<table, scope_stack, scope_map, const_values, errors, next_id,
                 open, header, meaning, uses>>

\* A declaration in the current scope with a type, or else the default; `head`
\* is what it leaves of the header it may be in.
DeclareTyped(what, x, kind, te, default, head) ==
  /\ Meet(what, x, te.form)
  /\ table' = Defined(x, kind, resolve_opt(te, default).ty)
  /\ Push(x, resolve_opt(te, default).errs)
  /\ Remember(NoValue)
  /\ Use(te)
  /\ header' = head
  /\ UNCHANGED <<scope_stack, scope_map, const_values, next_id, open>>

\* A port of a module, a parameter of a fn.
Parameter(x, te) ==
  /\ header \in {"generics", "parameters"}
  /\ DeclareTyped("parameter", x, IF Innermost.kind = "fn" THEN "GenericParam" ELSE "Port",
                  te, "Void", "parameters")

\* resolve_signal, resolve_let and resolve_type_alias.
Signal(x, te) == InStatements /\ DeclareTyped("signal", x, "Signal", te, "Void", "none")
Let(x, te) == InStatements /\ DeclareTyped("let", x, "Let", te, "Void", "none")
TypeAlias(x, te) == InStatements /\ DeclareTyped("type", x, "TypeAlias", te, "Void", "none")

\* A declaration in the current scope whose type is given.
DeclareAs(what, x, kind, ty, head) ==
  /\ Meet(what, x, "None")
  /\ table' = Defined(x, kind, ty)
  /\ Push(x, {})
  /\ Remember(NoValue)
  /\ header' = head
  /\ UNCHANGED <<scope_stack, scope_map, const_values, open, uses>>

\* resolve_struct, resolve_enum up to its variants, resolve_interface: the id
\* is used up whether or not the name is free.
DeclareNominal(x, kind) ==
  /\ InItems
  /\ DeclareAs("nominal", x, kind, [ty |-> kind, n |-> next_id[kind]],
               IF kind = "Enum" THEN "variants" ELSE "none")
  /\ next_id' = [next_id EXCEPT ![kind] = @ + 1]

\* One of the variants of the enum just declared.
Variant(x) ==
  /\ header = "variants"
  /\ DeclareAs("variant", x, "EnumVariant", [ty |-> "Enum", n |-> next_id["Enum"] - 1], "variants")
  /\ UNCHANGED next_id

\* resolve_fsm and resolve_pipeline: the name, and nothing of the body.
DeclareOpaque(x, kind) ==
  InItems /\ DeclareAs("opaque", x, kind, NoType("Void"), "none") /\ UNCHANGED next_id

\* The value is bound whether or not the name is free, and stays bound when
\* its scope is left.
Bind(x, init) ==
  const_values' = IF Eval(init) = NoValue THEN const_values
                  ELSE [const_values EXCEPT ![x] = Eval(init)]

\* resolve_const.
Const(x, te, init) ==
  /\ InStatements
  /\ Meet("const", x, te.form)
  /\ table' = Defined(x, "Const", resolve_opt(te, "MetaUInt").ty)
  /\ Push(x, resolve_opt(te, "MetaUInt").errs)
  /\ Bind(x, init)
  /\ Remember(IF init.init = "name" THEN Meaning(init.name) ELSE Eval(init))
  /\ Use(te)
  /\ header' = "none"
  /\ UNCHANGED <<scope_stack, scope_map, next_id, open>>

\* A `for`: a scope of its own, which no map leads to, with its variable.
EnterFor(x) ==
  LET child == push_scope(table, current_scope, "Block")
      id == Len(child.scopes)
  IN  /\ InStatements
      /\ Meet("for", x, "None")
      /\ table' = define(child, id, x, "LoopVar", NoType("MetaUInt"), Here)
      /\ scope_stack' = Append(scope_stack, id)
      /\ Remember(NoValue)
      /\ open' = Append(open, [kind |-> "for", at |-> Here])
      /\ header' = "none"
      /\ UNCHANGED <<scope_map, const_values, errors, next_id, uses>>

\* The constructs without a scope: each body of an if, match, comb, reg,
\* priority, parallel or unchecked statement, and of a gen item.
EnterBody(kind) ==
  /\ IF kind = "gen" THEN InItems ELSE InStatements
  /\ Meet(kind, NoName, "None")
  /\ open' = Append(open, [kind |-> kind, at |-> Here])
  /\ header' = "none"
  /\ UNCHANGED <<table, scope_stack, scope_map, const_values, errors, next_id, meaning, uses>>

\* A statement that uses the name x: as a target of an assignment ("assign"),
\* as a value ("read").  resolve_stmt passes over it.
Mention(what, x) ==
  /\ InStatements
  /\ Meet(what, x, "None")
  /\ header' = "none"
  /\ UNCHANGED <<table, scope_stack, scope_map, const_values, errors, next_id, open,
                 meaning, uses>>

\* Mutant: the scope of a `for` is never left.
LeaveFor ==
  /\ open # <<>>
  /\ open' = SubSeq(open, 1, Len(open) - 1)
  /\ scope_stack' = IF Innermost.kind \in Scoping \ {"for"}
                      THEN SubSeq(scope_stack, 1, Len(scope_stack) - 1)
                      ELSE scope_stack
  /\ header' = "none"
  /\ UNCHANGED <<table, scope_map, const_values, errors, next_id, prog, meaning, uses>>

\* pop_scope, where there is a scope to pop.
Leave ==
  /\ open # <<>>
  /\ open' = SubSeq(open, 1, Len(open) - 1)
  /\ scope_stack' = IF Innermost.kind \in Scoping /\ Len(scope_stack) > 1
                      THEN SubSeq(scope_stack, 1, Len(scope_stack) - 1)
                      ELSE scope_stack
  /\ header' = "none"
  /\ UNCHANGED <<table, scope_map, const_values, errors, next_id, prog, meaning, uses>>

Next ==
  \/ \E what \in {"module", "extern", "fn"}, x \in Names : EnterItem(what, x)
  \/ \E x \in Names : Generic(x) \/ Variant(x) \/ EnterFor(x)
  \/ \E x \in Names, te \in TypeExpr :
       Parameter(x, te) \/ Signal(x, te) \/ TypeAlias(x, te)
  \/ \E x \in Names, te \in OptType : Let(x, te)
  \/ \E x \in Names, kind \in Nominal : DeclareNominal(x, kind)
  \/ \E x \in Names, kind \in Opaque : DeclareOpaque(x, kind)
  \/ \E x \in Names, te \in OptType, init \in Initialiser : Const(x, te, init)
  \/ \E kind \in {"body", "gen"} : EnterBody(kind)
  \/ \E what \in Mentions, x \in Names : Mention(what, x)
  \/ Leave

Spec == Init /\ [][Next]_vars

-----------------------------------------------------------------------------
(* What the program says, whatever the table says. *)

Declares(k) == prog[k].what \notin {"generic", "body", "gen"} \union Mentions

\* The construct whose scope the declaration at k belongs to, 0 for the file.
BlockOf(k) == IF prog[k].what = "for" THEN k ELSE prog[k].scope

\* The constructs with a scope around the place b, itself among them.
Around(b) ==
  LET around[c \in 0 .. Len(prog)] == IF c = 0 THEN {0} ELSE {c} \union around[prog[c].scope]
  IN  around[b]

\* The declaration that x means in the scope of the construct b: the first one
\* in the innermost scope that has any.
Visible(b, x) ==
  LET decls == {k \in DOMAIN prog : Declares(k) /\ prog[k].name = x /\ BlockOf(k) \in Around(b)}
      inner == {k \in decls : \A j \in decls : BlockOf(j) <= BlockOf(k)}
  IN  IF decls = {} THEN 0 ELSE CHOOSE k \in inner : \A j \in inner : k <= j

\* What lookup returns in the given scope, as a declaration.
Found(scope, x) ==
  LET id == lookup(table, scope, x) IN IF id = 0 THEN 0 ELSE table.symbols[id].span

Duplicates == {e \in errors : e.error = "DuplicateDefinition"}

(***************************************************************************)
(* The types of the variables; the table is well formed.                   *)
(***************************************************************************)
TypeOK ==
  /\ table \in Table /\ WellFormed(table)
  /\ scope_stack \in Seq(Nat)
  /\ scope_map \in [DOMAIN scope_map -> 1 .. Len(table.scopes)]
  /\ DOMAIN scope_map \subseteq DOMAIN prog
  /\ const_values \in [Names -> Value]
  /\ errors \subseteq [error : {"DuplicateDefinition", "UndefinedName", "ConstEvalError", "Custom"},
                       name : Names, first : Nat, second : Nat]
  /\ next_id \in [Nominal -> Nat]
  /\ open \in Seq([kind : Scoping \union {"body", "gen"}, at : Nat])
  /\ header \in {"generics", "parameters", "variants", "none"}
  /\ prog \in Seq([what : Constructs, name : Names \union {NoName},
                   form : Forms \union {"None"}, block : Nat, scope : Nat])
  /\ meaning \in Seq(Value)
  /\ Len(meaning) = Len(table.symbols)

(***************************************************************************)
(* Looking a name up, from where the walk is or from any scope that        *)
(* scope_map leads the later passes to, finds the declaration that lexical *)
(* scoping gives the name there, or nothing if there is none               *)
(* (scope.rs:203-217, resolve.rs:90-124).                                  *)
(***************************************************************************)
LookupIsLexical ==
  \A x \in Names :
    /\ Found(current_scope, x) = Visible(ScopeAt, x)
    /\ Found(root_scope, x) = Visible(0, x)
    /\ \A k \in DOMAIN scope_map : Found(scope_map[k], x) = Visible(k, x)

(***************************************************************************)
(* Every declaration of the program is either the one its symbol records   *)
(* or reported as a duplicate of an earlier one, of the same name and in   *)
(* the same scope, that is (scope.rs:159-197).                             *)
(***************************************************************************)
DeclarationsAccounted ==
  LET recorded == {table.symbols[i].span : i \in DOMAIN table.symbols}
  IN  /\ recorded \intersect {e.second : e \in Duplicates} = {}
      /\ recorded \union {e.second : e \in Duplicates} = {k \in DOMAIN prog : Declares(k)}
      /\ \A e \in Duplicates :
           /\ e.first < e.second /\ e.first \in recorded
           /\ prog[e.first].name = prog[e.second].name
           /\ BlockOf(e.first) = BlockOf(e.second)

(***************************************************************************)
(* A width or size that names a constant with a value is that value, as    *)
(* long as no two constants of the file have the same name.  A value that  *)
(* is no width, being 2^64 or more, gives the largest width and no error:  *)
(* the code clamps it in silence, and never wraps it around to a smaller   *)
(* one (resolve.rs:27-29, 398-421, 653-756).                               *)
(***************************************************************************)
ConstWidthsExact ==
  \A u \in uses :
    (u.once /\ u.want.is = "UInt") =>
      IF u.want.n <= MaxWidth THEN u.got = u.want.n ELSE u.got = MaxWidth

(***************************************************************************)
(* A symbol whose type is Error has an error of its own, for that very     *)
(* declaration and about its type ("Unknown / unresolvable types produce   *)
(* `Ty::Error` and push a `SemaError`", resolve.rs:448), unless it names   *)
(* another, which has that type already, or is a partial interface, for    *)
(* which nothing is pushed: the passes after this one say nothing of what  *)
(* has that type.                                                          *)
(***************************************************************************)
ErrorTypesReported ==
  \A i \in DOMAIN table.symbols :
    LET k == table.symbols[i].span
    IN  table.symbols[i].ty.ty = "Error"
          => \/ \E e \in errors \ Duplicates : e.second = k
             \/ prog[k].form = "Named" /\ \E j \in 1 .. i - 1 : table.symbols[j].ty.ty = "Error"
             \/ prog[k].form = "Partial"

\* Lexical scoping, with a table for its blocks.
Bindings(scope) == [x \in Names |-> LET id == table.scopes[scope].symbols[x]
                                    IN  IF id = 0 THEN 0 ELSE table.symbols[id].span]

Lexical == INSTANCE LexicalScopes WITH
  Positions <- 1 .. MaxSize,
  env <- [i \in 1 .. Len(scope_stack) |-> Bindings(scope_stack[i])],
  left <- {[at |-> k, names |-> Bindings(scope_map[k])] :
             k \in DOMAIN scope_map \ {open[i].at : i \in DOMAIN open}},
  refused <- {[first |-> e.first, second |-> e.second] : e \in Duplicates}

(***************************************************************************)
(* The table is one of lexical scopes: what the item at a position of      *)
(* scope_map declared when the walk left it is what the later passes find  *)
(* there, and nothing is ever declared in a scope that was left            *)
(* (resolve.rs:86-124, 150-177, 210-230, 327-337).                         *)
(***************************************************************************)
ImplementsLexicalScopes == Lexical!Spec

(***************************************************************************)
(* What scope.rs says of lookup, "the innermost (closest) matching         *)
(* symbol", for the names of constants in the types of a file without      *)
(* errors.                                                                 *)
(***************************************************************************)
WidthsFollowScopes ==
  errors = {} => \A u \in uses : u.want.is = "UInt" => u.got = to_u64(u.want.n)

================================================================================
